--------------------------- MODULE RateLimits_proofs ---------------------------
(***************************************************************************)
(* Proofs about RateLimits for any finite set of clients, any caps and with*)
(* or without faults: type correctness, the bound on the overshoot, and    *)
(* that the locked file implements one shared counter (DailyQuota).  The   *)
(* queue worker's actions count as unseen throughout.                      *)
(*                                                                         *)
(* The bound needs an account of who is under way.  Passed(k) are the      *)
(* clients the file has let through and that have not acted; Owing(k) are  *)
(* those that acted today and whose record has not reached the file.       *)
(* While the visible count is below the cap, every action of today is      *)
(* counted, owed or unseen (Accounted); so when a client is let through,   *)
(* the actions done and still possible are bounded (Bounded), and nobody   *)
(* is let through afterwards.                                              *)
(***************************************************************************)
EXTENDS RateLimits, FiniteSetTheorems, TLAPS

Passed(k) ==
  {c \in Clients : /\ want[c] = k
                   /\ \/ pc[c] = "act"
                      \/ pc[c] = "check" /\ stage[c] # "out" /\ allowed[c]}

Owing(k) ==
  {c \in Clients : /\ want[c] = k
                   /\ pc[c] = "record"
                   /\ actedOn[c] = today
                   /\ stage[c] # "truncated"}

Mutex == \A c, d \in Clients : stage[c] # "out" /\ stage[d] # "out" => c = d

Section == \A c \in Clients : stage[c] # "out" => pc[c] \in {"check", "record"}

Days ==
  /\ file.day <= today
  /\ \A c \in Clients :
       /\ actedOn[c] <= today
       /\ stage[c] # "out" => draft[c].day \in 0..today
       /\ stage[c] = "mutated" => file.day <= draft[c].day
       /\ stage[c] = "mutated" /\ pc[c] = "record" => actedOn[c] <= draft[c].day
       /\ stage[c] = "truncated" => file = Empty

\* A draft of today is the file it was read from, with the event of a record.
Drafts ==
  \A c \in Clients :
    stage[c] = "mutated" /\ draft[c].day = today =>
      draft[c].count = IF pc[c] = "record" /\ Today(file)[want[c]] < Cap[want[c]]
                       THEN [Today(file) EXCEPT ![want[c]] = @ + 1]
                       ELSE Today(file)

Lock == TypeOK /\ Mutex /\ Section /\ Days /\ Drafts

Accounted ==
  \A k \in Categories :
    Visible[k] < Cap[k] => sent[k] <= Visible[k] + Cardinality(Owing(k)) + unseen[k]

Bounded ==
  \A k \in Categories :
    /\ sent[k] + Cardinality(Passed(k)) <= Cap[k] + Cardinality(Clients) - 1 + unseen[k]
    /\ Passed(k) # {} => Cap[k] > 0

IInv == Lock /\ Accounted /\ Bounded

-----------------------------------------------------------------------------
(* The operators. *)

LEMMA ZeroType == Zero \in [Categories -> Nat] /\ Empty \in States /\ WithinCap(Empty)
BY BoundAssumption, CapAssumption DEF Zero, Empty, States, WithinCap

LEMMA RolloverType ==
  ASSUME TypeOK PROVE /\ Rollover(file) \in States /\ WithinCap(Rollover(file))
                      /\ Rollover(file).day = today
                      /\ Rollover(file).count = Today(file)
BY ZeroType, CapAssumption, BoundAssumption DEF TypeOK, Rollover, States, WithinCap, Today, Zero

LEMMA MutateType ==
  ASSUME NEW s \in States, WithinCap(s), NEW k \in Categories, NEW record \in BOOLEAN
  PROVE  /\ Mutate(s, k, record) \in States
         /\ WithinCap(Mutate(s, k, record))
         /\ Mutate(s, k, record).day = s.day
         /\ Mutate(s, k, record).count =
              IF record /\ s.count[k] < Cap[k] THEN [s.count EXCEPT ![k] = @ + 1] ELSE s.count
<1>1. s.count \in [Categories -> Nat] /\ Cap[k] \in Nat
  BY CapAssumption DEF States
<1>2. CASE record /\ ~AtCap(s, k)
  <2> DEFINE more == [s.count EXCEPT ![k] = s.count[k] + 1]
  <2>1. Mutate(s, k, record) = [s EXCEPT !.count = more]
    BY <1>2 DEF Mutate, WithEvent
  <2>2. s.count[k] < Cap[k]
    BY <1>1, <1>2 DEF AtCap
  <2>3. more \in [Categories -> Nat] /\ \A j \in Categories : more[j] <= Cap[j]
    BY <1>1, <2>2, CapAssumption DEF WithinCap
  <2> HIDE DEF more
  <2>4. /\ Mutate(s, k, record) \in States
        /\ Mutate(s, k, record).count = more
        /\ Mutate(s, k, record).day = s.day
    BY <2>1, <2>3 DEF States
  <2>5. QED
    BY <1>2, <2>2, <2>3, <2>4 DEF WithinCap, more
<1>3. CASE ~(record /\ ~AtCap(s, k))
  BY <1>1, <1>3 DEF Mutate, AtCap
<1>4. QED
  BY <1>2, <1>3

\* What a caller will find while nobody rewrites the file, and while one does;
\* of the current state and of the next.
LEMMA VisibleFile ==
  /\ (\A c \in Clients : stage[c] # "truncated") => Visible = Today(file)
  /\ (\A c \in Clients : stage'[c] # "truncated") => Visible' = Today(file)'
BY DEF Visible

LEMMA VisibleDraft ==
  ASSUME NEW c \in Clients
  PROVE  /\ Mutex /\ stage[c] = "truncated" => Visible = Today(draft[c])
         /\ Mutex' /\ stage'[c] = "truncated" => Visible' = Today(draft[c])'
<1>1. ASSUME Mutex, stage[c] = "truncated" PROVE Visible = Today(draft[c])
  <2>1. c = CHOOSE d \in Clients : stage[d] = "truncated"
    BY <1>1 DEF Mutex
  <2>2. QED
    BY <1>1, <2>1 DEF Visible
<1>2. ASSUME Mutex', stage'[c] = "truncated" PROVE Visible' = Today(draft[c])'
  <2>1. c = CHOOSE d \in Clients : stage'[d] = "truncated"
    BY <1>2 DEF Mutex
  <2>2. QED
    BY <1>2, <2>1 DEF Visible
<1>3. QED
  BY <1>1, <1>2

LEMMA TodayType ==
  ASSUME NEW s \in States PROVE Today(s) \in [Categories -> Nat]
BY ZeroType DEF Today, States

LEMMA VisibleType ==
  ASSUME TypeOK PROVE Visible \in [Categories -> Nat]
<1>1. CASE \E c \in Clients : stage[c] = "truncated"
  BY <1>1, TodayType DEF TypeOK, Visible
<1>2. CASE ~\E c \in Clients : stage[c] = "truncated"
  BY <1>2, TodayType DEF TypeOK, Visible
<1>3. QED
  BY <1>1, <1>2

-----------------------------------------------------------------------------
(* The locked section: one client at a time, and a draft as good as the file. *)

LEMMA InitLock == Init => Lock
BY ZeroType, BoundAssumption, CapAssumption
   DEF Init, Lock, TypeOK, Mutex, Section, Days, Drafts, Empty, Zero

LEMMA CallLock ==
  ASSUME Lock, NEW c \in Clients, NEW k \in Categories, Call(c, k) PROVE Lock'
<1>1. stage[c] = "out"
  BY DEF Lock, Section, TypeOK, Call
<1>2. TypeOK'
  BY DEF Lock, TypeOK, Call
<1>3. Mutex' /\ Section' /\ Days'
  BY <1>1 DEF Lock, TypeOK, Mutex, Section, Days, Call
<1>4. Drafts'
  BY <1>1 DEF Lock, TypeOK, Drafts, Call, Today
<1>5. QED
  BY <1>2, <1>3, <1>4 DEF Lock

LEMMA MutateLock ==
  ASSUME Lock, NEW c \in Clients, LockAndMutate(c) PROVE Lock'
<1> DEFINE s == Rollover(file)
           new == Mutate(s, want[c], pc[c] = "record")
<1>1. s \in States /\ WithinCap(s) /\ s.day = today /\ s.count = Today(file)
  BY RolloverType DEF Lock
<1>2. want[c] \in Categories /\ (pc[c] = "record") \in BOOLEAN
  BY DEF Lock, TypeOK
<1>3. /\ new \in States /\ WithinCap(new) /\ new.day = today
      /\ new.count = IF pc[c] = "record" /\ Today(file)[want[c]] < Cap[want[c]]
                     THEN [Today(file) EXCEPT ![want[c]] = @ + 1] ELSE Today(file)
  <2> HIDE DEF s
  <2>1. /\ new \in States /\ WithinCap(new) /\ new.day = s.day
        /\ new.count = IF pc[c] = "record" /\ s.count[want[c]] < Cap[want[c]]
                       THEN [s.count EXCEPT ![want[c]] = @ + 1] ELSE s.count
    BY <1>1, <1>2, MutateType
  <2>2. QED
    BY <1>1, <2>1
<1>4. /\ draft' = [draft EXCEPT ![c] = new]
      /\ stage' = [stage EXCEPT ![c] = "mutated"]
      /\ \A d \in Clients : stage[d] = "out"
      /\ pc[c] \in {"check", "record"}
      /\ allowed' = [allowed EXCEPT ![c] = ~AtCap(s, want[c])]
      /\ UNCHANGED <<today, file, pc, want, actedOn, sent, unseen>>
  BY DEF LockAndMutate, LockFree
<1> HIDE DEF s, new
<1>5. TypeOK'
  BY <1>3, <1>4 DEF Lock, TypeOK, AtCap
<1>6. Mutex' /\ Section'
  BY <1>4 DEF Lock, TypeOK, Mutex, Section
<1>7. Days'
  BY <1>3, <1>4 DEF Lock, TypeOK, Days
<1>8. Drafts'
  BY <1>3, <1>4 DEF Lock, TypeOK, Drafts, Today
<1>9. QED
  BY <1>5, <1>6, <1>7, <1>8 DEF Lock

LEMMA TruncateLock ==
  ASSUME Lock, NEW c \in Clients, Truncate(c) PROVE Lock'
<1>1. TypeOK'
  BY ZeroType DEF Lock, TypeOK, Truncate
<1>2. Mutex' /\ Section'
  BY DEF Lock, TypeOK, Mutex, Section, Truncate
<1>3. Empty.day = -1
  BY DEF Empty
<1>4. \A d \in Clients : stage[d] # "out" => d = c
  BY DEF Lock, Mutex, TypeOK, Truncate
<1>5. Days'
  BY <1>3, <1>4 DEF Lock, TypeOK, Days, Truncate
<1>6. Drafts'
  BY <1>4 DEF Lock, TypeOK, Drafts, Truncate
<1>7. QED
  BY <1>1, <1>2, <1>5, <1>6 DEF Lock

LEMMA WriteLock ==
  ASSUME Lock, NEW c \in Clients, WriteAndUnlock(c) PROVE Lock'
<1>1. TypeOK'
  BY ZeroType DEF Lock, TypeOK, WriteAndUnlock
<1>2. \A d \in Clients : stage'[d] = "out"
  BY DEF Lock, Mutex, TypeOK, WriteAndUnlock
<1>3. Mutex' /\ Section' /\ Drafts'
  BY <1>2 DEF Mutex, Section, Drafts
<1>4. file'.day <= today'
  BY DEF Lock, TypeOK, Days, WriteAndUnlock
<1>5. Days'
  BY <1>2, <1>4 DEF Lock, Days, WriteAndUnlock
<1>6. QED
  BY <1>1, <1>3, <1>5 DEF Lock

\* The three ends of an action on LinkedIn.
LEMMA ActLock ==
  ASSUME Lock, NEW c \in Clients, Act(c) \/ ActFails(c) \/ ActRaisesLate(c) PROVE Lock'
<1>1. stage[c] = "out" /\ want[c] \in Categories
  BY DEF Lock, Section, TypeOK, Act, ActFails, ActRaisesLate
<1>2. TypeOK'
  BY <1>1 DEF Lock, TypeOK, Act, ActFails, ActRaisesLate
<1>3. Mutex' /\ Section'
  BY <1>1 DEF Lock, TypeOK, Mutex, Section, Act, ActFails, ActRaisesLate
<1>4. Days'
  BY <1>1 DEF Lock, TypeOK, Days, Act, ActFails, ActRaisesLate
<1>5. Drafts'
  BY <1>1 DEF Lock, TypeOK, Drafts, Today, Act, ActFails, ActRaisesLate
<1>6. QED
  BY <1>2, <1>3, <1>4, <1>5 DEF Lock

LEMMA DieLock ==
  ASSUME Lock, NEW c \in Clients, Die(c) PROVE Lock'
<1>1. want[c] \in Categories
  BY DEF Lock, TypeOK
<1>2. unseen' \in [Categories -> Nat]
  BY <1>1 DEF Lock, TypeOK, Die
<1>3. TypeOK'
  BY <1>2, ZeroType DEF Lock, TypeOK, Die
<1>4. Mutex' /\ Section'
  BY DEF Lock, TypeOK, Mutex, Section, Die
<1>5. Days'
  BY DEF Lock, TypeOK, Days, Die
<1>6. Drafts'
  BY DEF Lock, TypeOK, Drafts, Today, Die
<1>7. QED
  BY <1>3, <1>4, <1>5, <1>6 DEF Lock

LEMMA MidnightLock ==
  ASSUME Lock, Midnight PROVE Lock'
<1>1. TypeOK'
  BY ZeroType, BoundAssumption DEF Lock, TypeOK, Midnight, clientVars
<1>2. Mutex' /\ Section'
  BY DEF Lock, Mutex, Section, Midnight, clientVars
<1>3. Days'
  BY DEF Lock, TypeOK, States, Days, Midnight, clientVars
<1>4. Drafts'
  BY DEF Lock, TypeOK, Days, Drafts, Midnight, clientVars
<1>5. QED
  BY <1>1, <1>2, <1>3, <1>4 DEF Lock

LEMMA WorkerLock ==
  ASSUME Lock, NEW k \in Categories, WorkerActs(k) PROVE Lock'
<1>1. TypeOK'
  BY DEF Lock, TypeOK, WorkerActs, clientVars
<1>2. Mutex' /\ Section' /\ Days' /\ Drafts'
  BY DEF Lock, Mutex, Section, Days, Drafts, Today, WorkerActs, clientVars
<1>3. QED
  BY <1>1, <1>2 DEF Lock

LEMMA StepLock == Lock /\ [Next]_vars => Lock'
<1>1. ASSUME Lock, NEW c \in Clients, ClientNext(c) PROVE Lock'
  BY <1>1, CallLock, MutateLock, TruncateLock, WriteLock, ActLock, DieLock DEF ClientNext
<1>2. ASSUME Lock, UNCHANGED vars PROVE Lock'
  BY <1>2 DEF vars, clientVars, Lock, TypeOK, Mutex, Section, Days, Drafts, Today
<1>3. QED
  BY <1>1, <1>2, WorkerLock, MidnightLock DEF Next

\* Every variable keeps its type; the counts in the file and in every draft stay
\* within the caps.
THEOREM QuotaTypeCorrect == Spec => []TypeOK
<1>1. Lock => TypeOK
  BY DEF Lock
<1>2. QED
  BY <1>1, InitLock, StepLock, PTL DEF Spec


-----------------------------------------------------------------------------
(* Counting clients. *)

LEMMA Counting ==
  ASSUME NEW S \in SUBSET Clients
  PROVE  /\ IsFiniteSet(S)
         /\ Cardinality(S) \in Nat
         /\ Cardinality(S) <= Cardinality(Clients)
         /\ Cardinality(Clients) \in Nat \ {0}
BY ClientsAssumption, FS_Subset, FS_CardinalityType, FS_EmptySet

LEMMA CountOne ==
  ASSUME NEW S \in SUBSET Clients, NEW c \in Clients
  PROVE  /\ Cardinality(S \cup {c}) = IF c \in S THEN Cardinality(S) ELSE Cardinality(S) + 1
         /\ Cardinality(S \ {c}) = IF c \in S THEN Cardinality(S) - 1 ELSE Cardinality(S)
BY Counting, FS_AddElement, FS_RemoveElement

LEMMA CountDisjoint ==
  ASSUME NEW S \in SUBSET Clients, NEW T \in SUBSET Clients, S \cap T = {}
  PROVE  Cardinality(S) + Cardinality(T) <= Cardinality(Clients)
<1>1. Cardinality(S \cup T) = Cardinality(S) + Cardinality(T) - Cardinality(S \cap T)
  BY Counting, FS_Union
<1>2. Cardinality(S \cap T) = 0
  BY FS_EmptySet
<1>3. Cardinality(S \cup T) <= Cardinality(Clients)
  BY Counting
<1>4. QED
  BY <1>1, <1>2, <1>3, Counting

\* A proper subset leaves room for one.
LEMMA CountWithout ==
  ASSUME NEW S \in SUBSET Clients, NEW c \in Clients, c \notin S
  PROVE  Cardinality(S) <= Cardinality(Clients) - 1
<1>1. Cardinality(S \cup {c}) = Cardinality(S) + 1
  BY CountOne
<1>2. Cardinality(S \cup {c}) <= Cardinality(Clients)
  BY Counting
<1>3. QED
  BY <1>1, <1>2, Counting

LEMMA SetsType ==
  ASSUME NEW k PROVE /\ Passed(k) \in SUBSET Clients /\ Owing(k) \in SUBSET Clients
                     /\ Passed(k)' \in SUBSET Clients /\ Owing(k)' \in SUBSET Clients
BY DEF Passed, Owing

\* The account of a step that leaves the visible count and the day's history alone
\* and lets nobody new through.
LEMMA Quiet ==
  ASSUME IInv, Lock', UNCHANGED <<Visible, sent, unseen>>,
         \A k \in Categories : Passed(k)' \subseteq Passed(k) /\ Owing(k) \subseteq Owing(k)'
  PROVE  Accounted' /\ Bounded'
<1>1. ASSUME NEW k \in Categories
      PROVE  /\ Cardinality(Passed(k)') <= Cardinality(Passed(k))
             /\ Cardinality(Owing(k)) <= Cardinality(Owing(k)')
  BY SetsType, Counting, FS_Subset
<1>2. ASSUME NEW k \in Categories
      PROVE  /\ Cardinality(Passed(k)) \in Nat /\ Cardinality(Passed(k)') \in Nat
             /\ Cardinality(Owing(k)) \in Nat /\ Cardinality(Owing(k)') \in Nat
             /\ Cardinality(Clients) \in Nat
             /\ Visible[k] \in Nat /\ sent[k] \in Nat /\ unseen[k] \in Nat /\ Cap[k] \in Nat
  BY SetsType, Counting, VisibleType, CapAssumption DEF IInv, Lock, TypeOK
<1>3. Accounted'
  <2> SUFFICES ASSUME NEW k \in Categories, Visible'[k] < Cap[k]
               PROVE  sent'[k] <= Visible'[k] + Cardinality(Owing(k)') + unseen'[k]
    BY DEF Accounted
  <2>1. sent[k] <= Visible[k] + Cardinality(Owing(k)) + unseen[k]
    BY DEF IInv, Accounted
  <2>2. QED
    BY <1>1, <1>2, <2>1
<1>4. Bounded'
  <2> SUFFICES ASSUME NEW k \in Categories
               PROVE  /\ sent'[k] + Cardinality(Passed(k)')
                           <= Cap[k] + Cardinality(Clients) - 1 + unseen'[k]
                      /\ Passed(k)' # {} => Cap[k] > 0
    BY DEF Bounded
  <2>1. /\ sent[k] + Cardinality(Passed(k)) <= Cap[k] + Cardinality(Clients) - 1 + unseen[k]
        /\ Passed(k) # {} => Cap[k] > 0
    BY DEF IInv, Bounded
  <2>2. QED
    BY <1>1, <1>2, <2>1
<1>5. QED
  BY <1>3, <1>4


LEMMA NumbersType ==
  ASSUME Lock, Lock', NEW k \in Categories
  PROVE  /\ Cardinality(Passed(k)) \in Nat /\ Cardinality(Passed(k)') \in Nat
         /\ Cardinality(Owing(k)) \in Nat /\ Cardinality(Owing(k)') \in Nat
         /\ Cardinality(Clients) \in Nat \ {0}
         /\ Visible[k] \in Nat /\ sent[k] \in Nat /\ unseen[k] \in Nat /\ Cap[k] \in Nat
         /\ sent'[k] \in Nat /\ unseen'[k] \in Nat
BY SetsType, Counting, VisibleType, CapAssumption DEF Lock, TypeOK

-----------------------------------------------------------------------------
(* The account, one lemma per action. *)

LEMMA CallAccount ==
  ASSUME IInv, Lock', NEW c \in Clients, NEW k \in Categories, Call(c, k)
  PROVE  Accounted' /\ Bounded'
<1>1. stage[c] = "out"
  BY DEF IInv, Lock, Section, TypeOK, Call
<1>2. UNCHANGED <<Visible, sent, unseen>>
  BY DEF Call, Visible, Today
<1>3. ASSUME NEW j \in Categories
      PROVE  Passed(j)' \subseteq Passed(j) /\ Owing(j) \subseteq Owing(j)'
  BY <1>1 DEF IInv, Lock, TypeOK, Call, Passed, Owing
<1>4. QED
  BY <1>2, <1>3, Quiet

LEMMA WriteAccount ==
  ASSUME IInv, Lock', NEW c \in Clients, WriteAndUnlock(c)
  PROVE  Accounted' /\ Bounded'
<1>1. \A d \in Clients : stage'[d] = "out"
  BY DEF IInv, Lock, Mutex, TypeOK, WriteAndUnlock
<1>2. Visible' = Today(file)' /\ Visible = Today(draft[c])
  BY <1>1, VisibleFile, VisibleDraft DEF IInv, Lock, WriteAndUnlock
<1>3. UNCHANGED <<Visible, sent, unseen>>
  BY <1>2 DEF WriteAndUnlock, Today
<1>4. ASSUME NEW j \in Categories
      PROVE  Passed(j)' \subseteq Passed(j) /\ Owing(j) \subseteq Owing(j)'
  BY <1>1 DEF IInv, Lock, TypeOK, WriteAndUnlock, Passed, Owing
<1>5. QED
  BY <1>3, <1>4, Quiet

LEMMA ActFailsAccount ==
  ASSUME IInv, Lock', NEW c \in Clients, ActFails(c)
  PROVE  Accounted' /\ Bounded'
<1>1. UNCHANGED <<Visible, sent, unseen>>
  BY DEF ActFails, Visible, Today
<1>2. ASSUME NEW j \in Categories
      PROVE  Passed(j)' \subseteq Passed(j) /\ Owing(j) \subseteq Owing(j)'
  BY DEF IInv, Lock, TypeOK, ActFails, Passed, Owing
<1>3. QED
  BY <1>1, <1>2, Quiet

\* A check that passes finds the count below the cap: those under way, itself
\* included, are at most the clients.
LEMMA MutateAccount ==
  ASSUME IInv, Lock', NEW c \in Clients, LockAndMutate(c)
  PROVE  Accounted' /\ Bounded'
<1>1. /\ \A d \in Clients : stage[d] = "out"
      /\ \A d \in Clients : stage'[d] # "truncated"
      /\ UNCHANGED <<today, file, pc, want, actedOn, sent, unseen>>
      /\ stage' = [stage EXCEPT ![c] = "mutated"]
      /\ allowed' = [allowed EXCEPT ![c] = ~AtCap(Rollover(file), want[c])]
  BY DEF IInv, Lock, TypeOK, LockAndMutate, LockFree
<1>2. Visible = Today(file) /\ Visible' = Visible
  BY <1>1, VisibleFile DEF Today
<1>3. ASSUME NEW j \in Categories PROVE Owing(j)' = Owing(j)
  BY <1>1 DEF Owing
<1>4. CASE ~(pc[c] = "check" /\ allowed'[c])
  <2>1. ASSUME NEW j \in Categories PROVE Passed(j)' \subseteq Passed(j)
    BY <1>1, <1>4 DEF IInv, Lock, TypeOK, Passed
  <2>2. QED
    BY <1>1, <1>2, <1>3, <2>1, Quiet
<1>5. CASE pc[c] = "check" /\ allowed'[c]
  <2>1. want[c] \in Categories /\ ~AtCap(Rollover(file), want[c])
    BY <1>1, <1>5 DEF IInv, Lock, TypeOK
  <2>2. Visible[want[c]] < Cap[want[c]]
    BY <1>2, <2>1, RolloverType, NumbersType DEF AtCap, IInv, Lock
  <2>3. ASSUME NEW j \in Categories
        PROVE  Passed(j)' = IF j = want[c] THEN Passed(j) \cup {c} ELSE Passed(j)
    BY <1>1, <1>5 DEF IInv, Lock, TypeOK, Passed
  <2>4. Accounted'
    BY <1>1, <1>2, <1>3 DEF IInv, Accounted
  <2>5. ASSUME NEW j \in Categories
        PROVE  /\ sent'[j] + Cardinality(Passed(j)')
                    <= Cap[j] + Cardinality(Clients) - 1 + unseen'[j]
               /\ Passed(j)' # {} => Cap[j] > 0
    <3>1. CASE j # want[c]
      BY <1>1, <2>3, <2>5, <3>1 DEF IInv, Bounded
    <3>2. CASE j = want[c]
      <4>1. Passed(j)' \cap Owing(j)' = {}
        BY DEF Passed, Owing
      <4>2. Cardinality(Passed(j)') + Cardinality(Owing(j)) <= Cardinality(Clients)
        BY <1>3, <4>1, SetsType, CountDisjoint
      <4>3. sent[j] <= Visible[j] + Cardinality(Owing(j)) + unseen[j]
        BY <2>2, <3>2 DEF IInv, Accounted
      <4>4. sent'[j] = sent[j] /\ unseen'[j] = unseen[j]
        BY <1>1
      <4>5. QED
        BY <2>2, <3>2, <4>2, <4>3, <4>4, NumbersType DEF IInv
    <3>3. QED
      BY <3>1, <3>2
  <2>6. QED
    BY <2>4, <2>5 DEF Bounded
<1>6. QED
  BY <1>4, <1>5

\* The record becomes visible as its event stops being owed; a record the midnight
\* overtook shows nothing and owed nothing.
LEMMA TruncateAccount ==
  ASSUME IInv, Lock', NEW c \in Clients, Truncate(c)
  PROVE  Accounted' /\ Bounded'
<1>1. /\ stage[c] = "mutated"
      /\ stage' = [stage EXCEPT ![c] = "truncated"]
      /\ UNCHANGED <<today, pc, want, draft, allowed, actedOn, sent, unseen>>
  BY DEF Truncate
<1>2. \A d \in Clients : stage[d] # "truncated"
  BY <1>1 DEF IInv, Lock, Mutex
<1>3. Visible = Today(file) /\ Visible' = Today(draft[c])
  BY <1>1, <1>2, VisibleFile, VisibleDraft DEF IInv, Lock, TypeOK, Today
<1>4. ASSUME NEW j \in Categories
      PROVE  /\ Passed(j)' = Passed(j)
             /\ Owing(j)' = Owing(j) \ {c}
  BY <1>1, <1>2 DEF IInv, Lock, TypeOK, Passed, Owing
<1>5. Bounded'
  BY <1>1, <1>4 DEF IInv, Bounded
<1>6. ASSUME NEW j \in Categories, Visible'[j] < Cap[j]
      PROVE  sent'[j] <= Visible'[j] + Cardinality(Owing(j)') + unseen'[j]
  <2>1. /\ Cardinality(Owing(j)') = IF c \in Owing(j) THEN Cardinality(Owing(j)) - 1
                                    ELSE Cardinality(Owing(j))
        /\ sent'[j] = sent[j] /\ unseen'[j] = unseen[j]
    BY <1>1, <1>4, SetsType, CountOne
  <2>2. CASE draft[c].day # today
    <3>1. file.day # today /\ c \notin Owing(j)
      <4>1. draft[c].day \in 0..today /\ file.day <= draft[c].day
        BY <1>1 DEF IInv, Lock, Days
      <4>2. pc[c] = "record" => actedOn[c] <= draft[c].day
        BY <1>1 DEF IInv, Lock, Days
      <4>3. today \in Int /\ file.day \in Int /\ actedOn[c] \in Int
        BY BoundAssumption DEF IInv, Lock, TypeOK, States
      <4>4. draft[c].day < today
        BY <2>2, <4>1, <4>3
      <4>5. file.day # today /\ (pc[c] = "record" => actedOn[c] # today)
        BY <4>1, <4>2, <4>3, <4>4
      <4>6. QED
        BY <4>5 DEF Owing
    <3>2. Visible' = Visible
      BY <1>3, <2>2, <3>1 DEF Today
    <3>3. QED
      BY <1>6, <2>1, <3>1, <3>2 DEF IInv, Accounted
  <2>3. CASE draft[c].day = today
    <3>1. Visible' = IF pc[c] = "record" /\ Visible[want[c]] < Cap[want[c]]
                     THEN [Visible EXCEPT ![want[c]] = @ + 1] ELSE Visible
      BY <1>1, <1>3, <2>3 DEF IInv, Lock, Drafts, Today
    <3>2. c \in Owing(j) => pc[c] = "record" /\ want[c] = j
      BY DEF Owing
    <3>3. Visible \in [Categories -> Nat]
      BY VisibleType DEF IInv, Lock
    <3>4. CASE c \in Owing(j)
      <4>1. Visible[j] < Cap[j] /\ Visible'[j] = Visible[j] + 1
        BY <1>6, <3>1, <3>2, <3>3, <3>4
      <4>2. sent[j] <= Visible[j] + Cardinality(Owing(j)) + unseen[j]
        BY <4>1 DEF IInv, Accounted
      <4>3. QED
        BY <2>1, <3>4, <4>1, <4>2, NumbersType DEF IInv
    <3>5. CASE c \notin Owing(j)
      <4>1. Visible'[j] >= Visible[j] /\ Visible'[j] \in Nat
        BY <3>1, <3>3
      <4>2. Visible[j] < Cap[j]
        BY <1>6, <4>1, NumbersType DEF IInv
      <4>3. sent[j] <= Visible[j] + Cardinality(Owing(j)) + unseen[j]
        BY <4>2 DEF IInv, Accounted
      <4>4. QED
        BY <2>1, <3>5, <4>1, <4>3, NumbersType DEF IInv
    <3>6. QED
      BY <3>4, <3>5
  <2>4. QED
    BY <2>2, <2>3
<1>7. QED
  BY <1>5, <1>6 DEF Accounted


LEMMA ActAccount ==
  ASSUME IInv, Lock', NEW c \in Clients, Act(c)
  PROVE  Accounted' /\ Bounded'
<1>1. /\ pc[c] = "act" /\ want[c] \in Categories /\ stage[c] = "out"
      /\ sent' = [sent EXCEPT ![want[c]] = @ + 1]
      /\ actedOn' = [actedOn EXCEPT ![c] = today]
      /\ pc' = [pc EXCEPT ![c] = "record"]
      /\ UNCHANGED <<today, file, want, stage, draft, allowed, unseen>>
  BY DEF Act, IInv, Lock, TypeOK, Section
<1>2. Visible' = Visible
  BY <1>1 DEF Visible, Today
<1>3. ASSUME NEW j \in Categories, j # want[c]
      PROVE  Passed(j)' = Passed(j) /\ Owing(j)' = Owing(j) /\ sent'[j] = sent[j]
  BY <1>1, <1>3 DEF IInv, Lock, TypeOK, Passed, Owing
<1>4. ASSUME NEW j \in Categories, j = want[c]
      PROVE  /\ c \in Passed(j) /\ c \notin Owing(j)
             /\ Passed(j)' = Passed(j) \ {c}
             /\ Owing(j)' = Owing(j) \cup {c}
             /\ sent'[j] = sent[j] + 1
  BY <1>1, <1>4 DEF IInv, Lock, TypeOK, Passed, Owing
<1>5. ASSUME NEW j \in Categories, j = want[c]
      PROVE  /\ Cardinality(Passed(j)') = Cardinality(Passed(j)) - 1
             /\ Cardinality(Owing(j)') = Cardinality(Owing(j)) + 1
  BY <1>4, <1>5, SetsType, CountOne
<1>6. ASSUME NEW j \in Categories, Visible'[j] < Cap[j]
      PROVE  sent'[j] <= Visible'[j] + Cardinality(Owing(j)') + unseen'[j]
  <2>1. sent[j] <= Visible[j] + Cardinality(Owing(j)) + unseen[j] /\ unseen'[j] = unseen[j]
    BY <1>1, <1>2, <1>6 DEF IInv, Accounted
  <2>2. CASE j # want[c]
    BY <1>2, <1>3, <2>1, <2>2
  <2>3. CASE j = want[c]
    BY <1>2, <1>4, <1>5, <2>1, <2>3, NumbersType DEF IInv
  <2>4. QED
    BY <2>2, <2>3
<1>7. ASSUME NEW j \in Categories
      PROVE  /\ sent'[j] + Cardinality(Passed(j)')
                  <= Cap[j] + Cardinality(Clients) - 1 + unseen'[j]
             /\ Passed(j)' # {} => Cap[j] > 0
  <2>1. /\ sent[j] + Cardinality(Passed(j)) <= Cap[j] + Cardinality(Clients) - 1 + unseen[j]
        /\ Passed(j) # {} => Cap[j] > 0
        /\ unseen'[j] = unseen[j]
    BY <1>1 DEF IInv, Bounded
  <2>2. CASE j # want[c]
    BY <1>3, <2>1, <2>2
  <2>3. CASE j = want[c]
    BY <1>4, <1>5, <2>1, <2>3, NumbersType DEF IInv
  <2>4. QED
    BY <2>2, <2>3
<1>8. QED
  BY <1>6, <1>7 DEF Accounted, Bounded

LEMMA ActRaisesLateAccount ==
  ASSUME IInv, Lock', NEW c \in Clients, ActRaisesLate(c)
  PROVE  Accounted' /\ Bounded'
<1>1. /\ pc[c] = "act" /\ want[c] \in Categories
      /\ sent' = [sent EXCEPT ![want[c]] = @ + 1]
      /\ unseen' = [unseen EXCEPT ![want[c]] = @ + 1]
      /\ pc' = [pc EXCEPT ![c] = "idle"]
      /\ UNCHANGED <<today, file, want, stage, draft, allowed, actedOn>>
  BY DEF ActRaisesLate, IInv, Lock, TypeOK
<1>2. Visible' = Visible
  BY <1>1 DEF Visible, Today
<1>3. ASSUME NEW j \in Categories
      PROVE  /\ Passed(j)' \subseteq Passed(j) /\ Owing(j)' = Owing(j)
             /\ \/ sent'[j] = sent[j] /\ unseen'[j] = unseen[j]
                \/ sent'[j] = sent[j] + 1 /\ unseen'[j] = unseen[j] + 1
  BY <1>1 DEF IInv, Lock, TypeOK, Passed, Owing
<1>4. ASSUME NEW j \in Categories PROVE Cardinality(Passed(j)') <= Cardinality(Passed(j))
  BY <1>3, SetsType, Counting, FS_Subset
<1>5. ASSUME NEW j \in Categories, Visible'[j] < Cap[j]
      PROVE  sent'[j] <= Visible'[j] + Cardinality(Owing(j)') + unseen'[j]
  <2>1. sent[j] <= Visible[j] + Cardinality(Owing(j)) + unseen[j]
    BY <1>2, <1>5 DEF IInv, Accounted
  <2>2. QED
    BY <1>2, <1>3, <2>1, NumbersType DEF IInv
<1>6. ASSUME NEW j \in Categories
      PROVE  /\ sent'[j] + Cardinality(Passed(j)')
                  <= Cap[j] + Cardinality(Clients) - 1 + unseen'[j]
             /\ Passed(j)' # {} => Cap[j] > 0
  <2>1. /\ sent[j] + Cardinality(Passed(j)) <= Cap[j] + Cardinality(Clients) - 1 + unseen[j]
        /\ Passed(j) # {} => Cap[j] > 0
    BY DEF IInv, Bounded
  <2>2. QED
    BY <1>3, <1>4, <2>1, NumbersType DEF IInv
<1>7. QED
  BY <1>5, <1>6 DEF Accounted, Bounded

\* A torn write leaves everything unseen; any other death at most its own record.
LEMMA DieAccount ==
  ASSUME IInv, Lock', NEW c \in Clients, Die(c)
  PROVE  Accounted' /\ Bounded'
<1>1. /\ pc' = [pc EXCEPT ![c] = "idle"]
      /\ stage' = [stage EXCEPT ![c] = "out"]
      /\ draft' = [draft EXCEPT ![c] = Empty]
      /\ UNCHANGED <<today, file, want, actedOn, sent>>
      /\ allowed' = [allowed EXCEPT ![c] = FALSE]
      /\ want[c] \in Categories
  BY DEF Die, IInv, Lock, TypeOK
<1>2. ASSUME NEW j \in Categories
      PROVE  /\ Passed(j)' = Passed(j) \ {c} /\ Owing(j)' = Owing(j) \ {c}
             /\ c \notin Passed(j)'
  BY <1>1 DEF IInv, Lock, TypeOK, Passed, Owing
<1>3. CASE stage[c] = "truncated"
  <2>1. unseen' = sent
    BY <1>3 DEF Die
  <2>2. ASSUME NEW j \in Categories PROVE Cardinality(Passed(j)') <= Cardinality(Clients) - 1
    BY <1>2, SetsType, CountWithout
  <2>3. Visible' \in [Categories -> Nat]
    <3>1. \A d \in Clients : stage'[d] # "truncated"
      BY <1>1, <1>3 DEF IInv, Lock, TypeOK, Mutex
    <3>2. Visible' = Today(file)'
      BY <3>1, VisibleFile
    <3>3. Today(file) \in [Categories -> Nat]
      BY TodayType DEF IInv, Lock, TypeOK
    <3>4. QED
      BY <1>1, <3>2, <3>3 DEF Today
  <2>4. Accounted'
    BY <1>1, <2>1, <2>3, NumbersType DEF IInv, Accounted
  <2>5. Bounded'
    <3> SUFFICES ASSUME NEW j \in Categories
                 PROVE  /\ sent'[j] + Cardinality(Passed(j)')
                             <= Cap[j] + Cardinality(Clients) - 1 + unseen'[j]
                        /\ Passed(j)' # {} => Cap[j] > 0
      BY DEF Bounded
    <3>1. Passed(j)' # {} => Cap[j] > 0
      BY <1>2 DEF IInv, Bounded
    <3>2. QED
      BY <1>1, <2>1, <2>2, <3>1, NumbersType DEF IInv
  <2>6. QED
    BY <2>4, <2>5
<1>4. CASE stage[c] # "truncated"
  <2>1. Visible' = Visible
    <3>1. CASE \E d \in Clients : stage[d] = "truncated"
      <4>1. PICK d \in Clients : stage[d] = "truncated"
        BY <3>1
      <4>2. d # c /\ stage'[d] = "truncated" /\ draft'[d] = draft[d]
        BY <1>1, <1>4, <4>1 DEF IInv, Lock, TypeOK
      <4>3. Visible = Today(draft[d]) /\ Visible' = Today(draft[d])'
        BY <4>1, <4>2, VisibleDraft DEF IInv, Lock
      <4>4. QED
        BY <1>1, <4>2, <4>3 DEF Today
    <3>2. CASE ~\E d \in Clients : stage[d] = "truncated"
      <4>1. \A d \in Clients : stage'[d] # "truncated"
        BY <1>1, <3>2 DEF IInv, Lock, TypeOK
      <4>2. QED
        BY <1>1, <3>2, <4>1, VisibleFile DEF Today
    <3>3. QED
      BY <3>1, <3>2
  <2>2. ASSUME NEW j \in Categories
        PROVE  /\ Cardinality(Owing(j)') = IF c \in Owing(j) THEN Cardinality(Owing(j)) - 1
                                           ELSE Cardinality(Owing(j))
               /\ Cardinality(Passed(j)') <= Cardinality(Passed(j))
               /\ unseen'[j] >= IF c \in Owing(j) THEN unseen[j] + 1 ELSE unseen[j]
    <3>1. Cardinality(Owing(j)') = IF c \in Owing(j) THEN Cardinality(Owing(j)) - 1
                                   ELSE Cardinality(Owing(j))
      BY <1>2, SetsType, CountOne
    <3>2. Cardinality(Passed(j)') <= Cardinality(Passed(j))
      BY <1>2, SetsType, Counting, FS_Subset
    <3>3. unseen'[j] >= IF c \in Owing(j) THEN unseen[j] + 1 ELSE unseen[j]
      BY <1>4 DEF Die, Owing, IInv, Lock, TypeOK
    <3>4. QED
      BY <3>1, <3>2, <3>3
  <2>3. ASSUME NEW j \in Categories, Visible'[j] < Cap[j]
        PROVE  sent'[j] <= Visible'[j] + Cardinality(Owing(j)') + unseen'[j]
    <3>1. sent[j] <= Visible[j] + Cardinality(Owing(j)) + unseen[j]
      BY <2>1, <2>3 DEF IInv, Accounted
    <3>2. QED
      BY <1>1, <2>1, <2>2, <3>1, NumbersType DEF IInv
  <2>4. ASSUME NEW j \in Categories
        PROVE  /\ sent'[j] + Cardinality(Passed(j)')
                    <= Cap[j] + Cardinality(Clients) - 1 + unseen'[j]
               /\ Passed(j)' # {} => Cap[j] > 0
    <3>1. /\ sent[j] + Cardinality(Passed(j)) <= Cap[j] + Cardinality(Clients) - 1 + unseen[j]
          /\ Passed(j)' # {} => Cap[j] > 0
      BY <1>2 DEF IInv, Bounded
    <3>2. QED
      BY <1>1, <2>2, <3>1, NumbersType DEF IInv
  <2>5. QED
    BY <2>3, <2>4 DEF Accounted, Bounded
<1>5. QED
  BY <1>3, <1>4


\* The worker's actions are all unseen: they leave the account as it was.
LEMMA WorkerAccount ==
  ASSUME IInv, Lock', NEW k \in Categories, WorkerActs(k)
  PROVE  Accounted' /\ Bounded'
<1>1. /\ UNCHANGED <<today, file, pc, want, stage, draft, allowed, actedOn>>
      /\ sent' = [sent EXCEPT ![k] = @ + 1] /\ unseen' = [unseen EXCEPT ![k] = @ + 1]
      /\ sent \in [Categories -> Nat] /\ unseen \in [Categories -> Nat]
  BY DEF WorkerActs, clientVars, IInv, Lock, TypeOK
<1>2. UNCHANGED Visible
  BY <1>1 DEF Visible, Today
<1>3. ASSUME NEW j \in Categories PROVE Passed(j)' = Passed(j) /\ Owing(j)' = Owing(j)
  BY <1>1 DEF Passed, Owing
<1>4. ASSUME NEW j \in Categories
      PROVE  \/ sent'[j] = sent[j] /\ unseen'[j] = unseen[j]
             \/ sent'[j] = sent[j] + 1 /\ unseen'[j] = unseen[j] + 1
  BY <1>1
<1>5. ASSUME NEW j \in Categories, Visible'[j] < Cap[j]
      PROVE  sent'[j] <= Visible'[j] + Cardinality(Owing(j)') + unseen'[j]
  <2>1. sent[j] <= Visible[j] + Cardinality(Owing(j)) + unseen[j]
    BY <1>2, <1>5 DEF IInv, Accounted
  <2>2. QED
    BY <1>2, <1>3, <1>4, <2>1, NumbersType DEF IInv
<1>6. ASSUME NEW j \in Categories
      PROVE  /\ sent'[j] + Cardinality(Passed(j)')
                  <= Cap[j] + Cardinality(Clients) - 1 + unseen'[j]
             /\ Passed(j)' # {} => Cap[j] > 0
  <2>1. /\ sent[j] + Cardinality(Passed(j)) <= Cap[j] + Cardinality(Clients) - 1 + unseen[j]
        /\ Passed(j) # {} => Cap[j] > 0
    BY DEF IInv, Bounded
  <2>2. QED
    BY <1>3, <1>4, <2>1, NumbersType DEF IInv
<1>7. QED
  BY <1>5, <1>6 DEF Accounted, Bounded

LEMMA MidnightAccount ==
  ASSUME IInv, Lock', Midnight
  PROVE  Accounted' /\ Bounded'
<1>1. /\ today' = today + 1 /\ sent' = Zero /\ unseen' = Zero
      /\ UNCHANGED <<file, pc, want, stage, draft, allowed, actedOn>>
  BY DEF Midnight, clientVars
<1>2. Visible' \in [Categories -> Nat]
  <2>1. CASE \E d \in Clients : stage'[d] = "truncated"
    <3>1. PICK d \in Clients : stage'[d] = "truncated"
      BY <2>1
    <3>2. Visible' = Today(draft[d])'
      BY <3>1, VisibleDraft DEF Lock
    <3>3. QED
      BY <1>1, <3>2, ZeroType DEF IInv, Lock, TypeOK, States, Today
  <2>2. CASE ~\E d \in Clients : stage'[d] = "truncated"
    <3>1. Visible' = Today(file)'
      BY <2>2, VisibleFile
    <3>2. QED
      BY <1>1, <3>1, ZeroType DEF IInv, Lock, TypeOK, States, Today
  <2>3. QED
    BY <2>1, <2>2
<1>3. ASSUME NEW j \in Categories PROVE Passed(j)' = Passed(j)
  BY <1>1 DEF Passed
<1>4. ASSUME NEW j \in Categories PROVE sent'[j] = 0 /\ unseen'[j] = 0 /\ Visible'[j] \in Nat
  BY <1>1, <1>2 DEF Zero
<1>5. Accounted'
  BY <1>4, NumbersType DEF IInv, Accounted
<1>6. ASSUME NEW j \in Categories
      PROVE  /\ sent'[j] + Cardinality(Passed(j)')
                  <= Cap[j] + Cardinality(Clients) - 1 + unseen'[j]
             /\ Passed(j)' # {} => Cap[j] > 0
  <2>1. Passed(j) # {} => Cap[j] > 0
    BY DEF IInv, Bounded
  <2>2. Cardinality(Passed(j)) <= Cardinality(Clients)
    BY SetsType, Counting
  <2>3. Passed(j) = {} => Cardinality(Passed(j)) = 0
    BY FS_EmptySet
  <2>4. QED
    BY <1>3, <1>4, <2>1, <2>2, <2>3, NumbersType DEF IInv
<1>7. QED
  BY <1>5, <1>6 DEF Bounded

LEMMA InitAccount == Init => Accounted /\ Bounded
<1> SUFFICES ASSUME Init PROVE Accounted /\ Bounded
  OBVIOUS
<1>1. Lock
  BY InitLock
<1>2. ASSUME NEW k \in Categories PROVE Passed(k) = {} /\ Cardinality(Passed(k)) = 0
  BY FS_EmptySet DEF Init, Passed
<1>3. ASSUME NEW k \in Categories
      PROVE  /\ sent[k] = 0 /\ unseen[k] = 0 /\ Visible[k] \in Nat /\ Cap[k] \in Nat
             /\ Cardinality(Owing(k)) \in Nat /\ Cardinality(Clients) \in Nat \ {0}
  BY <1>1, VisibleType, SetsType, Counting, CapAssumption DEF Init, Zero, Lock
<1>4. QED
  BY <1>2, <1>3 DEF Accounted, Bounded

LEMMA StepAccount == IInv /\ [Next]_vars => Accounted' /\ Bounded'
<1> SUFFICES ASSUME IInv, [Next]_vars PROVE Accounted' /\ Bounded'
  OBVIOUS
<1>1. Lock'
  BY StepLock DEF IInv
<1>2. ASSUME NEW c \in Clients, ClientNext(c) PROVE Accounted' /\ Bounded'
  BY <1>1, <1>2, CallAccount, MutateAccount, TruncateAccount, WriteAccount, ActAccount,
     ActFailsAccount, ActRaisesLateAccount, DieAccount DEF ClientNext
<1>3. CASE UNCHANGED vars
  <2>1. UNCHANGED <<Visible, sent, unseen>>
    BY <1>3 DEF vars, clientVars, Visible, Today
  <2>2. ASSUME NEW j \in Categories
        PROVE  Passed(j)' \subseteq Passed(j) /\ Owing(j) \subseteq Owing(j)'
    BY <1>3 DEF vars, clientVars, Passed, Owing
  <2>3. QED
    BY <1>1, <2>1, <2>2, Quiet
<1>4. QED
  BY <1>1, <1>2, <1>3, WorkerAccount, MidnightAccount DEF Next

\* Apart from what the file cannot know of, the queue worker's actions among it, LinkedIn
\* never sees more than the cap and one action per further concurrent caller.
THEOREM OvershootIsBounded == Spec => []OvershootBounded
<1>1. IInv => OvershootBounded
  <2> SUFFICES ASSUME IInv, NEW k \in Categories
               PROVE  sent[k] <= Cap[k] + Cardinality(Clients) - 1 + unseen[k]
    BY DEF OvershootBounded
  <2>1. /\ Cardinality(Passed(k)) \in Nat /\ Cardinality(Clients) \in Nat
        /\ sent[k] \in Nat /\ unseen[k] \in Nat /\ Cap[k] \in Nat
    BY SetsType, Counting, CapAssumption DEF IInv, Lock, TypeOK
  <2>2. sent[k] + Cardinality(Passed(k)) <= Cap[k] + Cardinality(Clients) - 1 + unseen[k]
    BY DEF IInv, Bounded
  <2>3. QED
    BY <2>1, <2>2
<1>2. Init => IInv
  BY InitLock, InitAccount DEF IInv
<1>3. IInv /\ [Next]_vars => IInv'
  BY StepLock, StepAccount DEF IInv
<1>4. QED
  BY <1>1, <1>2, <1>3, PTL DEF Spec


-----------------------------------------------------------------------------
(* The file implements one shared counter. *)

LEMMA InitQuota == Init => Quota!Init
<1> SUFFICES ASSUME Init PROVE Quota!Init
  OBVIOUS
<1>1. Visible = Today(file)
  BY VisibleFile DEF Init
<1>2. Today(file) = Zero
  BY <1>1 DEF Init, Today, Empty
<1>3. QED
  BY <1>1, <1>2 DEF Init, Quota!Init, Quota!Unused, Zero

\* The steps under the lock: only a truncation can be a use.
LEMMA TruncateQuota ==
  ASSUME Lock, Lock', NEW c \in Clients, Truncate(c)
  PROVE  UNCHANGED <<today, Visible>> \/ \E k \in Categories : Quota!Use(k)
<1>1. /\ stage[c] = "mutated" /\ stage' = [stage EXCEPT ![c] = "truncated"]
      /\ UNCHANGED <<today, pc, want, draft>>
      /\ want[c] \in Categories
  BY DEF Truncate, Lock, TypeOK
<1>2. \A d \in Clients : stage[d] # "truncated"
  BY <1>1 DEF Lock, Mutex
<1>3. Visible = Today(file) /\ Visible' = Today(draft[c])
  BY <1>1, <1>2, VisibleFile, VisibleDraft DEF Lock, TypeOK, Today
<1>4. CASE draft[c].day # today
  <2>1. draft[c].day \in 0..today /\ file.day <= draft[c].day /\ today \in Int /\ file.day \in Int
    BY <1>1, BoundAssumption DEF Lock, Days, TypeOK, States
  <2>2. file.day # today
    BY <1>4, <2>1
  <2>3. QED
    BY <1>1, <1>3, <1>4, <2>2 DEF Today
<1>5. CASE draft[c].day = today
  <2>1. Visible' = IF pc[c] = "record" /\ Visible[want[c]] < Cap[want[c]]
                   THEN [Visible EXCEPT ![want[c]] = @ + 1] ELSE Visible
    BY <1>1, <1>3, <1>5 DEF Lock, Drafts, Today
  <2>2. CASE pc[c] = "record" /\ Visible[want[c]] < Cap[want[c]]
    <3>1. Quota!Use(want[c])
      BY <1>1, <2>1, <2>2 DEF Quota!Use
    <3>2. QED
      BY <1>1, <3>1
  <2>3. CASE ~(pc[c] = "record" /\ Visible[want[c]] < Cap[want[c]])
    BY <1>1, <2>1, <2>3
  <2>4. QED
    BY <2>2, <2>3
<1>6. QED
  BY <1>4, <1>5

LEMMA DieQuota ==
  ASSUME Lock, Lock', NEW c \in Clients, Die(c)
  PROVE  UNCHANGED <<today, Visible>> \/ Quota!Forget
<1>1. /\ FaultOn
      /\ stage' = [stage EXCEPT ![c] = "out"]
      /\ draft' = [draft EXCEPT ![c] = Empty]
      /\ UNCHANGED <<today, file>>
  BY DEF Die
<1>2. CASE stage[c] = "truncated"
  <2>1. \A d \in Clients : stage'[d] # "truncated"
    BY <1>1, <1>2 DEF Lock, TypeOK, Mutex
  <2>2. Visible' = Today(file)' /\ file = Empty
    BY <1>2, <2>1, VisibleFile DEF Lock, Days
  <2>3. today # -1
    BY BoundAssumption DEF Lock, TypeOK
  <2>4. Visible' = Zero
    BY <1>1, <2>2, <2>3 DEF Today, Empty
  <2>5. QED
    BY <1>1, <2>4 DEF Quota!Forget, Quota!Unused, Zero
<1>3. CASE stage[c] # "truncated"
  <2>1. CASE \E d \in Clients : stage[d] = "truncated"
    <3>1. PICK d \in Clients : stage[d] = "truncated"
      BY <2>1
    <3>2. d # c /\ stage'[d] = "truncated" /\ draft'[d] = draft[d]
      BY <1>1, <1>3, <3>1 DEF Lock, TypeOK
    <3>3. Visible = Today(draft[d]) /\ Visible' = Today(draft[d])'
      BY <3>1, <3>2, VisibleDraft DEF Lock
    <3>4. QED
      BY <1>1, <3>2, <3>3 DEF Today
  <2>2. CASE ~\E d \in Clients : stage[d] = "truncated"
    <3>1. \A d \in Clients : stage'[d] # "truncated"
      BY <1>1, <2>2 DEF Lock, TypeOK
    <3>2. QED
      BY <1>1, <2>2, <3>1, VisibleFile DEF Today
  <2>3. QED
    BY <2>1, <2>2
<1>4. QED
  BY <1>2, <1>3

LEMMA MidnightQuota ==
  ASSUME Lock, Lock', Midnight PROVE Quota!NewDay
<1>1. today' = today + 1 /\ UNCHANGED <<file, stage, draft>>
  BY DEF Midnight, clientVars
<1>2. file.day # today'
  BY <1>1, BoundAssumption DEF Lock, TypeOK, States, Days
<1>3. Visible' = Zero
  <2>1. CASE \E d \in Clients : stage'[d] = "truncated"
    <3>1. PICK d \in Clients : stage'[d] = "truncated"
      BY <2>1
    <3>2. Visible' = Today(draft[d])'
      BY <3>1, VisibleDraft DEF Lock
    <3>3. draft[d].day \in 0..today /\ today \in Int
      BY <1>1, <3>1, BoundAssumption DEF Lock, Days, TypeOK
    <3>4. draft[d].day # today'
      BY <1>1, <3>3
    <3>5. QED
      BY <1>1, <3>2, <3>4 DEF Today
  <2>2. CASE ~\E d \in Clients : stage'[d] = "truncated"
    BY <1>1, <1>2, <2>2, VisibleFile DEF Today
  <2>3. QED
    BY <2>1, <2>2
<1>4. QED
  BY <1>1, <1>3 DEF Quota!NewDay, Quota!Unused, Zero

LEMMA QuietQuota ==
  ASSUME Lock, Lock', NEW c \in Clients,
         \/ \E k \in Categories : Call(c, k)
         \/ LockAndMutate(c) \/ WriteAndUnlock(c)
         \/ Act(c) \/ ActFails(c) \/ ActRaisesLate(c)
  PROVE  UNCHANGED <<today, Visible>>
<1>1. CASE \E k \in Categories : Call(c, k)
  BY <1>1 DEF Call, Visible, Today
<1>2. CASE LockAndMutate(c)
  <2>1. \A d \in Clients : stage[d] # "truncated" /\ stage'[d] # "truncated"
    BY <1>2 DEF LockAndMutate, LockFree, Lock, TypeOK
  <2>2. QED
    BY <1>2, <2>1, VisibleFile DEF LockAndMutate, Today
<1>3. CASE WriteAndUnlock(c)
  <2>1. \A d \in Clients : stage'[d] # "truncated"
    BY <1>3 DEF Lock, Mutex, TypeOK, WriteAndUnlock
  <2>2. Visible' = Today(file)' /\ Visible = Today(draft[c])
    BY <1>3, <2>1, VisibleFile, VisibleDraft DEF Lock, WriteAndUnlock
  <2>3. QED
    BY <1>3, <2>2 DEF WriteAndUnlock, Today
<1>4. CASE Act(c) \/ ActFails(c) \/ ActRaisesLate(c)
  <2>1. UNCHANGED <<today, file, stage, draft>>
    BY <1>4 DEF Act, ActFails, ActRaisesLate
  <2>2. QED
    BY <2>1 DEF Visible, Today
<1>5. QED
  BY <1>1, <1>2, <1>3, <1>4

\* Every step of the clients, of their deaths and of the clock is one of the shared
\* counter's, or a stutter.
THEOREM FileIsASharedCounter == Spec => ImplementsQuota
<1>1. ASSUME Lock, Lock', [Next]_vars PROVE [Quota!Next]_<<today, Visible>>
  <2>1. ASSUME NEW c \in Clients, ClientNext(c) PROVE [Quota!Next]_<<today, Visible>>
    <3>1. CASE Truncate(c)
      BY <1>1, <3>1, TruncateQuota DEF Quota!Next
    <3>2. CASE Die(c)
      BY <1>1, <3>2, DieQuota DEF Quota!Next
    <3>3. CASE ~(Truncate(c) \/ Die(c))
      BY <1>1, <2>1, <3>3, QuietQuota DEF ClientNext
    <3>4. QED
      BY <3>1, <3>2, <3>3
  <2>2. CASE Midnight
    BY <1>1, <2>2, MidnightQuota DEF Quota!Next
  <2>3. CASE UNCHANGED vars
    BY <2>3 DEF vars, clientVars, Visible, Today
  <2>4. ASSUME NEW k \in Categories, WorkerActs(k) PROVE UNCHANGED <<today, Visible>>
    BY <2>4 DEF WorkerActs, clientVars, Visible, Today
  <2>5. QED
    BY <1>1, <2>1, <2>2, <2>3, <2>4 DEF Next
<1>2. QED
  BY <1>1, InitLock, StepLock, InitQuota, PTL DEF Spec, ImplementsQuota, Quota!Spec

=============================================================================
