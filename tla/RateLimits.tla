------------------------------ MODULE RateLimits ------------------------------
(***************************************************************************)
(* The daily caps of tools/rate_limits.py and the processes that live      *)
(* under them.  A client is an MCP tool call or a sweep's probe: it asks   *)
(* (record=False), acts on LinkedIn if it is allowed to, and records the   *)
(* action afterwards (record=True).  Both calls of rate_limit read, edit,  *)
(* truncate and rewrite rate_limits.json under an exclusive flock, but the *)
(* lock is not held while the client acts: any number of clients may have  *)
(* been allowed by the same count.                                         *)
(*                                                                         *)
(* The queue worker is no client: its job handlers drive the browser and   *)
(* neither ask nor record, so the caps bind nothing it does.               *)
(*                                                                         *)
(* A process may die anywhere, or the browser may raise after the message  *)
(* went out: the action is then never recorded.  A death between truncate  *)
(* and write leaves an empty file, which the next call reads as a new day. *)
(***************************************************************************)
EXTENDS Integers, FiniteSets

CONSTANTS Clients,     \* concurrent callers (MCP tool calls, sweep probes)
          Categories,  \* connection_requests, dms, profile_views
          Cap,         \* the resolved daily cap of each category
          FaultOn,     \* may a process die, or the browser raise late?
          MaxDay,      \* bound: midnights that pass
          MaxSent      \* bound: actions of one category in a day

ASSUME ClientsAssumption == IsFiniteSet(Clients) /\ Clients # {}
ASSUME CapAssumption == Cap \in [Categories -> Nat]
ASSUME FaultAssumption == FaultOn \in BOOLEAN
ASSUME BoundAssumption == MaxDay \in Nat /\ MaxSent \in Nat

VARIABLES
  today,     \* the local date
  file,      \* rate_limits.json: the day it is for and the events counted in it
  pc,        \* what each client does: it asks, acts, records
  want,      \* ... in which category
  stage,     \* its progress inside the locked section
  draft,     \* the state it will write
  allowed,   \* rate_limit returned None
  actedOn,   \* the day of its latest action
  sent,      \* history: actions LinkedIn saw today, the queue worker's included
  unseen     \* history: those of them the file can no longer come to know of

clientVars == <<pc, want, stage, draft, allowed, actedOn>>
vars == <<today, file, clientVars, sent, unseen>>

Zero  == [k \in Categories |-> 0]
Empty == [day |-> -1, count |-> Zero]

States == [day : -1..MaxDay, count : [Categories -> Nat]]
WithinCap(s) == \A k \in Categories : s.count[k] <= Cap[k]

TypeOK ==
  /\ today \in 0..MaxDay
  /\ file \in States /\ WithinCap(file)
  /\ pc \in [Clients -> {"idle", "check", "act", "record"}]
  /\ want \in [Clients -> Categories]
  /\ stage \in [Clients -> {"out", "mutated", "truncated"}]
  /\ draft \in [Clients -> States] /\ \A c \in Clients : WithinCap(draft[c])
  /\ allowed \in [Clients -> BOOLEAN]
  /\ actedOn \in [Clients -> -1..MaxDay]
  /\ sent \in [Categories -> Nat]
  /\ unseen \in [Categories -> Nat]

Init ==
  /\ today = 0
  /\ file = Empty
  /\ pc = [c \in Clients |-> "idle"]
  /\ want \in [Clients -> Categories]
  /\ stage = [c \in Clients |-> "out"]
  /\ draft = [c \in Clients |-> Empty]
  /\ allowed = [c \in Clients |-> FALSE]
  /\ actedOn = [c \in Clients |-> -1]
  /\ sent = Zero
  /\ unseen = Zero

-----------------------------------------------------------------------------
(* The operators of rate_limit. *)

\* Variant: the day is brought up to date and the queues are kept.
RolloverKeepsQueues(s) == [s EXCEPT !.day = today]

\* Local midnight clears the queues of a state of another day.
Rollover(s) == IF s.day = today THEN s ELSE [day |-> today, count |-> Zero]

\* Variant: one event too many.
AtCapOffByOne(s, k) == s.count[k] > Cap[k]

AtCap(s, k) == s.count[k] >= Cap[k]

WithEvent(s, k) == [s EXCEPT !.count[k] = @ + 1]

\* The mutator: a check leaves the counts alone, a record adds one below the cap.
Mutate(s, k, record) == IF record /\ ~AtCap(s, k) THEN WithEvent(s, k) ELSE s

\* Variant: the read-modify-write without its flock.
NoLock == TRUE

LockFree == \A c \in Clients : stage[c] = "out"

-----------------------------------------------------------------------------
(* A tool call: check, act, record. *)

Call(c, k) ==
  /\ pc[c] = "idle"
  /\ pc' = [pc EXCEPT ![c] = "check"]
  /\ want' = [want EXCEPT ![c] = k]
  /\ UNCHANGED <<today, file, stage, draft, allowed, actedOn, sent, unseen>>

\* Take the lock, read, roll over, run the mutator.
LockAndMutate(c) ==
  LET s == Rollover(file) IN
  /\ pc[c] \in {"check", "record"}
  /\ stage[c] = "out"
  /\ LockFree
  /\ stage' = [stage EXCEPT ![c] = "mutated"]
  /\ draft' = [draft EXCEPT ![c] = Mutate(s, want[c], pc[c] = "record")]
  /\ allowed' = [allowed EXCEPT ![c] = ~AtCap(s, want[c])]
  /\ UNCHANGED <<today, file, pc, want, actedOn, sent, unseen>>

Truncate(c) ==
  /\ stage[c] = "mutated"
  /\ stage' = [stage EXCEPT ![c] = "truncated"]
  /\ file' = Empty
  /\ UNCHANGED <<today, pc, want, draft, allowed, actedOn, sent, unseen>>

\* Write, fsync, unlock: a check that was allowed goes on to LinkedIn; a record
\* that was refused is ignored by every caller.
WriteAndUnlock(c) ==
  /\ stage[c] = "truncated"
  /\ file' = draft[c]
  /\ stage' = [stage EXCEPT ![c] = "out"]
  /\ draft' = [draft EXCEPT ![c] = Empty]
  /\ allowed' = [allowed EXCEPT ![c] = FALSE]
  /\ pc' = [pc EXCEPT ![c] = IF pc[c] = "check" /\ allowed[c] THEN "act" ELSE "idle"]
  /\ UNCHANGED <<today, want, actedOn, sent, unseen>>

\* The browser did what it was asked to do.
Act(c) ==
  /\ pc[c] = "act"
  /\ sent[want[c]] < MaxSent
  /\ sent' = [sent EXCEPT ![want[c]] = @ + 1]
  /\ actedOn' = [actedOn EXCEPT ![c] = today]
  /\ pc' = [pc EXCEPT ![c] = "record"]
  /\ UNCHANGED <<today, file, want, stage, draft, allowed, unseen>>

\* It did nothing: no button, not logged in, an exception on the way.
ActFails(c) ==
  /\ pc[c] = "act"
  /\ pc' = [pc EXCEPT ![c] = "idle"]
  /\ UNCHANGED <<today, file, want, stage, draft, allowed, actedOn, sent, unseen>>

\* It did it and raised afterwards: the record call is skipped.
ActRaisesLate(c) ==
  /\ FaultOn
  /\ pc[c] = "act"
  /\ sent[want[c]] < MaxSent
  /\ sent' = [sent EXCEPT ![want[c]] = @ + 1]
  /\ unseen' = [unseen EXCEPT ![want[c]] = @ + 1]
  /\ pc' = [pc EXCEPT ![c] = "idle"]
  /\ UNCHANGED <<today, file, want, stage, draft, allowed, actedOn>>

-----------------------------------------------------------------------------
(* The environment: the process dies (the kernel drops its flock), midnight. *)

Die(c) ==
  /\ FaultOn
  /\ pc[c] # "idle"
  /\ unseen' = IF stage[c] = "truncated" THEN sent
               ELSE IF pc[c] = "record" /\ actedOn[c] = today
                    THEN [unseen EXCEPT ![want[c]] = @ + 1]
                    ELSE unseen
  /\ pc' = [pc EXCEPT ![c] = "idle"]
  /\ stage' = [stage EXCEPT ![c] = "out"]
  /\ draft' = [draft EXCEPT ![c] = Empty]
  /\ allowed' = [allowed EXCEPT ![c] = FALSE]
  /\ UNCHANGED <<today, file, want, actedOn, sent>>

\* A job of the queue worker sends a request or a message, or opens a profile.
WorkerActs(k) ==
  /\ sent[k] < MaxSent
  /\ sent' = [sent EXCEPT ![k] = @ + 1]
  /\ unseen' = [unseen EXCEPT ![k] = @ + 1]
  /\ UNCHANGED <<today, file, clientVars>>

Midnight ==
  /\ today < MaxDay
  /\ today' = today + 1
  /\ sent' = Zero
  /\ unseen' = Zero
  /\ UNCHANGED <<file, clientVars>>

ClientNext(c) ==
  \/ \E k \in Categories : Call(c, k)
  \/ LockAndMutate(c)
  \/ Truncate(c)
  \/ WriteAndUnlock(c)
  \/ Act(c)
  \/ ActFails(c)
  \/ ActRaisesLate(c)
  \/ Die(c)

Next ==
  \/ \E c \in Clients : ClientNext(c)
  \/ \E k \in Categories : WorkerActs(k)
  \/ Midnight

Spec == Init /\ [][Next]_vars

-----------------------------------------------------------------------------
(* Properties. *)

\* However many callers check before any of them records, whichever of them die
\* on the way, and across midnights: what LinkedIn sees in a day, apart from what
\* the file could not come to know of, is at most the cap and one more action for
\* each further concurrent caller.  What it cannot know of are the actions of a
\* caller that raised or died before its record, those a torn write forgot, and
\* every action of the queue worker: those the cap does not bound at all.
OvershootBounded ==
  \A k \in Categories : sent[k] <= Cap[k] + Cardinality(Clients) - 1 + unseen[k]

\* The counts a caller that gets the lock will find for today.  While the file is
\* being rewritten they are the writer's.
Today(s) == IF s.day = today THEN s.count ELSE Zero

Visible ==
  IF \E c \in Clients : stage[c] = "truncated"
  THEN Today(draft[CHOOSE c \in Clients : stage[c] = "truncated"])
  ELSE Today(file)

Quota == INSTANCE DailyQuota WITH day <- today, used <- Visible, MayForget <- FaultOn

\* The file behaves as one shared daily counter: no record of another process is
\* lost or counted twice, a check changes nothing, a category never touches
\* another, and only midnight or a death inside the write clears the counts.
ImplementsQuota == Quota!Spec
=============================================================================
