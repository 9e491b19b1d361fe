---------------------------- MODULE Routines_proofs ----------------------------
(***************************************************************************)
(* Proofs about Routines for any number of routines, any interval and any  *)
(* number of edits and kills: as long as no two writers of the one file    *)
(* overlap, rows and stamps are what they should be, a save that is cut    *)
(* short ruins nothing, and the scheduler starts a routine not too often.  *)
(***************************************************************************)
EXTENDS Routines, TLAPS

IoType == [pc : {"idle", "load", "open", "write", "rename"}, data : Configs,
           to : {"tmp", "file", "lost"},
           then : {"none", "tick", "form", "click", "stamp", "stamped", "reload"},
           who : Routines \cup {None}]

\* The process has read the file and is about to save it.
Saving(p) == io[p].pc \in {"open", "write", "rename"}

Shape ==
  /\ io["dash"].then # "tick"
  /\ \A p \in Procs : /\ io[p].pc = "idle" => io[p] = Idle
                      /\ io[p].pc = "load" => io[p].then # "stamped"
                      /\ Saving(p) => ~io[p].data.legacy
  /\ \A p \in Procs, r \in Routines : Stamping(p, r) => ended[r] = now

\* The temporary file is that of the only process that is writing it.
TmpIsOwn ==
  \A p \in Procs :
    /\ io[p].pc \in {"open", "write"} => io[p].to = "tmp"
    /\ io[p].pc = "write"  => tmp = [there |-> TRUE, data |-> Garbage]
    /\ io[p].pc = "rename" => tmp = [there |-> TRUE, data |-> io[p].data]

\* Only the dashboard is ever about to change what the rows say.
Agrees(c) == Asked(Normal(c)) = wish.rows

RowsAgree ==
  IF Saving("dash") THEN Agrees(io["dash"].data)
  ELSE Agrees(file) /\ (Saving("cron") => Agrees(io["cron"].data))

\* A stamp is true, or the process that will make it so has not come to it.
Fresh(c, r) == Normal(c).rows[r].there => Normal(c).rows[r].last = ended[r]
Owes(p, r)  == io[p].then = "stamp" /\ io[p].who = r

StampsFresh ==
  \A r \in Routines \ hit :
    /\ Fresh(file, r) \/ Stamping("cron", r) \/ Stamping("dash", r)
    /\ Saving("dash") => Fresh(io["dash"].data, r) \/ Owes("dash", r) \/ Stamping("cron", r)
    /\ Saving("cron") /\ ~Saving("dash") =>
         Fresh(io["cron"].data, r) \/ Owes("cron", r) \/ Stamping("dash", r)

Rested(r) == ended[r] = 0 \/ now - ended[r] >= Interval

DueRested == \A r \in due \ hit : Rested(r)

RInv == /\ TypeOK /\ Shape
        /\ ~raced => TmpIsOwn /\ RowsAgree /\ StampsFresh /\ DueRested

\* What is about to be saved parses, and unless writers overlapped the file is UTF-8.
Whole == /\ \A p \in Procs : Saving(p) => io[p].data.utf8 /\ io[p].data.ok
         /\ ~raced => file.utf8

-----------------------------------------------------------------------------
(* The operators. *)

LEMMA GarbageType == Garbage \in Configs /\ ~Garbage.legacy /\ Garbage.rows = NoRows
                     /\ NoRows \in Rows /\ \A r \in Routines : ~NoRows[r].there
<1>1. NoRows \in Rows /\ \A r \in Routines : ~NoRows[r].there
  BY RoutinesAssumption DEF NoRows, NoRow, Rows
<1>2. QED
  BY <1>1 DEF Garbage, Configs, Modes, Sweeps

LEMMA IdleType == Idle \in IoType /\ Idle.pc = "idle" /\ Idle.then = "none" /\ Idle.who = None
BY GarbageType DEF Idle, IoType

LEMMA NormalType ==
  ASSUME NEW c \in Configs
  PROVE  /\ Normal(c) \in Configs /\ ~Normal(c).legacy
         /\ Normal(c).rows = IF c.legacy THEN NoRows ELSE c.rows
         /\ Normal(Normal(c)).rows = Normal(c).rows
BY GarbageType DEF Normal, Configs, Modes, Sweeps

LEMMA StampedType ==
  ASSUME NEW c \in Configs, NEW r \in Routines, now \in 1..MaxNow
  PROVE  /\ Stamped(c, r) \in Configs /\ Stamped(c, r).legacy = c.legacy
         /\ \A q \in Routines : q # r => Stamped(c, r).rows[q] = c.rows[q]
         /\ Stamped(c, r).rows[r].there = c.rows[r].there
         /\ Stamped(c, r).rows[r].active = c.rows[r].active
         /\ c.rows[r].there => Stamped(c, r).rows[r].last = now
<1>1. CASE c.rows[r].there
  <2> DEFINE row == [c.rows[r] EXCEPT !.last = now]
             rows == [c.rows EXCEPT ![r] = row]
  <2>1. c.rows \in Rows
    BY DEF Configs
  <2>2. row \in [there : BOOLEAN, active : BOOLEAN, last : 0..MaxNow]
    BY <2>1, RoutinesAssumption DEF Rows
  <2>3. row.there = c.rows[r].there /\ row.active = c.rows[r].active /\ row.last = now
    BY <2>1 DEF Rows
  <2>4. /\ rows \in Rows /\ rows[r] = row
        /\ \A q \in Routines : q # r => rows[q] = c.rows[q]
    BY <2>1, <2>2 DEF Rows
  <2>5. Stamped(c, r) = [c EXCEPT !.rows = rows]
    BY <1>1 DEF Stamped
  <2> HIDE DEF rows
  <2>6. Stamped(c, r) \in Configs /\ Stamped(c, r).legacy = c.legacy /\ Stamped(c, r).rows = rows
    BY <2>4, <2>5 DEF Configs
  <2>7. QED
    BY <2>3, <2>4, <2>6
<1>2. CASE ~c.rows[r].there
  BY <1>2 DEF Stamped
<1>3. QED
  BY <1>1, <1>2

LEMMA SavesType ==
  ASSUME NEW k \in IoType, NEW c \in Configs,
         NEW then \in {"none", "tick", "form", "click", "stamp", "stamped", "reload"}
  PROVE  /\ Saves(k, c, then) \in IoType /\ Saves(k, c, then).pc = "open"
         /\ Saves(k, c, then).data = c /\ Saves(k, c, then).to = "tmp"
         /\ Saves(k, c, then).then = then /\ Saves(k, c, then).who = k.who
BY DEF Saves, IoType

\* A handle may move from the temporary file to the file, or to none.
LEMMA MovedType ==
  ASSUME TypeOK, NEW p \in Procs
  PROVE  /\ Moved(p, io) \in [Procs -> IoType]
         /\ Moved(p, io)[p] = io[p]
         /\ \A q \in Procs : q # p /\ io[q].pc # "write" => Moved(p, io)[q] = io[q]
<1>1. io \in [Procs -> IoType] /\ Other(p) \in Procs /\ Other(p) # p
  BY DEF TypeOK, IoType, Procs, Other
<1>2. PICK to : to = (IF io[Other(p)].pc # "write" THEN io[Other(p)].to
                      ELSE IF io[Other(p)].to = "tmp" THEN "file" ELSE "lost")
  OBVIOUS
<1>3. to \in {"tmp", "file", "lost"}
  BY <1>1, <1>2 DEF IoType
<1>4. Moved(p, io) = [io EXCEPT ![Other(p)] = [io[Other(p)] EXCEPT !.to = to]]
  BY <1>1, <1>2 DEF Moved
<1>5. [io[Other(p)] EXCEPT !.to = to] \in IoType
  BY <1>1, <1>3 DEF IoType
<1>6. io[Other(p)].pc # "write" => [io[Other(p)] EXCEPT !.to = to] = io[Other(p)]
  BY <1>1, <1>2 DEF IoType
<1>7. \A q \in Procs : q # p => q = Other(p)
  BY DEF Procs, Other
<1>8. QED
  BY <1>1, <1>4, <1>5, <1>6, <1>7

-----------------------------------------------------------------------------
(* What the process does with the config it has loaded. *)

LEMMA AfterEffect ==
  ASSUME RInv, NEW p \in Procs, NEW c \in Configs, NEW f \in [Procs -> IoType],
         io[p].pc # "idle", After(p, c, f)
  PROVE  /\ \E x \in IoType :
              /\ io' = [f EXCEPT ![p] = x]
              /\ \/ x = Idle /\ io[p].then \in {"none", "stamped", "tick", "form", "click"}
                 \/ /\ io[p].then = "stamp" /\ io[p].who \in Routines
                    /\ x = Saves(io[p], Stamped(c, io[p].who), "stamped")
                 \/ x = [Idle EXCEPT !.pc = "load"] /\ io[p].then = "reload"
         /\ \/ due' = due /\ hit' = hit
            \/ /\ io[p].then = "tick"
               /\ \E S \in SUBSET DueIn(c) :
                    due' = due \cup S /\ hit' = hit \cup {r \in S : Stamping("dash", r)}
         /\ due' \in SUBSET Routines /\ hit' \in SUBSET Routines
         /\ live' \in [Routines -> [cron : Nat, dash : 0..1]]
         /\ \A r \in Routines : live'[r].cron = live[r].cron
         /\ form' \in [open : BOOLEAN, rows : Rows]
<1> DEFINE k == io[p]
<1>1. /\ k \in IoType /\ now \in 1..MaxNow /\ live \in [Routines -> [cron : Nat, dash : 0..1]]
      /\ due \in SUBSET Routines /\ hit \in SUBSET Routines /\ form \in [open : BOOLEAN, rows : Rows]
      /\ k.then \in {"click", "stamp"} => k.who \in Routines
  BY DEF RInv, TypeOK, IoType
<1>2. c.rows \in Rows
  BY DEF Configs
<1>3. CASE k.then \in {"none", "stamped"} /\ io' = [f EXCEPT ![p] = Idle]
           /\ UNCHANGED <<due, live, form, hit>>
  BY <1>1, <1>3, IdleType
<1>4. CASE /\ k.then = "tick" /\ io' = [f EXCEPT ![p] = Idle]
           /\ \E S \in SUBSET DueIn(c) :
                due' = due \cup S /\ hit' = hit \cup {r \in S : Stamping("dash", r)}
           /\ UNCHANGED <<live, form>>
  <2>1. DueIn(c) \subseteq Routines
    BY DEF DueIn
  <2>2. QED
    BY <1>1, <1>4, <2>1, IdleType
<1>5. CASE /\ k.then = "form" /\ io' = [f EXCEPT ![p] = Idle]
           /\ form' = [open |-> TRUE, rows |-> c.rows] /\ UNCHANGED <<due, live, hit>>
  BY <1>1, <1>2, <1>5, IdleType
<1>6. CASE /\ k.then = "click" /\ io' = [f EXCEPT ![p] = Idle]
           /\ live' = IF c.rows[k.who].there THEN [live EXCEPT ![k.who].dash = 1] ELSE live
           /\ UNCHANGED <<due, form, hit>>
  <2>1. k.who \in Routines
    BY <1>1, <1>6
  <2>2. [live[k.who] EXCEPT !.dash = 1] \in [cron : Nat, dash : 0..1]
        /\ [live[k.who] EXCEPT !.dash = 1].cron = live[k.who].cron
    BY <1>1, <2>1
  <2>3. [live EXCEPT ![k.who].dash = 1] = [live EXCEPT ![k.who] = [live[k.who] EXCEPT !.dash = 1]]
    BY <1>1, <2>1
  <2>4. live' \in [Routines -> [cron : Nat, dash : 0..1]]
        /\ \A r \in Routines : live'[r].cron = live[r].cron
    BY <1>1, <1>6, <2>1, <2>2, <2>3
  <2>5. QED
    BY <1>1, <1>6, <2>4, IdleType
<1>7. CASE /\ k.then = "stamp" /\ io' = [f EXCEPT ![p] = Saves(k, Stamped(c, k.who), "stamped")]
           /\ UNCHANGED <<due, live, form, hit>>
  <2>1. k.who \in Routines
    BY <1>1, <1>7
  <2>2. Stamped(c, k.who) \in Configs
    BY <1>1, <2>1, StampedType
  <2>3. Saves(k, Stamped(c, k.who), "stamped") \in IoType
    BY <1>1, <2>2, SavesType
  <2>4. QED
    BY <1>1, <1>7, <2>1, <2>3
<1>8. CASE /\ k.then = "reload" /\ io' = [f EXCEPT ![p] = [Idle EXCEPT !.pc = "load"]]
           /\ UNCHANGED <<due, live, form, hit>>
  <2>1. [Idle EXCEPT !.pc = "load"] \in IoType
    BY IdleType DEF IoType
  <2>2. QED
    BY <1>1, <1>8, <2>1
<1>9. QED
  BY <1>3, <1>4, <1>5, <1>6, <1>7, <1>8 DEF After

-----------------------------------------------------------------------------
(* Types, the shape of a call, and one run at a time. *)

\* f is io but for handles.
Alike(f) == \A q \in Procs : /\ f[q].pc = io[q].pc /\ f[q].data = io[q].data
                             /\ f[q].then = io[q].then /\ f[q].who = io[q].who
                             /\ io[q].pc # "write" => f[q] = io[q]

LEMMA MovedAlike ==
  ASSUME TypeOK, NEW p \in Procs
  PROVE  Moved(p, io) \in [Procs -> IoType] /\ Alike(Moved(p, io)) /\ Moved(p, io)[p] = io[p]
<1>1. io \in [Procs -> IoType] /\ Other(p) \in Procs /\ Other(p) # p
  BY DEF TypeOK, IoType, Procs, Other
<1>2. PICK to : to = (IF io[Other(p)].pc # "write" THEN io[Other(p)].to
                      ELSE IF io[Other(p)].to = "tmp" THEN "file" ELSE "lost")
  OBVIOUS
<1> DEFINE y == [io[Other(p)] EXCEPT !.to = to]
<1>3. Moved(p, io) = [io EXCEPT ![Other(p)] = y]
  BY <1>1, <1>2 DEF Moved
<1>4. /\ y.pc = io[Other(p)].pc /\ y.data = io[Other(p)].data
      /\ y.then = io[Other(p)].then /\ y.who = io[Other(p)].who
  BY <1>1 DEF IoType
<1> HIDE DEF y
<1>5. Moved(p, io)[p] = io[p] /\ Moved(p, io)[Other(p)] = y
  BY <1>1, <1>3
<1>6. \A q \in Procs : q = p \/ q = Other(p)
  BY DEF Procs, Other
<1>7. QED
  BY <1>4, <1>5, <1>6, MovedType DEF Alike

LEMMA Unmoved == ASSUME TypeOK PROVE io \in [Procs -> IoType] /\ Alike(io)
BY DEF TypeOK, IoType, Alike

LEMMA CallShape ==
  ASSUME RInv, NEW p \in Procs, NEW x \in IoType, NEW f \in [Procs -> IoType], Alike(f),
         io' = [f EXCEPT ![p] = x], ended' = ended, now' = now,
         p = "dash" => x.then # "tick",
         x.pc = "idle" => x = Idle, x.pc = "load" => x.then # "stamped",
         x.pc \in {"open", "write", "rename"} => ~x.data.legacy,
         x.then \in {"click", "stamp", "stamped"} => x.who \in Routines,
         \A r \in Routines : x.then \in {"stamp", "stamped"} /\ x.who = r => ended[r] = now
  PROVE  /\ Shape' /\ io' \in [Procs -> IoType]
         /\ \A q \in Procs : io'[q].then \in {"click", "stamp", "stamped"} => io'[q].who \in Routines
         /\ io'[p] = x /\ \A q \in Procs : q # p => io'[q] = f[q]
<1>1. io' \in [Procs -> IoType] /\ io'[p] = x /\ \A q \in Procs : q # p => io'[q] = f[q]
  OBVIOUS
<1>2. ASSUME NEW q \in Procs, q # p
      PROVE  /\ io'[q].pc = io[q].pc /\ io'[q].data = io[q].data
             /\ io'[q].then = io[q].then /\ io'[q].who = io[q].who
             /\ io'[q].pc = "idle" => io'[q] = io[q]
  BY <1>1, <1>2 DEF Alike
<1>3. /\ io["dash"].then # "tick" /\ "dash" \in Procs
      /\ \A q \in Procs : /\ io[q].pc = "idle" => io[q] = Idle
                          /\ io[q].pc = "load" => io[q].then # "stamped"
                          /\ Saving(q) => ~io[q].data.legacy
      /\ \A q \in Procs, r \in Routines : Stamping(q, r) => ended[r] = now
  BY DEF RInv, Shape, Procs
<1>4. io'["dash"].then # "tick"
  BY <1>1, <1>2, <1>3
<1>5. ASSUME NEW q \in Procs
      PROVE  /\ io'[q].pc = "idle" => io'[q] = Idle
             /\ io'[q].pc = "load" => io'[q].then # "stamped"
             /\ Saving(q)' => ~io'[q].data.legacy
  BY <1>1, <1>2, <1>3 DEF Saving
<1>6. ASSUME NEW q \in Procs, NEW r \in Routines, Stamping(q, r)' PROVE ended'[r] = now'
  <2>1. CASE q = p
    BY <1>1, <1>6, <2>1 DEF Stamping
  <2>2. CASE q # p
    BY <1>2, <1>3, <1>6, <2>2 DEF Stamping
  <2>3. QED
    BY <2>1, <2>2
<1>7. Shape'
  BY <1>4, <1>5, <1>6 DEF Shape
<1>8. ASSUME NEW q \in Procs, io'[q].then \in {"click", "stamp", "stamped"}
      PROVE  io'[q].who \in Routines
  BY <1>1, <1>2, <1>8 DEF RInv, TypeOK
<1>9. QED
  BY <1>1, <1>7, <1>8

LEMMA AfterShape ==
  ASSUME RInv, NEW p \in Procs, NEW c \in Configs, NEW f \in [Procs -> IoType], Alike(f),
         io[p].pc # "idle", After(p, c, f), ~c.legacy, ended' = ended, now' = now
  PROVE  /\ Shape' /\ io' \in [Procs -> IoType]
         /\ \A q \in Procs : io'[q].then \in {"click", "stamp", "stamped"} => io'[q].who \in Routines
         /\ \A q \in Procs : q # p => io'[q] = f[q]
<1>1. PICK x \in IoType :
        /\ io' = [f EXCEPT ![p] = x]
        /\ \/ x = Idle /\ io[p].then \in {"none", "stamped", "tick", "form", "click"}
           \/ /\ io[p].then = "stamp" /\ io[p].who \in Routines
              /\ x = Saves(io[p], Stamped(c, io[p].who), "stamped")
           \/ x = [Idle EXCEPT !.pc = "load"] /\ io[p].then = "reload"
  BY AfterEffect
<1>2. io[p] \in IoType /\ now \in 1..MaxNow
  BY DEF RInv, TypeOK, IoType
<1>3. CASE x = Idle
  BY <1>1, <1>3, IdleType, CallShape, RoutinesAssumption
<1>4. CASE x = [Idle EXCEPT !.pc = "load"]
  <2>1. x.pc = "load" /\ x.then = "none"
    BY <1>4, IdleType DEF IoType
  <2>2. QED
    BY <1>1, <2>1, CallShape
<1>5. CASE /\ io[p].then = "stamp" /\ io[p].who \in Routines
           /\ x = Saves(io[p], Stamped(c, io[p].who), "stamped")
  <2>1. Stamped(c, io[p].who) \in Configs /\ ~Stamped(c, io[p].who).legacy
    BY <1>2, <1>5, StampedType
  <2>2. x.pc = "open" /\ ~x.data.legacy /\ x.then = "stamped" /\ x.who = io[p].who
    <3>1. PICK d \in Configs : d = Stamped(c, io[p].who) /\ ~d.legacy
      BY <2>1
    <3>2. x = Saves(io[p], d, "stamped")
      BY <1>5, <3>1
    <3>3. x.pc = "open" /\ x.data = d /\ x.then = "stamped" /\ x.who = io[p].who
      BY <1>2, <3>2 DEF Saves, IoType
    <3>4. QED
      BY <3>1, <3>3
  <2>3. ended[io[p].who] = now
    BY <1>5 DEF RInv, Shape, Stamping
  <2>4. QED
    BY <1>1, <1>5, <2>2, <2>3, CallShape
<1>6. QED
  BY <1>1, <1>3, <1>4, <1>5

\* A process that is down does nothing with its calls.
LEMMA CallType ==
  ASSUME RInv, NEW p \in Procs, io[p].pc # "idle",
         Shape', io' \in [Procs -> IoType],
         \A q \in Procs : io'[q].then \in {"click", "stamp", "stamped"} => io'[q].who \in Routines,
         \A q \in Procs : q # p /\ io[q] = Idle => io'[q] = Idle,
         file' \in Configs, tmp' \in [there : BOOLEAN, data : Configs],
         UNCHANGED <<up, now, edits, kills, wish, ended>>,
         due' = due \/ io[p].then = "tick",
         due' \in SUBSET Routines, hit' \in SUBSET Routines, raced' \in BOOLEAN,
         live' \in [Routines -> [cron : Nat, dash : 0..1]],
         \A r \in Routines : live'[r].cron = live[r].cron,
         form' \in [open : BOOLEAN, rows : Rows]
  PROVE  TypeOK' /\ Shape'
<1>2. TypeOK
  BY DEF RInv
<1>3. ASSUME ~up PROVE io'["cron"] = Idle /\ due' = {} /\ \A r \in Routines : live'[r].cron = 0
  <2>1. io["cron"] = Idle /\ due = {} /\ \A r \in Routines : live[r].cron = 0
    BY <1>2, <1>3 DEF TypeOK
  <2>2. p = "dash" /\ "cron" \in Procs /\ "cron" # "dash"
    BY <2>1, IdleType DEF Procs
  <2>3. io[p].then # "tick"
    BY <2>2 DEF RInv, Shape
  <2>4. io'["cron"] = Idle
    BY <2>1, <2>2
  <2>5. due' = due
    BY <2>3
  <2>6. QED
    BY <2>1, <2>4, <2>5
<1>4. TypeOK'
  BY <1>2, <1>3 DEF TypeOK, IoType
<1>5. QED
  BY <1>4

LEMMA ReadCall ==
  ASSUME RInv, NEW p \in Procs, Read(p), file.utf8, NeedsSave(file)
  PROVE  /\ io' = [io EXCEPT ![p] = Saves(io[p], Normal(file), io[p].then)]
         /\ Saves(io[p], Normal(file), io[p].then) \in IoType
         /\ io'[p].pc = "open" /\ io'[p].data = Normal(file) /\ io'[p].to = "tmp"
         /\ io'[p].then = io[p].then /\ io'[p].who = io[p].who
         /\ \A q \in Procs : q # p => io'[q] = io[q]
         /\ UNCHANGED <<file, tmp, due, live, form, hit, up, now, edits, kills, wish, ended, raced>>
<1>1. io' = [io EXCEPT ![p] = Saves(io[p], Normal(file), io[p].then)]
      /\ UNCHANGED <<file, tmp, due, live, form, hit, up, now, edits, kills, wish, ended, raced>>
  BY DEF Read, RInv, TypeOK
<1>2. io \in [Procs -> IoType] /\ file \in Configs /\ Normal(file) \in Configs
  BY NormalType DEF RInv, TypeOK, IoType
<1>3. io[p].then \in {"none", "tick", "form", "click", "stamp", "stamped", "reload"}
  BY <1>2 DEF IoType
<1> DEFINE x == Saves(io[p], Normal(file), io[p].then)
<1>4. /\ x \in IoType /\ x.pc = "open" /\ x.data = Normal(file) /\ x.to = "tmp"
      /\ x.then = io[p].then /\ x.who = io[p].who
  <2>1. PICK k \in IoType, d \in Configs : k = io[p] /\ d = Normal(file)
    BY <1>2
  <2>2. x = Saves(k, d, k.then) /\ k.then = io[p].then /\ k.who = io[p].who
    BY <2>1
  <2>3. QED
    BY <2>1, <2>2 DEF Saves, IoType
<1> HIDE DEF x
<1>5. io'[p] = x /\ \A q \in Procs : q # p => io'[q] = io[q]
  BY <1>1, <1>2 DEF x
<1>6. QED
  BY <1>1, <1>4, <1>5 DEF x

LEMMA ReadType ==
  ASSUME RInv, NEW p \in Procs, Read(p) PROVE TypeOK' /\ Shape'
<1>1. TypeOK /\ io[p].pc = "load" /\ io[p].pc # "idle" /\ file \in Configs
  BY DEF Read, RInv, TypeOK
<1>2. UNCHANGED <<file, tmp, up, now, edits, kills, wish, ended, raced>>
  BY DEF Read
<1>3. io \in [Procs -> IoType] /\ Alike(io)
  BY <1>1, Unmoved
<1>4. CASE file.utf8 /\ NeedsSave(file)
  <2>1. PICK x \in IoType :
          /\ x = Saves(io[p], Normal(file), io[p].then) /\ io' = [io EXCEPT ![p] = x]
          /\ io'[p] = x
    BY <1>3, <1>4, ReadCall
  <2>2. /\ x.pc = "open" /\ x.then = io[p].then /\ x.who = io[p].who /\ ~x.data.legacy
        /\ UNCHANGED <<due, live, form, hit>>
    BY <1>1, <1>4, <2>1, ReadCall, NormalType
  <2>3. p = "dash" => x.then # "tick"
    BY <2>2 DEF RInv, Shape
  <2>4. x.then \in {"click", "stamp", "stamped"} => x.who \in Routines
    BY <1>1, <2>2 DEF TypeOK
  <2>5. \A r \in Routines : x.then \in {"stamp", "stamped"} /\ x.who = r => ended[r] = now
    BY <2>2 DEF RInv, Shape, Stamping
  <2>6. /\ Shape' /\ io' \in [Procs -> IoType]
        /\ \A q \in Procs : io'[q].then \in {"click", "stamp", "stamped"} => io'[q].who \in Routines
        /\ \A q \in Procs : q # p => io'[q] = io[q]
    BY <1>2, <1>3, <2>1, <2>2, <2>3, <2>4, <2>5, CallShape
  <2>7. QED
    BY <1>1, <1>2, <2>2, <2>6, CallType DEF TypeOK
<1>5. CASE file.utf8 /\ ~NeedsSave(file)
  <2>1. After(p, file, io) /\ ~file.legacy
    BY <1>1, <1>5, NormalType DEF Read, NeedsSave
  <2>2. /\ Shape' /\ io' \in [Procs -> IoType]
        /\ \A q \in Procs : io'[q].then \in {"click", "stamp", "stamped"} => io'[q].who \in Routines
        /\ \A q \in Procs : q # p => io'[q] = io[q]
    BY <1>1, <1>2, <1>3, <2>1, AfterShape
  <2>3. /\ due' = due \/ io[p].then = "tick"
        /\ due' \in SUBSET Routines /\ hit' \in SUBSET Routines
        /\ live' \in [Routines -> [cron : Nat, dash : 0..1]]
        /\ \A r \in Routines : live'[r].cron = live[r].cron
        /\ form' \in [open : BOOLEAN, rows : Rows]
    BY <1>1, <1>3, <2>1, AfterEffect
  <2>4. QED
    BY <1>1, <1>2, <2>2, <2>3, CallType DEF TypeOK
<1>6. CASE ~file.utf8
  <2>1. io' = [io EXCEPT ![p] = Idle] /\ UNCHANGED <<due, live, form, hit>>
    BY <1>6 DEF Read
  <2>2. /\ Shape' /\ io' \in [Procs -> IoType]
        /\ \A q \in Procs : io'[q].then \in {"click", "stamp", "stamped"} => io'[q].who \in Routines
        /\ \A q \in Procs : q # p => io'[q] = io[q]
    BY <1>1, <1>2, <1>3, <2>1, IdleType, CallShape
  <2>3. QED
    BY <1>1, <1>2, <2>1, <2>2, CallType DEF TypeOK
<1>7. QED
  BY <1>4, <1>5, <1>6

LEMMA OpenType ==
  ASSUME RInv, NEW p \in Procs, Open(p)
  PROVE  /\ TypeOK' /\ Shape'
         /\ \E x \in IoType : /\ io'[p] = x /\ x.pc = "write" /\ x.data = io[p].data /\ x.to = io[p].to
                              /\ x.then = io[p].then /\ x.who = io[p].who
         /\ \A q \in Procs : q # p => io'[q] = io[q]
<1>1. TypeOK /\ io[p].pc = "open" /\ io[p] \in IoType /\ io \in [Procs -> IoType] /\ Alike(io)
  BY Unmoved DEF Open, RInv
<1>2. UNCHANGED <<file, runVars, now, edits, kills, wish, ended, hit>>
      /\ tmp' = [there |-> TRUE, data |-> Garbage]
      /\ raced' = (raced \/ Overlaps(p))
  BY DEF Open
<1> DEFINE x == [io[p] EXCEPT !.pc = "write"]
<1>3. io' = [io EXCEPT ![p] = x]
  BY <1>1 DEF Open
<1>4. /\ x \in IoType /\ x.pc = "write" /\ x.data = io[p].data /\ x.to = io[p].to
      /\ x.then = io[p].then /\ x.who = io[p].who
  BY <1>1 DEF IoType
<1> HIDE DEF x
<1>5. p = "dash" => x.then # "tick"
  BY <1>4 DEF RInv, Shape
<1>6. x.then \in {"click", "stamp", "stamped"} => x.who \in Routines
  BY <1>1, <1>4 DEF TypeOK
<1>7. \A r \in Routines : x.then \in {"stamp", "stamped"} /\ x.who = r => ended[r] = now
  BY <1>4 DEF RInv, Shape, Stamping
<1>8. ~x.data.legacy
  BY <1>1, <1>4 DEF RInv, Shape, Saving
<1>9. /\ Shape' /\ io' \in [Procs -> IoType] /\ io'[p] = x
      /\ \A q \in Procs : io'[q].then \in {"click", "stamp", "stamped"} => io'[q].who \in Routines
      /\ \A q \in Procs : q # p => io'[q] = io[q]
  BY <1>1, <1>2, <1>3, <1>4, <1>5, <1>6, <1>7, <1>8, CallShape
<1>10. raced' \in BOOLEAN /\ tmp' \in [there : BOOLEAN, data : Configs]
  BY <1>1, <1>2, GarbageType DEF TypeOK
<1>11. TypeOK'
  BY <1>1, <1>2, <1>9, <1>10, CallType DEF TypeOK, runVars
<1>12. QED
  BY <1>4, <1>9, <1>11

LEMMA WriteType ==
  ASSUME RInv, NEW p \in Procs, Write(p)
  PROVE  /\ TypeOK' /\ Shape'
         /\ \E x \in IoType : /\ io'[p] = x /\ x.pc = "rename" /\ x.data = io[p].data
                              /\ x.then = io[p].then /\ x.who = io[p].who
         /\ \A q \in Procs : q # p => io'[q] = io[q]
<1>1. /\ TypeOK /\ io[p].pc = "write" /\ io[p] \in IoType /\ io \in [Procs -> IoType] /\ Alike(io)
      /\ io[p].data \in Configs /\ file \in Configs /\ tmp \in [there : BOOLEAN, data : Configs]
  BY Unmoved DEF Write, RInv, IoType, TypeOK
<1>2. UNCHANGED <<runVars, now, edits, kills, wish, ended, hit>>
      /\ raced' = (raced \/ Overlaps(p))
  BY DEF Write
<1>3. \A c, old \in Configs : Over(c, old) \subseteq Configs
  <2>1. Undecodable \in Configs
    BY GarbageType DEF Undecodable, Configs
  <2>2. QED
    BY <2>1, GarbageType DEF Over
<1>4. file' \in Configs /\ tmp' \in [there : BOOLEAN, data : Configs]
  <2>1. Over(io[p].data, tmp.data) \subseteq Configs /\ Over(io[p].data, file) \subseteq Configs
    BY <1>1, <1>3
  <2>2. QED
    BY <1>1, <2>1 DEF Write
<1> DEFINE x == [io[p] EXCEPT !.pc = "rename"]
<1>5. io' = [io EXCEPT ![p] = x]
  BY <1>1 DEF Write
<1>6. /\ x \in IoType /\ x.pc = "rename" /\ x.data = io[p].data
      /\ x.then = io[p].then /\ x.who = io[p].who
  BY <1>1 DEF IoType
<1> HIDE DEF x
<1>7. p = "dash" => x.then # "tick"
  BY <1>6 DEF RInv, Shape
<1>8. x.then \in {"click", "stamp", "stamped"} => x.who \in Routines
  BY <1>1, <1>6 DEF TypeOK
<1>9. \A r \in Routines : x.then \in {"stamp", "stamped"} /\ x.who = r => ended[r] = now
  BY <1>6 DEF RInv, Shape, Stamping
<1>10. ~x.data.legacy
  BY <1>1, <1>6 DEF RInv, Shape, Saving
<1>11. /\ Shape' /\ io' \in [Procs -> IoType] /\ io'[p] = x
       /\ \A q \in Procs : io'[q].then \in {"click", "stamp", "stamped"} => io'[q].who \in Routines
       /\ \A q \in Procs : q # p => io'[q] = io[q]
  BY <1>1, <1>2, <1>5, <1>6, <1>7, <1>8, <1>9, <1>10, CallShape
<1>12. raced' \in BOOLEAN
  BY <1>1, <1>2 DEF TypeOK
<1>13. TypeOK'
  BY <1>1, <1>2, <1>4, <1>11, <1>12, CallType DEF TypeOK, runVars
<1>14. QED
  BY <1>6, <1>11, <1>13

LEMMA RenameType ==
  ASSUME RInv, NEW p \in Procs, Rename(p) PROVE TypeOK' /\ Shape'
<1>1. /\ TypeOK /\ io[p].pc = "rename" /\ io[p] \in IoType /\ io \in [Procs -> IoType] /\ Alike(io)
      /\ io[p].data \in Configs /\ ~io[p].data.legacy
      /\ file \in Configs /\ tmp \in [there : BOOLEAN, data : Configs]
  BY Unmoved DEF Rename, RInv, IoType, TypeOK, Shape, Saving
<1>2. UNCHANGED <<up, now, edits, kills, wish, ended>> /\ raced' \in BOOLEAN
  BY <1>1 DEF Rename, TypeOK
<1>3. CASE tmp.there
  <2> DEFINE f == Moved(p, io)
  <2>1. /\ f \in [Procs -> IoType] /\ Alike(f)
        /\ \A q \in Procs : q # p /\ io[q] = Idle => f[q] = Idle
    <3>1. \A q \in Procs : io[q] = Idle => io[q].pc # "write"
      BY IdleType
    <3>2. QED
      BY <1>1, <3>1, MovedAlike DEF Alike
  <2>2. After(p, io[p].data, f)
    BY <1>3 DEF Rename
  <2>3. file' \in Configs /\ tmp' \in [there : BOOLEAN, data : Configs]
    <3>1. file' = tmp.data /\ tmp' = [there |-> FALSE, data |-> Garbage]
      BY <1>3 DEF Rename
    <3>2. tmp.data \in Configs
      BY <1>1
    <3>3. QED
      BY <3>1, <3>2, GarbageType
  <2> HIDE DEF f
  <2>4. /\ Shape' /\ io' \in [Procs -> IoType]
        /\ \A q \in Procs : io'[q].then \in {"click", "stamp", "stamped"} => io'[q].who \in Routines
        /\ \A q \in Procs : q # p => io'[q] = f[q]
    BY <1>1, <1>2, <2>1, <2>2, AfterShape
  <2>5. /\ due' = due \/ io[p].then = "tick"
        /\ due' \in SUBSET Routines /\ hit' \in SUBSET Routines
        /\ live' \in [Routines -> [cron : Nat, dash : 0..1]]
        /\ \A r \in Routines : live'[r].cron = live[r].cron
        /\ form' \in [open : BOOLEAN, rows : Rows]
    BY <1>1, <2>1, <2>2, AfterEffect
  <2>6. \A q \in Procs : q # p /\ io[q] = Idle => io'[q] = Idle
    BY <2>1, <2>4
  <2>7. QED
    BY <1>1, <1>2, <2>3, <2>4, <2>5, <2>6, CallType
<1>4. CASE ~tmp.there
  <2>1. io' = [io EXCEPT ![p] = Idle] /\ UNCHANGED <<file, tmp, due, live, form, hit>>
    BY <1>4 DEF Rename
  <2>2. /\ Shape' /\ io' \in [Procs -> IoType]
        /\ \A q \in Procs : io'[q].then \in {"click", "stamp", "stamped"} => io'[q].who \in Routines
        /\ \A q \in Procs : q # p => io'[q] = io[q]
    BY <1>1, <1>2, <2>1, IdleType, CallShape
  <2>3. QED
    BY <1>1, <1>2, <2>1, <2>2, CallType DEF TypeOK
<1>5. QED
  BY <1>3, <1>4

-----------------------------------------------------------------------------
(* The steps that begin a call, and those of the operator, the clock and the processes. *)

LEMMA BeginEffect ==
  ASSUME TypeOK, NEW p \in Procs, NEW r \in Routines \cup {None},
         NEW then \in {"none", "tick", "form", "click", "stamp", "stamped", "reload"},
         Begin(p, then, r)
  PROVE  \E x \in IoType : /\ x.pc = "load" /\ x.then = then /\ x.who = r
                           /\ io' = [io EXCEPT ![p] = x] /\ io'[p] = x
                           /\ \A q \in Procs : q # p => io'[q] = io[q]
                           /\ io[p].pc = "idle" /\ UNCHANGED <<file, tmp>>
<1>1. io \in [Procs -> IoType]
  BY DEF TypeOK, IoType
<1> DEFINE x == [Idle EXCEPT !.pc = "load", !.then = then, !.who = r]
<1>2. x \in IoType /\ x.pc = "load" /\ x.then = then /\ x.who = r
  BY IdleType DEF IoType
<1> HIDE DEF x
<1>3. io' = [io EXCEPT ![p] = x] /\ io[p].pc = "idle" /\ UNCHANGED <<file, tmp>>
  BY DEF Begin, x
<1>4. QED
  BY <1>1, <1>2, <1>3

LEMMA ClickType ==
  ASSUME RInv,
         \/ \E r \in Routines : RunNow(r)
         \/ Tick
         \/ GetConfig
  PROVE  /\ TypeOK' /\ Shape'
         /\ \E p \in Procs : \E x \in IoType :
              /\ io[p].pc = "idle" /\ x.pc = "load" /\ x.then \in {"click", "tick", "form"}
              /\ io'[p] = x /\ \A q \in Procs : q # p => io'[q] = io[q]
         /\ UNCHANGED <<file, tmp, runVars, now, histVars>>
<1>1. UNCHANGED <<file, tmp, runVars, now, edits, kills, histVars>>
  BY DEF RunNow, Tick, GetConfig, Begin
<1>2. PICK p \in Procs, then \in {"click", "tick", "form"}, r \in Routines \cup {None} :
        /\ Begin(p, then, r)
        /\ p = "cron" => up
        /\ p = "dash" => then # "tick"
        /\ then = "click" => r \in Routines
  BY RoutinesAssumption DEF RunNow, Tick, GetConfig, Procs
<1>3. TypeOK
  BY DEF RInv
<1>4. PICK x \in IoType :
        /\ x.pc = "load" /\ x.then = then /\ x.who = r
        /\ io' = [io EXCEPT ![p] = x] /\ io'[p] = x
        /\ \A q \in Procs : q # p => io'[q] = io[q]
        /\ io[p].pc = "idle"
  <2>1. then \in {"none", "tick", "form", "click", "stamp", "stamped", "reload"}
    BY <1>2
  <2>2. TypeOK /\ Begin(p, then, r)
    BY <1>2, <1>3
  <2>3. QED
    BY <2>1, <2>2, BeginEffect
<1>5. /\ Shape' /\ io' \in [Procs -> IoType]
      /\ \A q \in Procs : io'[q].then \in {"click", "stamp", "stamped"} => io'[q].who \in Routines
  BY <1>1, <1>2, <1>3, <1>4, Unmoved, CallShape DEF histVars
<1>6. ~up => p = "dash"
  BY <1>2 DEF Procs
<1>7. TypeOK'
  BY <1>1, <1>3, <1>4, <1>5, <1>6 DEF TypeOK, IoType, runVars, histVars, Procs
<1>8. QED
  BY <1>1, <1>2, <1>4, <1>5, <1>7

LEMMA RunEndsType ==
  ASSUME RInv, NEW p \in Procs, NEW r \in Routines, RunEnds(p, r)
  PROVE  /\ TypeOK' /\ Shape'
         /\ \E x \in IoType :
              /\ io[p].pc = "idle" /\ x.pc = "load" /\ x.then = "stamp" /\ x.who = r
              /\ io'[p] = x /\ \A q \in Procs : q # p => io'[q] = io[q]
         /\ UNCHANGED <<file, tmp>>
<1>1. TypeOK /\ live[r][p] > 0 /\ Begin(p, "stamp", r)
      /\ live' = [live EXCEPT ![r][p] = @ - 1] /\ ended' = [ended EXCEPT ![r] = now]
      /\ hit' = hit \cup ({r} \cap due)
      /\ UNCHANGED <<up, due, form, now, edits, kills, wish, raced>>
  BY DEF RunEnds, RInv
<1>2. PICK x \in IoType :
        /\ x.pc = "load" /\ x.then = "stamp" /\ x.who = r
        /\ io' = [io EXCEPT ![p] = x] /\ io'[p] = x
        /\ \A q \in Procs : q # p => io'[q] = io[q]
        /\ io[p].pc = "idle" /\ UNCHANGED <<file, tmp>>
  BY <1>1, BeginEffect
<1>3. io \in [Procs -> IoType]
  BY <1>1 DEF TypeOK, IoType
<1>4. io' \in [Procs -> IoType]
  BY <1>2, <1>3
<1>5. /\ live \in [Routines -> [cron : Nat, dash : 0..1]] /\ now \in 1..MaxNow
      /\ ended \in [Routines -> 0..MaxNow]
  BY <1>1 DEF TypeOK
<1>6. /\ live' \in [Routines -> [cron : Nat, dash : 0..1]]
      /\ \A q \in Routines : live'[q].cron <= live[q].cron
      /\ ~up => \A q \in Routines : live'[q].cron = 0
  <2>1. PICK l \in [cron : Nat, dash : 0..1] : l = [live[r] EXCEPT ![p] = @ - 1]
    BY <1>1, <1>5 DEF Procs
  <2>2. l.cron <= live[r].cron
    BY <1>1, <1>5, <2>1 DEF Procs
  <2>3. live' = [live EXCEPT ![r] = l]
    BY <1>1, <1>5, <2>1
  <2>4. /\ live' \in [Routines -> [cron : Nat, dash : 0..1]]
        /\ \A q \in Routines : live'[q].cron <= live[q].cron
    BY <1>5, <2>1, <2>2, <2>3
  <2>5. ~up => \A q \in Routines : live[q].cron = 0
    BY <1>1 DEF TypeOK
  <2>6. QED
    BY <1>5, <2>4, <2>5
<1>7. ended' \in [Routines -> 0..MaxNow] /\ ended'[r] = now /\ now' = now
      /\ \A q \in Routines : q # r => ended'[q] = ended[q]
  BY <1>1, <1>5
<1>8. hit' \in SUBSET Routines
  BY <1>1 DEF TypeOK
<1>9. Shape'
  <2>1. /\ io["dash"].then # "tick" /\ "dash" \in Procs
        /\ \A q \in Procs : /\ io[q].pc = "idle" => io[q] = Idle
                            /\ io[q].pc = "load" => io[q].then # "stamped"
                            /\ Saving(q) => ~io[q].data.legacy
        /\ \A q \in Procs, s \in Routines : Stamping(q, s) => ended[s] = now
    BY DEF RInv, Shape, Procs
  <2>2. io'["dash"].then # "tick"
    BY <1>2, <2>1
  <2>3. ASSUME NEW q \in Procs
        PROVE  /\ io'[q].pc = "idle" => io'[q] = Idle
               /\ io'[q].pc = "load" => io'[q].then # "stamped"
               /\ Saving(q)' => ~io'[q].data.legacy
    BY <1>2, <2>1 DEF Saving
  <2>4. ASSUME NEW q \in Procs, NEW s \in Routines, Stamping(q, s)' PROVE ended'[s] = now'
    <3>1. CASE q = p
      BY <1>2, <1>7, <2>4, <3>1 DEF Stamping
    <3>2. CASE q # p
      BY <1>2, <1>7, <2>1, <2>4, <3>2 DEF Stamping
    <3>3. QED
      BY <3>1, <3>2
  <2>5. QED
    BY <2>2, <2>3, <2>4 DEF Shape
<1>10. \A q \in Procs : io'[q].then \in {"click", "stamp", "stamped"} => io'[q].who \in Routines
  BY <1>1, <1>2 DEF TypeOK
<1>11. ~up => p = "dash"
  <2>1. ~up => live[r].cron = 0
    BY <1>1 DEF TypeOK
  <2>2. QED
    BY <1>1, <2>1 DEF Procs
<1>12. TypeOK'
  BY <1>1, <1>2, <1>4, <1>6, <1>7, <1>8, <1>10, <1>11 DEF TypeOK, IoType, Procs
<1>13. QED
  BY <1>2, <1>9, <1>12

LEMMA StartType ==
  ASSUME RInv, NEW r \in Routines, Start(r) PROVE TypeOK' /\ Shape'
<1>1. /\ TypeOK /\ live \in [Routines -> [cron : Nat, dash : 0..1]] /\ due \in SUBSET Routines
      /\ up /\ due' = due \ {r}
      /\ live' = IF live[r].cron > 0 THEN live ELSE [live EXCEPT ![r].cron = @ + 1]
      /\ UNCHANGED <<file, tmp, io, up, form, now, edits, kills, wish, ended, hit, raced>>
  BY DEF Start, RInv, TypeOK, fileVars, histVars
<1>2. live' \in [Routines -> [cron : Nat, dash : 0..1]]
  <2>1. CASE live[r].cron > 0
    BY <1>1, <2>1
  <2>2. CASE ~(live[r].cron > 0)
    <3>1. PICK l \in [cron : Nat, dash : 0..1] : l = [live[r] EXCEPT !.cron = @ + 1] /\ l.cron = 1
      BY <1>1, <2>2
    <3>2. live' = [live EXCEPT ![r] = l]
      BY <1>1, <2>2, <3>1
    <3>3. QED
      BY <1>1, <3>1, <3>2
  <2>3. QED
    BY <2>1, <2>2
<1>3. TypeOK'
  BY <1>1, <1>2 DEF TypeOK
<1>4. QED
  BY <1>1, <1>2, <1>3 DEF RInv, Shape, Saving, Stamping

LEMMA ClockType ==
  ASSUME RInv, Clock
  PROVE  /\ TypeOK' /\ Shape'
         /\ \A p \in Procs : io[p] = Idle
         /\ UNCHANGED <<file, tmp, io, due, wish, ended, hit, raced>>
         /\ now' = now + 1
<1>1. /\ TypeOK /\ now < MaxNow /\ now' = now + 1 /\ \A p \in Procs : io[p] = Idle
      /\ UNCHANGED <<file, tmp, io, up, due, live, form, edits, kills, wish, ended, hit, raced>>
  BY DEF Clock, RInv, Shape, fileVars, runVars, histVars
<1>2. TypeOK'
  <2>1. now' \in 1..MaxNow
    BY <1>1, RoutinesAssumption DEF TypeOK
  <2>2. QED
    BY <1>1, <2>1 DEF TypeOK
<1>3. Shape'
  BY <1>1, IdleType DEF RInv, Shape, Saving, Stamping
<1>4. QED
  BY <1>1, <1>2, <1>3

LEMMA StartsType ==
  ASSUME RInv, CronStarts PROVE TypeOK' /\ Shape'
BY DEF RInv, CronStarts, TypeOK, Shape, Saving, Stamping, fileVars, histVars

LEMMA KilledType ==
  ASSUME RInv, CronKilled
  PROVE  /\ TypeOK' /\ Shape'
         /\ io'["cron"] = Idle /\ io'["dash"] = io["dash"]
<1>1. /\ TypeOK /\ io \in [Procs -> IoType] /\ Alike(io)
      /\ up' = FALSE /\ kills' = kills + 1 /\ kills < MaxKills
      /\ io' = [io EXCEPT !["cron"] = Idle] /\ due' = {}
      /\ live' = [r \in Routines |-> [live[r] EXCEPT !.cron = 0]]
      /\ hit' = hit \cup {r \in Routines : live[r].cron > 0 \/ io["cron"].who = r}
      /\ UNCHANGED <<file, tmp, form, now, edits, wish, ended, raced>>
  BY Unmoved DEF CronKilled, RInv
<1>2. /\ Shape' /\ io' \in [Procs -> IoType]
      /\ \A q \in Procs : io'[q].then \in {"click", "stamp", "stamped"} => io'[q].who \in Routines
      /\ io'["cron"] = Idle /\ io'["dash"] = io["dash"]
  BY <1>1, IdleType, CallShape, RoutinesAssumption DEF Procs
<1>3. /\ live' \in [Routines -> [cron : Nat, dash : 0..1]]
      /\ \A r \in Routines : live'[r].cron = 0
  <2>1. \A r \in Routines : /\ [live[r] EXCEPT !.cron = 0] \in [cron : Nat, dash : 0..1]
                            /\ [live[r] EXCEPT !.cron = 0].cron = 0
    <3>1. live \in [Routines -> [cron : Nat, dash : 0..1]]
      BY <1>1 DEF TypeOK
    <3>2. QED
      BY <3>1
  <2>2. QED
    BY <1>1, <2>1
<1>4. hit' \in SUBSET Routines /\ kills' \in 0..MaxKills
  BY <1>1, RoutinesAssumption DEF TypeOK
<1>5. TypeOK'
  BY <1>1, <1>2, <1>3, <1>4 DEF TypeOK, IoType
<1>6. QED
  BY <1>2, <1>3, <1>5

\* The form, as it is put.
PutRows(asked) == [r \in Routines |-> IF asked[r] = "none" THEN NoRow
                     ELSE [there |-> TRUE, active |-> asked[r] = "on", last |-> form.rows[r].last]]

LEMMA PutType ==
  ASSUME RInv, Put
  PROVE  /\ TypeOK' /\ Shape'
         /\ \E asked \in [Routines -> {"none", "off", "on"}] : \E c \in Configs : \E x \in IoType :
              /\ c.rows = PutRows(asked) /\ ~c.legacy /\ c.utf8 /\ c.ok
              /\ x.pc = "open" /\ x.data = c /\ x.to = "tmp" /\ x.then = "reload" /\ x.who = None
              /\ io'["dash"] = x /\ io'["cron"] = io["cron"]
              /\ wish' = [wish EXCEPT !.rows = asked]
              /\ hit' = hit \cup {r \in Routines : c.rows[r].last # ended[r]}
         /\ io["dash"].pc = "idle"
         /\ UNCHANGED <<file, tmp, due, now, ended, raced>>
<1>1. /\ TypeOK /\ io \in [Procs -> IoType] /\ Alike(io) /\ form \in [open : BOOLEAN, rows : Rows]
      /\ edits < MaxEdits /\ edits' = edits + 1 /\ io["dash"].pc = "idle"
      /\ form' = [open |-> FALSE, rows |-> NoRows]
      /\ UNCHANGED <<file, tmp, up, due, live, now, kills, ended, raced>>
  BY Unmoved DEF Put, Edit, RInv, TypeOK
<1>2. PICK asked \in [Routines -> {"none", "off", "on"}] :
        /\ io' = [io EXCEPT !["dash"] =
                    Saves(Idle, [Garbage EXCEPT !.ok = TRUE, !.rows = PutRows(asked)], "reload")]
        /\ wish' = [wish EXCEPT !.rows = asked]
        /\ hit' = hit \cup {r \in Routines : PutRows(asked)[r].last # ended[r]}
  BY DEF Put, PutRows
<1>3. PutRows(asked) \in Rows
  <2>1. ASSUME NEW r \in Routines
        PROVE  PutRows(asked)[r] \in [there : BOOLEAN, active : BOOLEAN, last : 0..MaxNow]
    <3>1. form.rows[r].last \in 0..MaxNow
      BY <1>1 DEF Rows
    <3>2. CASE asked[r] = "none"
      BY <3>2, RoutinesAssumption DEF PutRows, NoRow
    <3>3. CASE asked[r] # "none"
      BY <3>1, <3>3 DEF PutRows
    <3>4. QED
      BY <3>2, <3>3
  <2>2. QED
    BY <2>1 DEF Rows, PutRows
<1>4. PICK c \in Configs : /\ c = [Garbage EXCEPT !.ok = TRUE, !.rows = PutRows(asked)]
                           /\ c.rows = PutRows(asked) /\ ~c.legacy /\ c.utf8 /\ c.ok
  <2> DEFINE d == [Garbage EXCEPT !.ok = TRUE, !.rows = PutRows(asked)]
  <2>1. Garbage \in Configs /\ ~Garbage.legacy /\ Garbage.utf8
    BY GarbageType DEF Garbage
  <2>2. /\ d \in Configs /\ d.rows = PutRows(asked) /\ d.legacy = Garbage.legacy
        /\ d.utf8 = Garbage.utf8 /\ d.ok
    BY <1>3, <2>1 DEF Configs
  <2>3. QED
    BY <2>1, <2>2
<1>5. PICK x \in IoType : /\ x = Saves(Idle, c, "reload") /\ x.pc = "open" /\ x.data = c
                          /\ x.to = "tmp" /\ x.then = "reload" /\ x.who = None
  <2> DEFINE k == Saves(Idle, c, "reload")
  <2>1. k \in IoType /\ k.pc = "open" /\ k.data = c /\ k.to = "tmp" /\ k.then = "reload" /\ k.who = None
    BY <1>4, IdleType DEF Saves, IoType
  <2>2. QED
    BY <2>1
<1>6. /\ Shape' /\ io' \in [Procs -> IoType]
      /\ \A q \in Procs : io'[q].then \in {"click", "stamp", "stamped"} => io'[q].who \in Routines
      /\ io'["dash"] = x /\ io'["cron"] = io["cron"]
  <2>1. io' = [io EXCEPT !["dash"] = x]
    BY <1>2, <1>4, <1>5
  <2>2. QED
    BY <1>1, <1>4, <1>5, <2>1, CallShape DEF Procs
<1>7. wish' \in [mode : Modes, sweeps : Sweeps, rows : [Routines -> {"none", "off", "on"}]]
      /\ hit' \in SUBSET Routines /\ edits' \in 0..MaxEdits
      /\ form' \in [open : BOOLEAN, rows : Rows]
  BY <1>1, <1>2, GarbageType, RoutinesAssumption DEF TypeOK
<1>8. TypeOK'
  BY <1>1, <1>6, <1>7 DEF TypeOK, IoType
<1>10. hit' = hit \cup {r \in Routines : c.rows[r].last # ended[r]}
  BY <1>2, <1>4
<1>11. QED
  BY <1>1, <1>2, <1>4, <1>5, <1>6, <1>8, <1>10

LEMMA EditType ==
  ASSUME RInv, EditByHand
  PROVE  /\ TypeOK' /\ Shape'
         /\ io' \in [Procs -> IoType]
         /\ \A q \in Procs : /\ io'[q].pc = io[q].pc /\ io'[q].data = io[q].data
                             /\ io'[q].then = io[q].then /\ io'[q].who = io[q].who
                             /\ io[q].to = "tmp" => io'[q] = io[q]
         /\ \/ /\ file'.rows = file.rows /\ file'.legacy = file.legacy /\ wish'.rows = wish.rows
            \/ file'.legacy /\ wish'.rows = [r \in Routines |-> "none"]
         /\ raced' = (raced \/ \E p \in Procs : Overlaps(p))
         /\ UNCHANGED <<tmp, due, now, ended, hit>>
<1>1. /\ TypeOK /\ io \in [Procs -> IoType] /\ Alike(io) /\ file \in Configs
      /\ wish \in [mode : Modes, sweeps : Sweeps, rows : [Routines -> {"none", "off", "on"}]]
      /\ edits < MaxEdits /\ edits' = edits + 1
      /\ io' = [p \in Procs |-> IF io[p].pc = "write" /\ io[p].to = "file"
                                  THEN [io[p] EXCEPT !.to = "lost"] ELSE io[p]]
      /\ raced' = (raced \/ \E p \in Procs : Overlaps(p))
      /\ UNCHANGED <<tmp, up, due, live, form, now, kills, ended, hit>>
  BY Unmoved DEF EditByHand, Edit, RInv, TypeOK, runVars
<1>2. /\ file' \in Configs
      /\ wish' \in [mode : Modes, sweeps : Sweeps, rows : [Routines -> {"none", "off", "on"}]]
      /\ \/ /\ file'.rows = file.rows /\ file'.legacy = file.legacy /\ wish'.rows = wish.rows
         \/ file'.legacy /\ wish'.rows = [r \in Routines |-> "none"]
  <2>1. CASE \E m \in Modes \ {"none"} :
               file' = [file EXCEPT !.mode = m] /\ wish' = [wish EXCEPT !.mode = m]
    BY <1>1, <2>1 DEF Configs
  <2>2. CASE \E s \in Sweeps \ {"none"} :
               file' = [file EXCEPT !.sweeps = s] /\ wish' = [wish EXCEPT !.sweeps = s]
    BY <1>1, <2>2 DEF Configs
  <2>3. CASE /\ file' = [file EXCEPT !.legacy = TRUE]
             /\ wish' = [wish EXCEPT !.rows = [r \in Routines |-> "none"]]
    BY <1>1, <2>3 DEF Configs
  <2>4. QED
    BY <2>1, <2>2, <2>3 DEF EditByHand
<1>3. \A q \in Procs : /\ io'[q] \in IoType
                       /\ io'[q].pc = io[q].pc /\ io'[q].data = io[q].data
                       /\ io'[q].then = io[q].then /\ io'[q].who = io[q].who
                       /\ io[q].to = "tmp" => io'[q] = io[q]
                       /\ io'[q].pc = "idle" => io'[q] = io[q]
  <2> SUFFICES ASSUME NEW q \in Procs
               PROVE  /\ io'[q] \in IoType
                      /\ io'[q].pc = io[q].pc /\ io'[q].data = io[q].data
                      /\ io'[q].then = io[q].then /\ io'[q].who = io[q].who
                      /\ io[q].to = "tmp" => io'[q] = io[q]
                      /\ io'[q].pc = "idle" => io'[q] = io[q]
    OBVIOUS
  <2>1. PICK k \in IoType : k = io[q]
    BY <1>1
  <2>2. io'[q] = IF k.pc = "write" /\ k.to = "file" THEN [k EXCEPT !.to = "lost"] ELSE k
    BY <1>1, <2>1
  <2>3. QED
    BY <2>1, <2>2 DEF IoType
<1>4. io' \in [Procs -> IoType]
  BY <1>1, <1>3
<1>5. Shape'
  <2>1. \A q \in Procs, r \in Routines : Stamping(q, r)' <=> Stamping(q, r)
    BY <1>3 DEF Stamping
  <2>2. \A q \in Procs : Saving(q)' <=> Saving(q)
    BY <1>3 DEF Saving
  <2>3. /\ io["dash"].then # "tick" /\ "dash" \in Procs
        /\ \A q \in Procs : /\ io[q].pc = "idle" => io[q] = Idle
                            /\ io[q].pc = "load" => io[q].then # "stamped"
                            /\ Saving(q) => ~io[q].data.legacy
        /\ \A q \in Procs, s \in Routines : Stamping(q, s) => ended[s] = now
    BY DEF RInv, Shape, Procs
  <2>4. ASSUME NEW q \in Procs
        PROVE  /\ io'[q].pc = "idle" => io'[q] = Idle
               /\ io'[q].pc = "load" => io'[q].then # "stamped"
               /\ Saving(q)' => ~io'[q].data.legacy
    BY <1>3, <2>2, <2>3
  <2>5. ASSUME NEW q \in Procs, NEW s \in Routines, Stamping(q, s)' PROVE ended'[s] = now'
    BY <1>1, <2>1, <2>3, <2>5
  <2>6. io'["dash"].then # "tick"
    BY <1>3, <2>3
  <2>7. QED
    BY <2>4, <2>5, <2>6 DEF Shape
<1>6. TypeOK'
  <2>1. edits' \in 0..MaxEdits /\ raced' \in BOOLEAN
    BY <1>1, RoutinesAssumption DEF TypeOK
  <2>2. \A q \in Procs : io'[q].then \in {"click", "stamp", "stamped"} => io'[q].who \in Routines
    BY <1>1, <1>3 DEF TypeOK
  <2>3. ~up => io'["cron"] = Idle
    BY <1>1, <1>3, IdleType DEF TypeOK, Procs
  <2>4. QED
    BY <1>1, <1>2, <1>4, <2>1, <2>2, <2>3 DEF TypeOK, IoType
<1>7. QED
  BY <1>1, <1>2, <1>3, <1>4, <1>5, <1>6

-----------------------------------------------------------------------------
(* The temporary file, the rows and the stamps, as long as no two writers overlap. *)

LEMMA AgreesRows ==
  ASSUME NEW c, NEW d, Normal(c).rows = Normal(d).rows
  PROVE  /\ Agrees(c) <=> Agrees(d)
         /\ \A r \in Routines : Fresh(c, r) <=> Fresh(d, r)
BY DEF Agrees, Asked, Fresh

LEMMA StampedAgrees ==
  ASSUME TypeOK, NEW c \in Configs, ~c.legacy, NEW r \in Routines
  PROVE  /\ Agrees(Stamped(c, r)) <=> Agrees(c)
         /\ \A s \in Routines : s # r => (Fresh(Stamped(c, r), s) <=> Fresh(c, s))
         /\ ended[r] = now => Fresh(Stamped(c, r), r)
<1>1. now \in 1..MaxNow
  BY DEF TypeOK
<1>2. PICK d \in Configs :
        /\ d = Stamped(c, r) /\ ~d.legacy
        /\ \A q \in Routines : q # r => d.rows[q] = c.rows[q]
        /\ d.rows[r].there = c.rows[r].there /\ d.rows[r].active = c.rows[r].active
        /\ c.rows[r].there => d.rows[r].last = now
  BY <1>1, StampedType
<1>3. Normal(d).rows = d.rows /\ Normal(c).rows = c.rows
  BY <1>2, NormalType
<1>4. \A q \in Routines : d.rows[q].there = c.rows[q].there /\ d.rows[q].active = c.rows[q].active
  BY <1>2
<1>5. Asked(Normal(d)) = Asked(Normal(c))
  BY <1>3, <1>4 DEF Asked
<1>6. QED
  BY <1>2, <1>3, <1>5 DEF Agrees, Fresh

\* What one process knows, q being the other.
LEMMA OtherProc == ASSUME NEW p \in Procs
                   PROVE  /\ Other(p) \in Procs /\ Other(p) # p /\ \A s \in Procs : s = p \/ s = Other(p)
                          /\ p = "dash" => Other(p) = "cron"
                          /\ p = "cron" => Other(p) = "dash"
BY DEF Procs, Other

LEMMA AfterSafe ==
  ASSUME RInv, ~raced, NEW p \in Procs, NEW c \in Configs, NEW f \in [Procs -> IoType],
         io[p].pc \in {"load", "rename"}, After(p, c, f), ~c.legacy, f[Other(p)] = io[Other(p)],
         io[p].pc = "rename" => ~Saving(Other(p)),
         Alike(f), file' = c, UNCHANGED <<ended, now, wish>>,
         \A r \in Routines \ hit : Fresh(c, r) \/ Owes(p, r) \/ Stamping(Other(p), r),
         ~(p = "cron" /\ Saving("dash")) => Agrees(c)
  PROVE  RowsAgree' /\ StampsFresh' /\ DueRested'
<1> DEFINE q == Other(p)
<1>1. PICK x \in IoType :
        /\ io' = [f EXCEPT ![p] = x]
        /\ \/ x = Idle /\ io[p].then \in {"none", "stamped", "tick", "form", "click"}
           \/ /\ io[p].then = "stamp" /\ io[p].who \in Routines
              /\ x = Saves(io[p], Stamped(c, io[p].who), "stamped")
           \/ x = [Idle EXCEPT !.pc = "load"] /\ io[p].then = "reload"
  BY AfterEffect
<1>2. /\ TypeOK /\ io \in [Procs -> IoType] /\ now \in 1..MaxNow
      /\ q \in Procs /\ q # p /\ \A s \in Procs : s = p \/ s = q
      /\ p = "dash" => q = "cron"
      /\ p = "cron" => q = "dash"
      /\ RowsAgree /\ StampsFresh /\ DueRested
      /\ io[p].then = "stamped" => io[p].pc = "rename"
      /\ Saving(p) <=> io[p].pc = "rename"
      /\ io[p].pc = "rename" => ~Saving(q)
      /\ \A r \in Routines \ hit : Fresh(c, r) \/ Owes(p, r) \/ Stamping(q, r)
  BY OtherProc, Unmoved DEF RInv, TypeOK, Shape, Saving
<1> HIDE DEF q
<1>3. io'[p] = x /\ io'[q] = io[q]
  BY <1>1, <1>2 DEF q
<1>4. /\ hit \subseteq hit'
      /\ \/ due' = due
         \/ /\ io[p].then = "tick"
            /\ \E S \in SUBSET DueIn(c) :
                 due' = due \cup S /\ hit' = hit \cup {r \in S : Stamping("dash", r)}
  <2>1. \/ due' = due /\ hit' = hit
        \/ /\ io[p].then = "tick"
           /\ \E S \in SUBSET DueIn(c) :
                due' = due \cup S /\ hit' = hit \cup {r \in S : Stamping("dash", r)}
    BY AfterEffect
  <2>2. QED
    BY <2>1
\* The new call saves nothing, or the config with the stamp.
<1>5. \/ /\ x.pc \in {"idle", "load"} /\ io[p].then # "stamp"
      \/ /\ x.pc = "open" /\ io[p].then = "stamp" /\ io[p].who \in Routines
         /\ x.then = "stamped" /\ x.who = io[p].who /\ x.data \in Configs
         /\ Agrees(x.data) <=> Agrees(c)
         /\ \A r \in Routines : r # io[p].who => (Fresh(x.data, r) <=> Fresh(c, r))
         /\ Fresh(x.data, io[p].who)
  <2>1. CASE x = Idle /\ io[p].then \in {"none", "stamped", "tick", "form", "click"}
    BY <2>1, IdleType
  <2>2. CASE x = [Idle EXCEPT !.pc = "load"] /\ io[p].then = "reload"
    <3>1. x.pc = "load"
      BY <2>2, IdleType DEF IoType
    <3>2. QED
      BY <2>2, <3>1
  <2>3. CASE /\ io[p].then = "stamp" /\ io[p].who \in Routines
             /\ x = Saves(io[p], Stamped(c, io[p].who), "stamped")
    <3>1. PICK k \in IoType, d \in Configs : k = io[p] /\ d = Stamped(c, io[p].who)
      BY <1>2, <2>3, StampedType
    <3>2. x.pc = "open" /\ x.then = "stamped" /\ x.who = k.who /\ x.data = d
      BY <2>3, <3>1 DEF Saves, IoType
    <3>3. ended[io[p].who] = now
      BY <2>3 DEF RInv, Shape, Stamping
    <3>4. QED
      BY <1>2, <2>3, <3>1, <3>2, <3>3, StampedAgrees
  <2>4. QED
    BY <1>1, <2>1, <2>2, <2>3
<1>6. \A r \in Routines : /\ Stamping(q, r)' <=> Stamping(q, r)
                          /\ Owes(q, r)' <=> Owes(q, r)
                          /\ Owes(p, r) => Stamping(p, r)'
  BY <1>3, <1>5 DEF Stamping, Owes
<1>7. \A r \in Routines : \A d : Fresh(d, r)' <=> Fresh(d, r)
  BY DEF Fresh
<1>8. \A d : Agrees(d)' <=> Agrees(d)
  BY DEF Agrees
<1>9. Saving(q)' <=> Saving(q)
  BY <1>3 DEF Saving
<1>10. RowsAgree'
  <2>1. CASE p = "dash"
    <3>1. Agrees(c) /\ Saving("dash")' => Agrees(io'["dash"].data)
      BY <1>3, <1>5, <2>1 DEF Saving
    <3>2. QED
      BY <1>2, <1>3, <1>8, <1>9, <2>1, <3>1 DEF RowsAgree, Agrees
  <2>2. CASE p = "cron"
    <3>1. QED
      BY <1>2, <1>3, <1>5, <1>8, <1>9, <2>2 DEF RowsAgree, Agrees, Saving
  <2>3. QED
    BY <2>1, <2>2 DEF Procs
<1>11. StampsFresh'
  <2> SUFFICES ASSUME NEW r \in Routines, r \notin hit'
               PROVE  /\ Fresh(file', r) \/ Stamping("cron", r)' \/ Stamping("dash", r)'
                      /\ Saving("dash")' => Fresh(io'["dash"].data, r) \/ Owes("dash", r)' \/ Stamping("cron", r)'
                      /\ Saving("cron")' /\ ~Saving("dash")' =>
                           Fresh(io'["cron"].data, r) \/ Owes("cron", r)' \/ Stamping("dash", r)'
    BY <1>7 DEF StampsFresh, Fresh
  <2>1. r \notin hit /\ (Fresh(c, r) \/ Owes(p, r) \/ Stamping(q, r))
    BY <1>2, <1>4
  <2>2. /\ Saving("dash") => Fresh(io["dash"].data, r) \/ Owes("dash", r) \/ Stamping("cron", r)
        /\ Saving("cron") /\ ~Saving("dash") =>
             Fresh(io["cron"].data, r) \/ Owes("cron", r) \/ Stamping("dash", r)
    BY <1>2, <2>1 DEF StampsFresh
  <2>3. Fresh(file', r) \/ Stamping(p, r)' \/ Stamping(q, r)'
    BY <1>6, <2>1
  \* What p is about to save is true, or q will see to it.
  <2>4. Saving(p)' => io[p].then = "stamp" /\ (Fresh(io'[p].data, r) \/ Stamping(q, r)')
    <3>1. CASE x.pc \in {"idle", "load"} /\ io[p].then # "stamp"
      BY <1>3, <3>1 DEF Saving
    <3>2. CASE /\ x.pc = "open" /\ io[p].then = "stamp" /\ io[p].who \in Routines
               /\ \A s \in Routines : s # io[p].who => (Fresh(x.data, s) <=> Fresh(c, s))
               /\ Fresh(x.data, io[p].who)
      BY <1>3, <1>6, <2>1, <3>2 DEF Owes
    <3>3. QED
      BY <1>5, <3>1, <3>2
  \* p leaves a stamp to be made only by making it now.
  <2>5. Stamping(p, r) /\ io[p].pc = "load" => Owes(p, r) /\ Stamping(p, r)' /\ Saving(p)'
    <3>1. Stamping(p, r) /\ io[p].pc = "load" => Owes(p, r)
      BY <1>2 DEF Stamping, Owes
    <3>2. Owes(p, r) => Saving(p)'
      BY <1>3, <1>5 DEF Owes, Saving
    <3>3. QED
      BY <1>6, <3>1, <3>2
  <2>6. CASE p = "dash" /\ q = "cron"
    <3>1. Saving("cron")' /\ ~Saving("dash")' =>
             Fresh(io'["cron"].data, r) \/ Owes("cron", r)' \/ Stamping("dash", r)'
      BY <1>2, <1>3, <1>6, <1>9, <2>2, <2>5, <2>6
    <3>2. QED
      BY <2>3, <2>4, <2>6, <3>1
  <2>7. CASE p = "cron" /\ q = "dash"
    <3>1. Saving("dash")' => Fresh(io'["dash"].data, r) \/ Owes("dash", r)' \/ Stamping("cron", r)'
      BY <1>2, <1>3, <1>6, <1>9, <2>2, <2>5, <2>7
    <3>2. QED
      BY <2>3, <2>4, <2>7, <3>1
  <2>8. QED
    BY <1>2, <2>6, <2>7 DEF Procs
<1>12. DueRested'
  <2>1. CASE due' = due
    BY <1>2, <1>4, <2>1 DEF DueRested, Rested
  <2>2. CASE /\ io[p].then = "tick"
             /\ \E S \in SUBSET DueIn(c) :
                  due' = due \cup S /\ hit' = hit \cup {r \in S : Stamping("dash", r)}
    <3>1. PICK S \in SUBSET DueIn(c) :
                 due' = due \cup S /\ hit' = hit \cup {r \in S : Stamping("dash", r)}
      BY <2>2
    <3>2. q = "dash"
      BY <1>2, <2>2 DEF RInv, Shape, Procs
    <3>3. ASSUME NEW r \in S, r \notin hit' PROVE Rested(r)
      <4>1. r \in Routines /\ c.rows[r].there /\ (c.rows[r].last = 0 \/ now - c.rows[r].last >= Interval)
        BY <3>1, <3>3 DEF DueIn
      <4>2. r \notin hit /\ ~Stamping("dash", r) /\ ~Owes(p, r)
        BY <2>2, <3>1, <3>3 DEF Owes
      <4>3. Fresh(c, r)
        BY <1>2, <3>2, <4>1, <4>2
      <4>4. Normal(c).rows = c.rows
        BY NormalType
      <4>5. c.rows[r].last = ended[r]
        BY <4>1, <4>3, <4>4 DEF Fresh
      <4>6. QED
        BY <4>1, <4>5 DEF Rested
    <3>4. QED
      BY <1>2, <1>4, <3>1, <3>3 DEF DueRested, Rested
  <2>3. QED
    BY <1>4, <2>1, <2>2
<1>13. QED
  BY <1>10, <1>11, <1>12

LEMMA AfterTmp ==
  ASSUME RInv, NEW p \in Procs, NEW c \in Configs, NEW f \in [Procs -> IoType],
         io[p].pc # "idle", After(p, c, f), f[Other(p)] = io[Other(p)],
         io[Other(p)].pc \in {"open", "write"} => io[Other(p)].to = "tmp",
         io[Other(p)].pc = "write"  => tmp' = [there |-> TRUE, data |-> Garbage],
         io[Other(p)].pc = "rename" => tmp' = [there |-> TRUE, data |-> io[Other(p)].data]
  PROVE  TmpIsOwn'
<1>1. PICK x \in IoType :
        /\ io' = [f EXCEPT ![p] = x]
        /\ \/ x = Idle /\ io[p].then \in {"none", "stamped", "tick", "form", "click"}
           \/ /\ io[p].then = "stamp" /\ io[p].who \in Routines
              /\ x = Saves(io[p], Stamped(c, io[p].who), "stamped")
           \/ x = [Idle EXCEPT !.pc = "load"] /\ io[p].then = "reload"
  BY AfterEffect
<1>2. x.pc \in {"idle", "load", "open"} /\ x.to = "tmp"
  <2>1. CASE x = Idle
    BY <2>1 DEF Idle
  <2>2. CASE x = [Idle EXCEPT !.pc = "load"]
    BY <2>2 DEF Idle
  <2>3. CASE /\ io[p].then = "stamp" /\ io[p].who \in Routines
             /\ x = Saves(io[p], Stamped(c, io[p].who), "stamped")
    <3>1. PICK k, d : k \in IoType /\ k = io[p] /\ d = Stamped(c, io[p].who)
      BY Unmoved DEF RInv
    <3>2. QED
      BY <2>3, <3>1 DEF Saves, IoType
  <2>4. QED
    BY <1>1, <2>1, <2>2, <2>3
<1>3. io'[p] = x /\ io'[Other(p)] = io[Other(p)]
  BY <1>1, OtherProc
<1>4. ASSUME NEW s \in Procs
      PROVE  /\ io'[s].pc \in {"open", "write"} => io'[s].to = "tmp"
             /\ io'[s].pc = "write"  => tmp' = [there |-> TRUE, data |-> Garbage]
             /\ io'[s].pc = "rename" => tmp' = [there |-> TRUE, data |-> io'[s].data]
  <2>1. CASE s = p
    BY <1>2, <1>3, <2>1
  <2>2. CASE s = Other(p)
    BY <1>3, <2>2
  <2>3. QED
    BY <2>1, <2>2, OtherProc
<1>5. QED
  BY <1>4 DEF TmpIsOwn

Safe == TmpIsOwn /\ RowsAgree /\ StampsFresh /\ DueRested

\* A step that leaves the config each process is about to save, what it will do with it,
\* and the file as they are.
LEMMA SameSafe ==
  ASSUME RInv, ~raced, UNCHANGED <<file, ended, wish>>, hit \subseteq hit',
         due' \subseteq due, \A r \in due' : Rested(r) => Rested(r)',
         \A p \in Procs, r \in Routines \ hit' : /\ Stamping(p, r)' <=> Stamping(p, r)
                                                 /\ Owes(p, r)' <=> Owes(p, r),
         \A p \in Procs : (Saving(p)' <=> Saving(p)) /\ (Saving(p) => io'[p].data = io[p].data)
  PROVE  RowsAgree' /\ StampsFresh' /\ DueRested'
<1>1. RowsAgree /\ StampsFresh /\ DueRested
  BY DEF RInv
<1>2. \A r \in Routines : \A d : Fresh(d, r)' <=> Fresh(d, r)
  BY DEF Fresh
<1>3. \A d : Agrees(d)' <=> Agrees(d)
  BY DEF Agrees
<1>4. RowsAgree'
  BY <1>1, <1>3 DEF RowsAgree, Agrees, Procs
<1>5. StampsFresh'
  <2> SUFFICES ASSUME NEW r \in Routines, r \notin hit'
               PROVE  /\ Fresh(file', r) \/ Stamping("cron", r)' \/ Stamping("dash", r)'
                      /\ Saving("dash")' => Fresh(io'["dash"].data, r) \/ Owes("dash", r)' \/ Stamping("cron", r)'
                      /\ Saving("cron")' /\ ~Saving("dash")' =>
                           Fresh(io'["cron"].data, r) \/ Owes("cron", r)' \/ Stamping("dash", r)'
    BY <1>2 DEF StampsFresh, Fresh
  <2>1. /\ Fresh(file, r) \/ Stamping("cron", r) \/ Stamping("dash", r)
        /\ Saving("dash") => Fresh(io["dash"].data, r) \/ Owes("dash", r) \/ Stamping("cron", r)
        /\ Saving("cron") /\ ~Saving("dash") =>
             Fresh(io["cron"].data, r) \/ Owes("cron", r) \/ Stamping("dash", r)
    BY <1>1 DEF StampsFresh
  <2>2. QED
    BY <2>1 DEF Procs
<1>6. DueRested'
  BY <1>1 DEF DueRested
<1>7. QED
  BY <1>4, <1>5, <1>6

LEMMA SameTmp ==
  ASSUME TmpIsOwn, UNCHANGED tmp,
         \A p \in Procs : io'[p] = io[p] \/ io'[p].pc \in {"idle", "load"}
                                         \/ (io'[p].pc = "open" /\ io'[p].to = "tmp")
  PROVE  TmpIsOwn'
<1>1. ASSUME NEW s \in Procs
      PROVE  /\ io'[s].pc \in {"open", "write"} => io'[s].to = "tmp"
             /\ io'[s].pc = "write"  => tmp' = [there |-> TRUE, data |-> Garbage]
             /\ io'[s].pc = "rename" => tmp' = [there |-> TRUE, data |-> io'[s].data]
  BY DEF TmpIsOwn
<1>2. QED
  BY <1>1 DEF TmpIsOwn

LEMMA ReadSafe ==
  ASSUME RInv, ~raced, file.utf8, NEW p \in Procs, Read(p) PROVE Safe'
<1> DEFINE q == Other(p)
<1>1. /\ TypeOK /\ io[p].pc = "load" /\ ~Saving(p) /\ file \in Configs /\ Alike(io)
      /\ TmpIsOwn /\ RowsAgree /\ StampsFresh /\ DueRested /\ io \in [Procs -> IoType]
  BY Unmoved DEF Read, RInv, TypeOK, Saving
<1>2. UNCHANGED <<file, tmp, now, wish, ended>>
  BY DEF Read
<1>3. /\ q \in Procs /\ q # p /\ \A s \in Procs : s = p \/ s = q
      /\ p = "dash" => q = "cron"
      /\ p = "cron" => q = "dash"
  BY OtherProc
<1>4. /\ ~(p = "cron" /\ Saving("dash")) => Agrees(file)
      /\ \A r \in Routines \ hit : Fresh(file, r) \/ Owes(p, r) \/ Stamping(q, r)
  <2>1. ~(p = "cron" /\ Saving("dash")) => Agrees(file)
    BY <1>1 DEF RowsAgree, Procs
  <2>2. \A r \in Routines : Stamping(p, r) => Owes(p, r)
    BY <1>1 DEF RInv, Shape, Stamping, Owes
  <2>3. QED
    BY <1>1, <1>3, <2>1, <2>2 DEF StampsFresh, Procs
<1> HIDE DEF q
<1>5. CASE file.utf8 /\ NeedsSave(file)
  <2>1. /\ io'[p].pc = "open" /\ io'[p].data = Normal(file) /\ io'[p].to = "tmp"
        /\ io'[p].then = io[p].then /\ io'[p].who = io[p].who
        /\ \A s \in Procs : s # p => io'[s] = io[s]
        /\ UNCHANGED <<due, hit>>
    BY <1>5, ReadCall
  <2>2. /\ Agrees(file) => Agrees(Normal(file))
        /\ \A r \in Routines : Fresh(file, r) => Fresh(Normal(file), r)
    BY <1>1, NormalType, AgreesRows
  <2>3. \A r \in Routines : \A d : Fresh(d, r)' <=> Fresh(d, r)
    BY <1>2 DEF Fresh
  <2>4. \A d : Agrees(d)' <=> Agrees(d)
    BY <1>2 DEF Agrees
  <2>5. TmpIsOwn'
    <3>1. \A s \in Procs : io'[s] = io[s] \/ (io'[s].pc = "open" /\ io'[s].to = "tmp")
      BY <2>1
    <3>2. QED
      BY <1>1, <1>2, <3>1, SameTmp
  <2>6. /\ io'[q] = io[q] /\ Saving(p)' /\ (Saving(q)' <=> Saving(q))
        /\ \A r \in Routines, s \in Procs : /\ Stamping(s, r)' <=> Stamping(s, r)
                                            /\ Owes(s, r)' <=> Owes(s, r)
    BY <1>3, <2>1 DEF Saving, Stamping, Owes
  <2>7. RowsAgree'
    <3>1. CASE p = "dash"
      BY <1>1, <1>2, <1>4, <2>1, <2>2, <2>4, <2>6, <3>1 DEF RowsAgree, Agrees
    <3>2. CASE p = "cron"
      BY <1>1, <1>2, <1>3, <1>4, <2>1, <2>2, <2>4, <2>6, <3>2 DEF RowsAgree, Agrees
    <3>3. QED
      BY <3>1, <3>2 DEF Procs
  <2>8. StampsFresh'
    <3> SUFFICES ASSUME NEW r \in Routines, r \notin hit'
                 PROVE  /\ Fresh(file', r) \/ Stamping("cron", r)' \/ Stamping("dash", r)'
                        /\ Saving("dash")' => Fresh(io'["dash"].data, r) \/ Owes("dash", r)' \/ Stamping("cron", r)'
                        /\ Saving("cron")' /\ ~Saving("dash")' =>
                             Fresh(io'["cron"].data, r) \/ Owes("cron", r)' \/ Stamping("dash", r)'
      BY <2>3 DEF StampsFresh, Fresh
    <3>1. /\ Fresh(file, r) \/ Stamping("cron", r) \/ Stamping("dash", r)
          /\ Saving("dash") => Fresh(io["dash"].data, r) \/ Owes("dash", r) \/ Stamping("cron", r)
          /\ Saving("cron") /\ ~Saving("dash") =>
               Fresh(io["cron"].data, r) \/ Owes("cron", r) \/ Stamping("dash", r)
          /\ Fresh(io'[p].data, r) \/ Owes(p, r) \/ Stamping(q, r)
      BY <1>1, <1>4, <2>1, <2>2 DEF StampsFresh
    <3>2. CASE p = "dash"
      BY <1>2, <1>3, <2>1, <2>6, <3>1, <3>2 DEF Procs
    <3>3. CASE p = "cron"
      BY <1>2, <1>3, <2>1, <2>6, <3>1, <3>3 DEF Procs
    <3>4. QED
      BY <3>2, <3>3 DEF Procs
  <2>9. DueRested'
    BY <1>1, <1>2, <2>1 DEF DueRested, Rested
  <2>10. QED
    BY <2>5, <2>7, <2>8, <2>9 DEF Safe
<1>6. CASE file.utf8 /\ ~NeedsSave(file)
  <2>1. After(p, file, io) /\ ~file.legacy
    BY <1>1, <1>6, NormalType DEF Read, NeedsSave
  <2>2. RowsAgree' /\ StampsFresh' /\ DueRested'
    BY <1>1, <1>2, <1>4, <2>1, AfterSafe DEF q
  <2>3. TmpIsOwn'
    BY <1>1, <1>2, <1>3, <2>1, AfterTmp DEF q, TmpIsOwn
  <2>4. QED
    BY <2>2, <2>3 DEF Safe
<1>7. QED
  BY <1>5, <1>6

LEMMA OpenSafe ==
  ASSUME RInv, ~raced, NEW p \in Procs, Open(p), ~raced' PROVE Safe'
<1>1. /\ io[p].pc = "open" /\ tmp' = [there |-> TRUE, data |-> Garbage] /\ ~Overlaps(p)
      /\ UNCHANGED <<file, due, now, wish, ended, hit>> /\ TmpIsOwn
  BY DEF Open, runVars, RInv
<1>2. /\ io'[p].pc = "write" /\ io'[p].data = io[p].data /\ io'[p].to = io[p].to
      /\ io'[p].then = io[p].then /\ io'[p].who = io[p].who
      /\ \A s \in Procs : s # p => io'[s] = io[s] /\ s = Other(p)
  BY OpenType, OtherProc
<1>3. RowsAgree' /\ StampsFresh' /\ DueRested'
  <2>1. \A s \in Procs : /\ Saving(s)' <=> Saving(s)
                         /\ io'[s].data = io[s].data
                         /\ \A r \in Routines : /\ Stamping(s, r)' <=> Stamping(s, r)
                                                /\ Owes(s, r)' <=> Owes(s, r)
    BY <1>1, <1>2 DEF Saving, Stamping, Owes
  <2>2. \A r \in due' : Rested(r) => Rested(r)'
    BY <1>1 DEF Rested
  <2>3. QED
    BY <1>1, <2>1, <2>2, SameSafe
<1>4. ASSUME NEW s \in Procs
      PROVE  /\ io'[s].pc \in {"open", "write"} => io'[s].to = "tmp"
             /\ io'[s].pc = "write"  => tmp' = [there |-> TRUE, data |-> Garbage]
             /\ io'[s].pc = "rename" => tmp' = [there |-> TRUE, data |-> io'[s].data]
  BY <1>1, <1>2 DEF TmpIsOwn, Overlaps
<1>5. QED
  BY <1>3, <1>4 DEF Safe, TmpIsOwn

LEMMA WriteSafe ==
  ASSUME RInv, ~raced, NEW p \in Procs, Write(p), ~raced' PROVE Safe'
<1>1. /\ io[p].pc = "write" /\ ~Overlaps(p)
      /\ UNCHANGED <<due, now, wish, ended, hit>> /\ TmpIsOwn
  BY DEF Write, runVars, RInv
<1>2. /\ io'[p].pc = "rename" /\ io'[p].data = io[p].data
      /\ io'[p].then = io[p].then /\ io'[p].who = io[p].who
      /\ \A s \in Procs : s # p => io'[s] = io[s] /\ s = Other(p)
  BY WriteType, OtherProc
<1>3. io[p].to = "tmp" /\ tmp.data = Garbage
  BY <1>1 DEF TmpIsOwn
<1>4. /\ tmp' \in [there : {TRUE}, data : Over(io[p].data, tmp.data)] /\ UNCHANGED file
  BY <1>3 DEF Write
<1>5. tmp' = [there |-> TRUE, data |-> io[p].data]
  BY <1>3, <1>4 DEF Over
<1>6. RowsAgree' /\ StampsFresh' /\ DueRested'
  <2>1. \A s \in Procs : /\ Saving(s)' <=> Saving(s)
                         /\ io'[s].data = io[s].data
                         /\ \A r \in Routines : /\ Stamping(s, r)' <=> Stamping(s, r)
                                                /\ Owes(s, r)' <=> Owes(s, r)
    BY <1>1, <1>2 DEF Saving, Stamping, Owes
  <2>2. \A r \in due' : Rested(r) => Rested(r)'
    BY <1>1 DEF Rested
  <2>3. QED
    BY <1>1, <1>4, <2>1, <2>2, SameSafe
<1>7. ASSUME NEW s \in Procs
      PROVE  /\ io'[s].pc \in {"open", "write"} => io'[s].to = "tmp"
             /\ io'[s].pc = "write"  => tmp' = [there |-> TRUE, data |-> Garbage]
             /\ io'[s].pc = "rename" => tmp' = [there |-> TRUE, data |-> io'[s].data]
  BY <1>1, <1>2, <1>5 DEF Overlaps
<1>8. QED
  BY <1>6, <1>7 DEF Safe, TmpIsOwn

LEMMA RenameSafe ==
  ASSUME RInv, ~raced, NEW p \in Procs, Rename(p), ~raced' PROVE Safe'
<1> DEFINE q == Other(p)
<1>1. /\ TypeOK /\ io[p].pc = "rename" /\ ~Overlaps(p) /\ TmpIsOwn /\ RowsAgree /\ StampsFresh
      /\ UNCHANGED <<now, wish, ended>> /\ ~io[p].data.legacy /\ io[p].data \in Configs
  BY Unmoved DEF Rename, RInv, Shape, Saving, IoType
<1>2. tmp.there /\ tmp.data = io[p].data
  BY <1>1 DEF TmpIsOwn
<1>3. /\ q \in Procs /\ q # p /\ \A s \in Procs : s = p \/ s = q
      /\ p = "dash" => q = "cron"
      /\ p = "cron" => q = "dash"
      /\ io[q].pc \notin {"open", "write", "rename"} /\ ~Saving(q) /\ Saving(p)
  BY <1>1, OtherProc DEF Overlaps, Saving
<1>4. Moved(p, io) \in [Procs -> IoType] /\ Alike(Moved(p, io)) /\ Moved(p, io)[q] = io[q]
  BY <1>1, <1>3, MovedAlike DEF Alike
<1>5. file' = io[p].data /\ After(p, io[p].data, Moved(p, io))
  BY <1>2 DEF Rename
<1>6. Agrees(io[p].data)
  BY <1>1, <1>3 DEF RowsAgree, Procs
<1>7. \A r \in Routines \ hit : Fresh(io[p].data, r) \/ Owes(p, r) \/ Stamping(q, r)
  BY <1>1, <1>3 DEF StampsFresh, Procs
<1>8. RowsAgree' /\ StampsFresh' /\ DueRested'
  <2>1. PICK c \in Configs, f \in [Procs -> IoType] : c = io[p].data /\ f = Moved(p, io)
    BY <1>1, <1>4
  <2>2. /\ After(p, c, f) /\ file' = c /\ ~c.legacy /\ Alike(f) /\ f[q] = io[q]
        /\ \A r \in Routines \ hit : Fresh(c, r) \/ Owes(p, r) \/ Stamping(q, r)
        /\ ~(p = "cron" /\ Saving("dash")) => Agrees(c)
    BY <1>1, <1>4, <1>5, <1>6, <1>7, <2>1
  <2>3. QED
    BY <1>1, <1>3, <2>2, AfterSafe
<1>9. TmpIsOwn'
  BY <1>1, <1>3, <1>4, <1>5, AfterTmp
<1>10. QED
  BY <1>8, <1>9 DEF Safe

LEMMA ClickSafe ==
  ASSUME RInv, ~raced,
         \/ \E r \in Routines : RunNow(r)
         \/ Tick
         \/ GetConfig
  PROVE  Safe'
<1>1. PICK p \in Procs, x \in IoType :
              /\ io[p].pc = "idle" /\ x.pc = "load" /\ x.then \in {"click", "tick", "form"}
              /\ io'[p] = x /\ \A q \in Procs : q # p => io'[q] = io[q]
  BY ClickType
<1>2. UNCHANGED <<file, tmp, due, now, wish, ended, hit>> /\ TmpIsOwn /\ io[p] = Idle
  BY <1>1, ClickType DEF runVars, histVars, RInv, Shape
<1>3. \A s \in Procs : /\ Saving(s)' <=> Saving(s)
                       /\ Saving(s) => io'[s].data = io[s].data
                       /\ \A r \in Routines : /\ Stamping(s, r)' <=> Stamping(s, r)
                                              /\ Owes(s, r)' <=> Owes(s, r)
  BY <1>1, <1>2, IdleType DEF Saving, Stamping, Owes
<1>4. \A r \in due' : Rested(r) => Rested(r)'
  BY <1>2 DEF Rested
<1>5. RowsAgree' /\ StampsFresh' /\ DueRested'
  BY <1>2, <1>3, <1>4, SameSafe
<1>6. TmpIsOwn'
  <2>1. \A s \in Procs : io'[s] = io[s] \/ io'[s].pc \in {"idle", "load"}
    BY <1>1
  <2>2. QED
    BY <1>2, <2>1, SameTmp
<1>7. QED
  BY <1>5, <1>6 DEF Safe

LEMMA RunEndsSafe ==
  ASSUME RInv, ~raced, NEW p \in Procs, NEW r \in Routines, RunEnds(p, r) PROVE Safe'
<1>1. PICK x \in IoType :
              /\ io[p].pc = "idle" /\ x.pc = "load" /\ x.then = "stamp" /\ x.who = r
              /\ io'[p] = x /\ \A q \in Procs : q # p => io'[q] = io[q]
  BY RunEndsType
<1>2. /\ UNCHANGED <<file, tmp, due, now, wish>> /\ TypeOK
      /\ TmpIsOwn /\ RowsAgree /\ StampsFresh /\ DueRested /\ io[p] = Idle
      /\ hit' = hit \cup ({r} \cap due) /\ ended' = [ended EXCEPT ![r] = now]
  BY <1>1, RunEndsType DEF RunEnds, RInv, Shape
<1>3. /\ \A s \in Routines : s # r => ended'[s] = ended[s]
      /\ hit \subseteq hit' /\ (r \in due => r \in hit')
  BY <1>2 DEF TypeOK
<1>4. \A s \in Procs : /\ Saving(s)' <=> Saving(s)
                       /\ Saving(s) => io'[s].data = io[s].data /\ s # p
  BY <1>1, <1>2 DEF Saving, Idle
<1>5. \A s \in Procs : \A t \in Routines \ {r} : /\ Stamping(s, t)' <=> Stamping(s, t)
                                                 /\ Owes(s, t)' <=> Owes(s, t)
  BY <1>1, <1>2 DEF Stamping, Owes, Idle
<1>6. Stamping(p, r)'
  BY <1>1 DEF Stamping
<1>7. TmpIsOwn'
  <2>1. \A s \in Procs : io'[s] = io[s] \/ io'[s].pc \in {"idle", "load"}
    BY <1>1
  <2>2. QED
    BY <1>2, <2>1, SameTmp
<1>8. RowsAgree'
  BY <1>2, <1>4 DEF RowsAgree, Agrees, Procs
<1>9. StampsFresh'
  <2> SUFFICES ASSUME NEW t \in Routines, t \notin hit'
               PROVE  /\ Fresh(file, t)' \/ Stamping("cron", t)' \/ Stamping("dash", t)'
                      /\ Saving("dash")' => Fresh(io["dash"].data, t)' \/ Owes("dash", t)' \/ Stamping("cron", t)'
                      /\ Saving("cron")' /\ ~Saving("dash")' =>
                           Fresh(io["cron"].data, t)' \/ Owes("cron", t)' \/ Stamping("dash", t)'
    BY DEF StampsFresh
  <2>1. CASE t = r
    BY <1>4, <1>6, <2>1 DEF Procs
  <2>2. CASE t # r
    <3>1. /\ Fresh(file, t) \/ Stamping("cron", t) \/ Stamping("dash", t)
          /\ Saving("dash") => Fresh(io["dash"].data, t) \/ Owes("dash", t) \/ Stamping("cron", t)
          /\ Saving("cron") /\ ~Saving("dash") =>
               Fresh(io["cron"].data, t) \/ Owes("cron", t) \/ Stamping("dash", t)
      BY <1>2, <1>3 DEF StampsFresh
    <3>2. /\ Fresh(file, t) => Fresh(file, t)'
          /\ \A s \in Procs : Saving(s) /\ Fresh(io[s].data, t) => Fresh(io[s].data, t)'
      BY <1>2, <1>3, <1>4, <2>2 DEF Fresh
    <3>3. QED
      BY <1>4, <1>5, <2>2, <3>1, <3>2 DEF Procs
  <2>3. QED
    BY <2>1, <2>2
<1>10. DueRested'
  <2>1. ASSUME NEW t \in due, t \notin hit' PROVE Rested(t)'
    <3>1. t # r /\ t \notin hit /\ t \in Routines
      BY <1>2, <1>3, <2>1 DEF TypeOK
    <3>2. QED
      BY <1>2, <1>3, <2>1, <3>1 DEF DueRested, Rested
  <2>2. QED
    BY <1>2, <2>1 DEF DueRested
<1>11. QED
  BY <1>7, <1>8, <1>9, <1>10 DEF Safe

LEMMA PutSafe == ASSUME RInv, ~raced, Put PROVE Safe'
<1>1. PICK asked \in [Routines -> {"none", "off", "on"}], c \in Configs, x \in IoType :
              /\ c.rows = PutRows(asked) /\ ~c.legacy
              /\ x.pc = "open" /\ x.data = c /\ x.to = "tmp" /\ x.then = "reload" /\ x.who = None
              /\ io'["dash"] = x /\ io'["cron"] = io["cron"]
              /\ wish' = [wish EXCEPT !.rows = asked]
              /\ hit' = hit \cup {r \in Routines : c.rows[r].last # ended[r]}
  BY PutType
<1>2. /\ io["dash"].pc = "idle" /\ io["dash"] = Idle
      /\ UNCHANGED <<file, tmp, due, now, ended>> /\ TypeOK
      /\ TmpIsOwn /\ StampsFresh /\ DueRested
  BY PutType DEF RInv, Shape, Procs
<1>3. Normal(c).rows = PutRows(asked)
  BY <1>1, NormalType
<1>4. wish'.rows = asked
  BY <1>1, <1>2 DEF TypeOK
<1>5. Asked(Normal(c)) = asked
  <2>1. ASSUME NEW r \in Routines PROVE Asked(Normal(c))[r] = asked[r]
    <3>1. Asked(Normal(c))[r] = IF ~PutRows(asked)[r].there THEN "none"
                                ELSE IF PutRows(asked)[r].active THEN "on" ELSE "off"
      BY <1>3 DEF Asked
    <3>2. CASE asked[r] = "none"
      BY <3>1, <3>2 DEF PutRows, NoRow
    <3>3. CASE asked[r] = "on"
      BY <3>1, <3>3 DEF PutRows
    <3>4. CASE asked[r] = "off"
      BY <3>1, <3>4 DEF PutRows
    <3>5. QED
      BY <3>2, <3>3, <3>4
  <2>2. QED
    BY <2>1 DEF Asked
<1>6. Saving("dash")'
  BY <1>1 DEF Saving
<1>7. RowsAgree'
  BY <1>1, <1>4, <1>5, <1>6 DEF RowsAgree, Agrees
<1>8. StampsFresh'
  <2> SUFFICES ASSUME NEW t \in Routines, t \notin hit'
               PROVE  /\ Fresh(file, t)' \/ Stamping("cron", t)' \/ Stamping("dash", t)'
                      /\ Fresh(io["dash"].data, t)'
    BY <1>6 DEF StampsFresh
  <2>1. t \notin hit /\ c.rows[t].last = ended[t]
    BY <1>1
  <2>2. Fresh(io["dash"].data, t)'
    BY <1>1, <1>2, <1>3, <2>1 DEF Fresh
  <2>3. Fresh(file, t) \/ Stamping("cron", t) \/ Stamping("dash", t)
    BY <1>2, <2>1 DEF StampsFresh
  <2>4. ~Stamping("dash", t)
    BY <1>2 DEF Stamping, Idle
  <2>5. /\ Stamping("cron", t)' <=> Stamping("cron", t)
        /\ Fresh(file, t)' <=> Fresh(file, t)
    BY <1>1, <1>2 DEF Stamping, Fresh
  <2>6. QED
    BY <2>2, <2>3, <2>4, <2>5
<1>9. DueRested'
  BY <1>1, <1>2 DEF DueRested, Rested
<1>10. TmpIsOwn'
  <2>1. \A s \in Procs : io'[s] = io[s] \/ (io'[s].pc = "open" /\ io'[s].to = "tmp")
    BY <1>1 DEF Procs
  <2>2. QED
    BY <1>2, <2>1, SameTmp
<1>11. QED
  BY <1>7, <1>8, <1>9, <1>10 DEF Safe

LEMMA EditSafe == ASSUME RInv, ~raced, EditByHand, ~raced' PROVE Safe'
<1>1. /\ \A q \in Procs : /\ io'[q].pc = io[q].pc /\ io'[q].data = io[q].data
                          /\ io'[q].then = io[q].then /\ io'[q].who = io[q].who
                          /\ ~Overlaps(q)
      /\ \/ /\ file'.rows = file.rows /\ file'.legacy = file.legacy /\ wish'.rows = wish.rows
         \/ file'.legacy /\ wish'.rows = [r \in Routines |-> "none"]
      /\ UNCHANGED <<tmp, due, now, ended, hit>>
  BY EditType
<1>2. /\ TypeOK /\ TypeOK' /\ RowsAgree /\ StampsFresh /\ DueRested
      /\ file \in Configs /\ file' \in Configs
  BY EditType DEF RInv, TypeOK
<1>3. \A q \in Procs : io[q].pc \notin {"open", "write", "rename"} /\ ~Saving(q) /\ ~Saving(q)'
  BY <1>1 DEF Overlaps, Procs, Other, Saving
<1>4. TmpIsOwn'
  BY <1>1, <1>3 DEF TmpIsOwn
<1>5. Agrees(file) /\ "dash" \in Procs /\ "cron" \in Procs
  BY <1>2, <1>3 DEF RowsAgree, Procs
<1>6. /\ Normal(file).rows = (IF file.legacy THEN NoRows ELSE file.rows)
      /\ Normal(file').rows = (IF file'.legacy THEN NoRows ELSE file'.rows)
  BY <1>2, NormalType
<1>7. CASE file'.rows = file.rows /\ file'.legacy = file.legacy /\ wish'.rows = wish.rows
  <2>1. Normal(file').rows = Normal(file).rows
    BY <1>6, <1>7
  <2>2. Agrees(file)'
    BY <1>5, <1>7, <2>1 DEF Agrees, Asked
  <2>3. \A r \in Routines : (Fresh(file, r)' <=> Fresh(file, r))
                            /\ \A q \in Procs : Stamping(q, r)' <=> Stamping(q, r)
    BY <1>1, <2>1 DEF Fresh, Stamping
  <2>4. QED
    BY <1>1, <1>2, <1>3, <1>4, <1>5, <2>2, <2>3 DEF Safe, RowsAgree, StampsFresh, DueRested, Rested
<1>8. CASE file'.legacy /\ wish'.rows = [r \in Routines |-> "none"]
  <2>1. \A r \in Routines : ~Normal(file').rows[r].there
    BY <1>6, <1>8, GarbageType
  <2>2. Agrees(file)'
    BY <1>8, <2>1 DEF Agrees, Asked
  <2>3. \A r \in Routines : Fresh(file, r)'
    BY <2>1 DEF Fresh
  <2>4. QED
    BY <1>1, <1>2, <1>3, <1>4, <1>5, <2>2, <2>3 DEF Safe, RowsAgree, StampsFresh, DueRested, Rested
<1>9. QED
  BY <1>1, <1>7, <1>8

LEMMA ClockSafe == ASSUME RInv, ~raced, Clock PROVE Safe'
<1>1. /\ \A p \in Procs : io[p] = Idle
      /\ UNCHANGED <<file, tmp, io, due, wish, ended, hit>> /\ now' = now + 1
      /\ TypeOK /\ TmpIsOwn
  BY ClockType DEF RInv
<1>2. \A r \in due' : Rested(r) => Rested(r)'
  <2>1. ASSUME NEW r \in due, Rested(r) PROVE Rested(r)'
    <3>1. ended[r] \in Nat /\ now \in Nat /\ Interval \in Nat
      BY <1>1, RoutinesAssumption DEF TypeOK
    <3>2. QED
      BY <1>1, <2>1, <3>1 DEF Rested
  <2>2. QED
    BY <1>1, <2>1
<1>3. RowsAgree' /\ StampsFresh' /\ DueRested'
  <2>1. \A s \in Procs : /\ Saving(s)' <=> Saving(s)
                         /\ io'[s].data = io[s].data
                         /\ \A r \in Routines : /\ Stamping(s, r)' <=> Stamping(s, r)
                                                /\ Owes(s, r)' <=> Owes(s, r)
    BY <1>1 DEF Saving, Stamping, Owes
  <2>2. QED
    BY <1>1, <1>2, <2>1, SameSafe
<1>4. QED
  BY <1>1, <1>3 DEF Safe, TmpIsOwn

LEMMA ProcessSafe ==
  ASSUME RInv, ~raced, (\E r \in Routines : Start(r)) \/ CronStarts PROVE Safe'
<1>1. /\ UNCHANGED <<file, tmp, io, now, wish, ended, hit>> /\ due' \subseteq due /\ TmpIsOwn
  BY DEF Start, CronStarts, fileVars, histVars, RInv
<1>2. \A r \in due' : Rested(r) => Rested(r)'
  BY <1>1 DEF Rested
<1>3. \A s \in Procs : /\ Saving(s)' <=> Saving(s)
                       /\ io'[s].data = io[s].data
                       /\ \A r \in Routines : /\ Stamping(s, r)' <=> Stamping(s, r)
                                              /\ Owes(s, r)' <=> Owes(s, r)
  BY <1>1 DEF Saving, Stamping, Owes
<1>4. QED
  BY <1>1, <1>2, <1>3, SameSafe DEF Safe, TmpIsOwn

LEMMA KilledSafe == ASSUME RInv, ~raced, CronKilled PROVE Safe'
<1>1. /\ io'["cron"] = Idle /\ io'["dash"] = io["dash"]
      /\ UNCHANGED <<file, tmp, now, wish, ended>> /\ due' = {}
      /\ hit' = hit \cup {r \in Routines : live[r].cron > 0 \/ io["cron"].who = r}
      /\ TmpIsOwn /\ RowsAgree /\ StampsFresh
  BY KilledType DEF CronKilled, RInv
<1>2. ~Saving("cron")' /\ (Saving("dash")' <=> Saving("dash"))
  BY <1>1 DEF Saving, Idle
<1>3. TmpIsOwn'
  <2>1. \A s \in Procs : io'[s] = io[s] \/ io'[s].pc \in {"idle", "load"}
    BY <1>1, IdleType DEF Procs
  <2>2. QED
    BY <1>1, <2>1, SameTmp
<1>4. RowsAgree'
  BY <1>1, <1>2 DEF RowsAgree, Agrees
<1>5. StampsFresh'
  <2> SUFFICES ASSUME NEW t \in Routines, t \notin hit'
               PROVE  /\ Fresh(file, t)' \/ Stamping("cron", t)' \/ Stamping("dash", t)'
                      /\ Saving("dash")' => Fresh(io["dash"].data, t)' \/ Owes("dash", t)' \/ Stamping("cron", t)'
    BY <1>2 DEF StampsFresh
  <2>1. t \notin hit /\ io["cron"].who # t
    BY <1>1
  <2>2. /\ Fresh(file, t) \/ Stamping("cron", t) \/ Stamping("dash", t)
        /\ Saving("dash") => Fresh(io["dash"].data, t) \/ Owes("dash", t) \/ Stamping("cron", t)
    BY <1>1, <2>1 DEF StampsFresh
  <2>3. /\ ~Stamping("cron", t)
        /\ Stamping("dash", t)' <=> Stamping("dash", t)
        /\ Owes("dash", t)' <=> Owes("dash", t)
        /\ Fresh(file, t)' <=> Fresh(file, t)
        /\ Fresh(io["dash"].data, t)' <=> Fresh(io["dash"].data, t)
    BY <1>1, <2>1 DEF Stamping, Owes, Fresh
  <2>4. QED
    BY <1>2, <2>2, <2>3
<1>6. QED
  BY <1>1, <1>3, <1>4, <1>5 DEF Safe, DueRested

-----------------------------------------------------------------------------
(* The theorems. *)

LEMMA InitRInv == Init => RInv
<1> SUFFICES ASSUME Init PROVE RInv
  OBVIOUS
<1> DEFINE some == [r \in Routines |-> [there |-> TRUE, active |-> TRUE, last |-> 0]]
<1>1. /\ Garbage \in Configs /\ Garbage.rows = NoRows /\ NoRows \in Rows /\ some \in Rows
      /\ \A r \in Routines : ~NoRows[r].there /\ some[r].last = 0
  BY GarbageType, RoutinesAssumption DEF Rows
<1>2. /\ file \in Configs
      /\ \A r \in Routines : file.rows[r].there => file.rows[r].last = 0
  <2>1. CASE file = Garbage
    BY <1>1, <2>1
  <2>2. CASE \E s \in {"active", "paused"} :
               file = [utf8 |-> TRUE, ok |-> TRUE, mode |-> "loop", sweeps |-> s, legacy |-> FALSE, rows |-> some]
    BY <1>1, <2>2 DEF Configs, Modes, Sweeps
  <2>3. QED
    BY <2>1, <2>2 DEF Init
<1>3. /\ Normal(file) \in Configs
      /\ \A r \in Routines : Normal(file).rows[r].there => Normal(file).rows[r].last = 0
  BY <1>1, <1>2, NormalType
<1>4. /\ \A p \in Procs : io[p] = Idle
      /\ io \in [Procs -> IoType]
  BY IdleType DEF Init
<1>5. wish \in [mode : Modes, sweeps : Sweeps, rows : [Routines -> {"none", "off", "on"}]]
  <2>1. Asked(file) \in [Routines -> {"none", "off", "on"}]
    BY DEF Asked
  <2>2. Normal(file).mode \in Modes /\ Normal(file).sweeps \in Sweeps
    BY <1>3 DEF Configs
  <2>3. QED
    BY <2>1, <2>2 DEF Init
<1>6. TypeOK
  <2>1. /\ tmp \in [there : BOOLEAN, data : Configs] /\ form \in [open : BOOLEAN, rows : Rows]
        /\ live \in [Routines -> [cron : Nat, dash : 0..1]]
        /\ ended \in [Routines -> 0..MaxNow]
        /\ now \in 1..MaxNow /\ edits \in 0..MaxEdits /\ kills \in 0..MaxKills
    BY <1>1, RoutinesAssumption DEF Init
  <2>2. up /\ due = {} /\ hit = {} /\ raced = FALSE
    BY DEF Init
  <2>3. QED
    BY <1>2, <1>4, <1>5, <2>1, <2>2, IdleType DEF TypeOK, IoType
<1>7. Shape
  BY <1>4, IdleType DEF Shape, Saving, Stamping, Procs
<1>9. TmpIsOwn /\ DueRested
  BY <1>4, IdleType DEF TmpIsOwn, DueRested, Init
<1>10. Agrees(file)
  <2>1. wish.rows = Asked(file)
    BY DEF Init
  <2>2. ~file.legacy
    BY DEF Init, Garbage
  <2>3. Normal(file).rows = file.rows
    BY <1>2, <2>2, NormalType
  <2>4. QED
    BY <2>1, <2>3 DEF Agrees, Asked
<1>11. RowsAgree /\ StampsFresh
  <2>1. ~Saving("dash") /\ ~Saving("cron")
    BY <1>4, IdleType DEF Saving, Procs
  <2>2. \A r \in Routines : Fresh(file, r)
    BY <1>3 DEF Fresh, Init
  <2>3. QED
    BY <1>10, <2>1, <2>2 DEF RowsAgree, StampsFresh
<1>12. QED
  BY <1>6, <1>7, <1>9, <1>11 DEF RInv

\* One step, by action.
LEMMA NextRInv == RInv /\ Whole /\ [Next]_vars => RInv'
<1> SUFFICES ASSUME RInv, Whole, [Next]_vars PROVE RInv'
  OBVIOUS
<1>1. raced \in BOOLEAN
  BY DEF RInv, TypeOK
<1>2. ASSUME NEW p \in Procs, Read(p) PROVE RInv'
  <2>1. raced' = raced
    BY <1>2 DEF Read
  <2>2. QED
    BY <1>2, <2>1, ReadType, ReadSafe DEF RInv, Safe, Whole
<1>3. ASSUME NEW p \in Procs, Open(p) PROVE RInv'
  <2>1. raced => raced'
    BY <1>1, <1>3 DEF Open
  <2>2. QED
    BY <1>3, <2>1, OpenType, OpenSafe DEF RInv, Safe
<1>4. ASSUME NEW p \in Procs, Write(p) PROVE RInv'
  <2>1. raced => raced'
    BY <1>1, <1>4 DEF Write
  <2>2. QED
    BY <1>4, <2>1, WriteType, WriteSafe DEF RInv, Safe
<1>5. ASSUME NEW p \in Procs, Rename(p) PROVE RInv'
  <2>1. raced => raced'
    BY <1>1, <1>5 DEF Rename
  <2>2. QED
    BY <1>5, <2>1, RenameType, RenameSafe DEF RInv, Safe
<1>6. ASSUME NEW p \in Procs, NEW r \in Routines, RunEnds(p, r) PROVE RInv'
  <2>1. raced' = raced
    BY <1>6 DEF RunEnds
  <2>2. QED
    BY <1>6, <2>1, RunEndsType, RunEndsSafe DEF RInv, Safe
<1>7. CASE (\E r \in Routines : RunNow(r)) \/ Tick \/ GetConfig
  <2>1. raced' = raced
    BY <1>7, ClickType DEF histVars
  <2>2. QED
    BY <1>7, <2>1, ClickType, ClickSafe DEF RInv, Safe
<1>8. ASSUME NEW r \in Routines, Start(r) PROVE RInv'
  <2>1. raced' = raced
    BY <1>8 DEF Start, histVars
  <2>2. QED
    BY <1>8, <2>1, StartType, ProcessSafe DEF RInv, Safe
<1>9. CASE Put
  <2>1. raced' = raced
    BY <1>9, PutType
  <2>2. QED
    BY <1>9, <2>1, PutType, PutSafe DEF RInv, Safe
<1>10. CASE EditByHand
  <2>1. raced => raced'
    BY <1>1, <1>10 DEF EditByHand
  <2>2. QED
    BY <1>10, <2>1, EditType, EditSafe DEF RInv, Safe
<1>11. CASE Clock
  <2>1. raced' = raced
    BY <1>11, ClockType
  <2>2. QED
    BY <1>11, <2>1, ClockType, ClockSafe DEF RInv, Safe
<1>12. CASE CronKilled
  <2>1. raced' = raced
    BY <1>12 DEF CronKilled
  <2>2. QED
    BY <1>12, <2>1, KilledType, KilledSafe DEF RInv, Safe
<1>13. CASE CronStarts
  <2>1. raced' = raced
    BY <1>13 DEF CronStarts, histVars
  <2>2. QED
    BY <1>13, <2>1, StartsType, ProcessSafe DEF RInv, Safe
<1>14. CASE UNCHANGED vars
  BY <1>14 DEF RInv, TypeOK, Shape, TmpIsOwn, RowsAgree, StampsFresh, DueRested, Agrees,
     Fresh, Owes, Stamping, Saving, Rested, vars, fileVars, runVars, histVars
<1>15. QED
  BY <1>2, <1>3, <1>4, <1>5, <1>6, <1>7, <1>8, <1>9, <1>10, <1>11, <1>12, <1>13, <1>14
     DEF Next, FileStep

\* What load_config has made of a file can be saved and read again, with a stamp or without.
LEMMA ParsesType ==
  ASSUME NEW c \in Configs
  PROVE  /\ Normal(c).utf8 /\ Normal(c).ok
         /\ \A r : Stamped(c, r).utf8 = c.utf8 /\ Stamped(c, r).ok = c.ok
BY DEF Normal, Stamped, Configs

\* What follows a load or a save of c saves nothing that does not parse.
LEMMA AfterWhole ==
  ASSUME RInv, Whole, NEW p \in Procs, NEW c \in Configs, NEW f \in [Procs -> IoType], Alike(f),
         io[p].pc # "idle", After(p, c, f), c.utf8, c.ok
  PROVE  \A q \in Procs : Saving(q)' => io'[q].data.utf8 /\ io'[q].data.ok
<1>1. PICK x \in IoType :
        /\ io' = [f EXCEPT ![p] = x]
        /\ \/ x = Idle /\ io[p].then \in {"none", "stamped", "tick", "form", "click"}
           \/ /\ io[p].then = "stamp" /\ io[p].who \in Routines
              /\ x = Saves(io[p], Stamped(c, io[p].who), "stamped")
           \/ x = [Idle EXCEPT !.pc = "load"] /\ io[p].then = "reload"
  BY AfterEffect
<1>2. x.pc \in {"open", "write", "rename"} => x.data.utf8 /\ x.data.ok
  <2>1. CASE x = Idle \/ x = [Idle EXCEPT !.pc = "load"]
    BY <2>1 DEF Idle
  <2>2. CASE x = Saves(io[p], Stamped(c, io[p].who), "stamped")
    <3>1. PICK k \in IoType, d \in {Stamped(c, io[p].who)} : k = io[p]
      BY DEF RInv, TypeOK, IoType
    <3>2. d.utf8 /\ d.ok
      BY <3>1, ParsesType
    <3>3. x.data = d
      BY <2>2, <3>1 DEF Saves, IoType
    <3>4. QED
      BY <3>2, <3>3
  <2>3. QED
    BY <1>1, <2>1, <2>2
<1>3. \A q \in Procs : q # p => io'[q].pc = io[q].pc /\ io'[q].data = io[q].data
  BY <1>1 DEF Alike
<1>4. io'[p] = x
  BY <1>1
<1>5. QED
  BY <1>2, <1>3, <1>4 DEF Whole, Saving

LEMMA NextWhole == RInv /\ Whole /\ [Next]_vars => Whole'
<1> SUFFICES ASSUME RInv, Whole, [Next]_vars PROVE Whole'
  OBVIOUS
<1>1. /\ TypeOK /\ io \in [Procs -> IoType] /\ Alike(io) /\ file \in Configs
      /\ raced \in BOOLEAN
  BY Unmoved DEF RInv, TypeOK
<1> DEFINE Parse == \A q \in Procs : Saving(q)' => io'[q].data.utf8 /\ io'[q].data.ok
<1>2. ASSUME NEW p \in Procs, Read(p) PROVE Whole'
  <2>1. io[p].pc # "idle" /\ UNCHANGED <<file, raced>>
    BY <1>2 DEF Read
  <2>2. CASE file.utf8 /\ NeedsSave(file)
    BY <1>1, <1>2, <2>1, <2>2, ReadCall, ParsesType DEF Whole, Saving
  <2>3. CASE file.utf8 /\ ~NeedsSave(file)
    <3>1. After(p, file, io) /\ file.ok
      BY <1>1, <1>2, <2>3, ParsesType DEF Read, NeedsSave
    <3>2. QED
      BY <1>1, <2>1, <2>3, <3>1, AfterWhole DEF Whole
  <2>4. CASE ~file.utf8
    <3>1. io' = [io EXCEPT ![p] = Idle]
      BY <1>2, <2>4 DEF Read
    <3>2. QED
      BY <1>1, <2>1, <3>1, IdleType DEF Whole, Saving
  <2>5. QED
    BY <2>2, <2>3, <2>4
<1>3. ASSUME NEW p \in Procs, Open(p) PROVE Whole'
  <2>1. io[p].pc = "open" /\ UNCHANGED file /\ (raced => raced')
    BY <1>1, <1>3 DEF Open
  <2>2. QED
    BY <1>3, <2>1, OpenType DEF Whole, Saving
<1>4. ASSUME NEW p \in Procs, Write(p) PROVE Whole'
  <2>1. io[p].pc = "write" /\ (raced => raced')
    BY <1>1, <1>4 DEF Write
  <2>2. ~raced' => file' = file
    BY <1>4, <2>1 DEF Write, RInv, TmpIsOwn
  <2>3. QED
    BY <1>4, <2>1, <2>2, WriteType DEF Whole, Saving
<1>5. ASSUME NEW p \in Procs, Rename(p) PROVE Whole'
  <2>1. io[p].pc = "rename" /\ (raced => raced')
    BY <1>1, <1>5 DEF Rename
  <2>2. io[p].data \in Configs /\ io[p].data.utf8 /\ io[p].data.ok
    BY <1>1, <2>1 DEF Whole, Saving, IoType
  <2>3. CASE tmp.there
    <3>1. file' = tmp.data /\ After(p, io[p].data, Moved(p, io))
      BY <1>5, <2>3 DEF Rename
    <3>2. PICK c \in Configs, f \in [Procs -> IoType] :
            c = io[p].data /\ f = Moved(p, io) /\ Alike(f)
      BY <1>1, <2>2, MovedAlike
    <3>3. Parse
      BY <2>1, <2>2, <3>1, <3>2, AfterWhole
    <3>4. ~raced' => file' = io[p].data
      BY <2>1, <3>1 DEF RInv, TmpIsOwn
    <3>5. QED
      BY <2>2, <3>3, <3>4 DEF Whole
  <2>4. CASE ~tmp.there
    <3>1. io' = [io EXCEPT ![p] = Idle] /\ UNCHANGED file
      BY <1>5, <2>4 DEF Rename
    <3>2. QED
      BY <1>1, <2>1, <3>1, IdleType DEF Whole, Saving
  <2>5. QED
    BY <2>3, <2>4
<1>6. ASSUME NEW p \in Procs, NEW r \in Routines, RunEnds(p, r) PROVE Whole'
  <2>1. PICK x \in IoType : x.pc = "load" /\ io'[p] = x /\ \A q \in Procs : q # p => io'[q] = io[q]
    BY <1>1, <1>6, BeginEffect DEF RunEnds
  <2>2. UNCHANGED <<file, raced>>
    BY <1>6 DEF RunEnds, Begin
  <2>3. QED
    BY <2>1, <2>2 DEF Whole, Saving
<1>7. ASSUME NEW p \in Procs, NEW r \in Routines \cup {None}, NEW then \in {"tick", "form", "click"},
             Begin(p, then, r), UNCHANGED histVars
      PROVE  Whole'
  <2>1. PICK x \in IoType : x.pc = "load" /\ io'[p] = x /\ \A q \in Procs : q # p => io'[q] = io[q]
    BY <1>1, <1>7, BeginEffect
  <2>2. UNCHANGED <<file, raced>>
    BY <1>7 DEF Begin, histVars
  <2>3. QED
    BY <2>1, <2>2 DEF Whole, Saving
<1>8. CASE (\E r \in Routines : RunNow(r)) \/ Tick \/ GetConfig
  BY <1>7, <1>8 DEF RunNow, Tick, GetConfig, Procs
<1>9. CASE (\E r \in Routines : Start(r)) \/ Clock \/ CronStarts \/ UNCHANGED vars
  BY <1>9 DEF Start, Clock, CronStarts, Whole, Saving, vars, fileVars, histVars
<1>10. CASE Put
  <2>1. /\ io'["dash"].data.utf8 /\ io'["dash"].data.ok
        /\ io'["cron"] = io["cron"] /\ UNCHANGED <<file, raced>>
    BY <1>1, <1>10, PutType
  <2>2. QED
    BY <2>1 DEF Whole, Saving, Procs
<1>11. CASE EditByHand
  <2>1. file'.utf8 = file.utf8 /\ (raced => raced')
    BY <1>1, <1>11 DEF EditByHand, Configs
  <2>2. \A q \in Procs : io'[q].pc = io[q].pc /\ io'[q].data = io[q].data
    BY <1>1, <1>11 DEF EditByHand, IoType
  <2>3. QED
    BY <2>1, <2>2 DEF Whole, Saving
<1>12. CASE CronKilled
  <2>1. io' = [io EXCEPT !["cron"] = Idle] /\ UNCHANGED <<file, raced>>
    BY <1>12 DEF CronKilled
  <2>2. QED
    BY <1>1, <2>1, IdleType DEF Whole, Saving
<1>13. QED
  BY <1>2, <1>3, <1>4, <1>5, <1>6, <1>8, <1>9, <1>10, <1>11, <1>12 DEF Next, FileStep

LEMMA InitWhole == Init => Whole
BY IdleType DEF Init, Whole, Saving, Garbage

IInv == RInv /\ Whole

\* The invariant of the routines' file: as long as no two writers overlapped, what the file
\* holds or is about to hold parses, is what the operator asked for and what the runs stamped.
THEOREM RoutinesInvariant == Spec => []IInv
<1>1. Init => IInv
  BY InitRInv, InitWhole DEF IInv
<1>2. IInv /\ [Next]_vars => IInv'
  BY NextRInv, NextWhole DEF IInv
<1>3. QED
  BY <1>1, <1>2, PTL DEF Spec

\* Files, handles, tasks and history have their types, and a process that is down does
\* nothing (TypeOK).
THEOREM RoutinesTypeCorrect == Spec => []TypeOK
<1>1. IInv => TypeOK
  BY DEF IInv, RInv
<1>2. QED
  BY <1>1, RoutinesInvariant, PTL

\* At rest, and unless two writers overlapped, the rows of the file are the ones the
\* operator asked for (load_config, save_config, upsert_routines, update_routine_after_run).
THEOREM RowsAreAsked == Spec => []RowsAsAsked
<1>1. IInv => RowsAsAsked
  <2> SUFFICES ASSUME RInv, Rest PROVE Agrees(file)
    BY DEF IInv, RowsAsAsked, Agrees
  <2>1. ~Saving("dash")
    BY DEF Rest, Saving, Procs
  <2>2. QED
    BY <2>1 DEF RInv, Rest, RowsAgree
<1>2. QED
  BY <1>1, RoutinesInvariant, PTL

\* ... and their stamps say when the last runs ended.
THEOREM StampsAreTrue == Spec => []StampTrue
<1>1. IInv => StampTrue
  <2> SUFFICES ASSUME RInv, Rest, NEW r \in Routines, r \notin hit PROVE Fresh(file, r)
    BY DEF IInv, StampTrue, Fresh
  <2>1. ~Stamping("cron", r) /\ ~Stamping("dash", r)
    BY IdleType DEF Rest, RInv, Shape, Stamping, Procs
  <2>2. QED
    BY <2>1 DEF RInv, Rest, StampsFresh
<1>2. QED
  BY <1>1, RoutinesInvariant, PTL

\* The scheduler starts a routine only when its interval has passed since its last run.
THEOREM StartsAreRested == Spec => NotTooOften
<1> DEFINE Step == \A r \in Routines :
                     live'[r].cron > live[r].cron /\ r \notin hit /\ ~raced =>
                       ended[r] = 0 \/ now - ended[r] >= Interval
<1>1. IInv /\ [Next]_vars => [Step]_vars
  <2> SUFFICES ASSUME RInv, Whole, Next, NEW r \in Routines, live'[r].cron > live[r].cron,
                      r \notin hit, ~raced
               PROVE  Rested(r)
    BY DEF IInv, Rested
  <2>1. /\ live \in [Routines -> [cron : Nat, dash : 0..1]] /\ TypeOK
        /\ live' \in [Routines -> [cron : Nat, dash : 0..1]]
    BY NextRInv DEF RInv, TypeOK
  <2> DEFINE before == live[r].cron
             after  == live'[r].cron
  <2>1a. before \in Nat /\ after \in Nat /\ after > before /\ after # before
    BY <2>1
  <2>2. ASSUME NEW p \in Procs, FileStep(p) PROVE live'[r].cron = live[r].cron
    <3>1. /\ io[p].data \in Configs /\ file \in Configs
          /\ Moved(p, io) \in [Procs -> IoType] /\ io \in [Procs -> IoType]
      BY <2>1, Unmoved, MovedAlike DEF TypeOK, IoType
    <3>2. CASE UNCHANGED live
      BY <3>2
    <3>3. CASE io[p].pc # "idle" /\ After(p, file, io)
      BY <3>1, <3>3, AfterEffect
    <3>4. CASE io[p].pc # "idle" /\ After(p, io[p].data, Moved(p, io))
      <4>1. PICK c \in Configs, f \in [Procs -> IoType] : c = io[p].data /\ f = Moved(p, io)
        BY <3>1
      <4>2. After(p, c, f)
        BY <3>4, <4>1
      <4>3. QED
        BY <3>4, <4>2, AfterEffect
    <3>5. QED
      BY <2>2, <3>2, <3>3, <3>4 DEF FileStep, Read, Open, Write, Rename, runVars
  <2>3. ASSUME NEW p \in Procs, NEW s \in Routines, RunEnds(p, s)
        PROVE  live'[r].cron <= live[r].cron
    <3> DEFINE k == [live[s] EXCEPT ![p] = live[s][p] - 1]
    <3>0. k.cron <= live[s].cron
      BY <2>1 DEF Procs
    <3>1. PICK l : l = k /\ l.cron <= live[s].cron
      BY <3>0
    <3>2. live' = [live EXCEPT ![s] = l]
      BY <2>1, <2>3, <3>1 DEF RunEnds
    <3>3. QED
      BY <2>1, <3>1, <3>2
  <2>4. ~CronKilled
    <3>1. CronKilled => after = 0
      BY <2>1 DEF CronKilled
    <3>2. QED
      BY <2>1a, <3>1
  <2>5. ASSUME NEW s \in Routines, Start(s) PROVE r = s \/ live'[r].cron = live[r].cron
    BY <2>1, <2>5 DEF Start
  <2>6. (\E s \in Routines : RunNow(s)) \/ Tick \/ GetConfig \/ Put \/ EditByHand \/ Clock
          \/ CronStarts => live' = live
    BY DEF RunNow, Tick, GetConfig, Put, EditByHand, Clock, CronStarts, runVars
  <2>7. r \in due => Rested(r)
    BY DEF RInv, DueRested
  <2>8. QED
    <3>1. \A s \in Routines : Start(s) => Rested(r)
      BY <2>5, <2>7, <2>1a DEF Start
    <3>2. \A p \in Procs : ~FileStep(p)
      BY <2>2, <2>1a
    <3>3. \A p \in Procs, s \in Routines : ~RunEnds(p, s)
      BY <2>3, <2>1a
    <3>4. ~CronKilled
      BY <2>4
    <3>5. live' # live
      BY <2>1a
    <3>6. QED
      BY <2>6, <3>1, <3>2, <3>3, <3>4, <3>5 DEF Next
<1>2. QED
  BY <1>1, RoutinesInvariant, PTL DEF Spec, NotTooOften

\* Unless two writers overlap, a file that parses stays one, kills in the middle of a save
\* included (_atomic_write_json).
THEOREM SavesAreWhole == Spec => SavesWhole
<1>1. IInv /\ [Next]_vars => [file.ok => file'.ok \/ raced']_vars
  <2> SUFFICES ASSUME RInv, Whole, Next, file.ok, ~raced' PROVE file'.ok
    BY DEF IInv
  <2>1. TypeOK /\ raced \in BOOLEAN /\ file \in Configs /\ io \in [Procs -> IoType]
    BY Unmoved DEF RInv, TypeOK
  <2>2. ASSUME NEW p \in Procs, Write(p) PROVE file' = file
    BY <2>1, <2>2 DEF Write, RInv, TmpIsOwn
  <2>3. ASSUME NEW p \in Procs, Rename(p) PROVE file'.ok
    <3>1. io[p].pc = "rename" /\ ~raced
      BY <2>1, <2>3 DEF Rename
    <3>2. tmp = [there |-> TRUE, data |-> io[p].data]
      BY <3>1 DEF RInv, TmpIsOwn
    <3>3. file' = io[p].data
      BY <2>3, <3>2 DEF Rename
    <3>4. QED
      BY <3>1, <3>3 DEF Whole, Saving
  <2>4. EditByHand => file'.ok
    BY <2>1 DEF EditByHand, Configs
  <2>5. ASSUME NEW p \in Procs, FileStep(p) PROVE file'.ok
    BY <2>2, <2>3, <2>5 DEF FileStep, Read, Open
  <2>6. ASSUME NEW p \in Procs, NEW r \in Routines, RunEnds(p, r) PROVE file' = file
    BY <2>6 DEF RunEnds, Begin
  <2>7. (\E r \in Routines : RunNow(r) \/ Start(r)) \/ Tick \/ GetConfig \/ Put \/ Clock
          \/ CronKilled \/ CronStarts => file' = file
    BY DEF RunNow, Start, Tick, GetConfig, Put, Clock, CronKilled, CronStarts, Begin, fileVars
  <2>8. QED
    BY <2>4, <2>5, <2>6, <2>7 DEF Next
<1>2. QED
  BY <1>1, RoutinesInvariant, PTL DEF Spec, SavesWhole
=============================================================================
