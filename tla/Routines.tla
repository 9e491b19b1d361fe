-------------------------------- MODULE Routines --------------------------------
(***************************************************************************)
(* The custom ("loop") routines: the cron process ticks, starts the        *)
(* routines that are due and stamps them when they end; the dashboard      *)
(* process saves the Configure form and runs a routine at a click; the     *)
(* operator edits dashboard_routines.json by hand.  Each process is one    *)
(* event loop, so its calls do not interleave with each other, but both    *)
(* load and save the whole file, through ONE temporary name, and every     *)
(* load may save what it normalised.                                       *)
(*                                                                         *)
(* A config keeps what the operator can lose: the mode, whether the sweeps *)
(* are active, the rows with their flag and stamp, and whether a row is    *)
(* legacy.  `wish', `ended', `hit' and `raced' are history: what the       *)
(* operator asked for, when a routine's last run ended, the routines whose *)
(* stamp was not to be relied on, and whether two writers overlapped.      *)
(***************************************************************************)
EXTENDS Integers

CONSTANTS Routines, None,
          Interval,  \* interval_minutes, in steps of the clock
          MaxNow,    \* bound: the clock
          MaxEdits,  \* bound: forms put and edits by hand
          MaxKills   \* bound: how often the cron process is killed

ASSUME RoutinesAssumption ==
  /\ None \notin Routines
  /\ Interval \in Nat \ {0} /\ MaxNow \in Nat \ {0} /\ MaxEdits \in Nat /\ MaxKills \in Nat

VARIABLES file, tmp,     \* dashboard_routines.json and .json.tmp
          io,            \* what each process is doing with them
          up, due, live, \* cron: running, tasks not begun; the claude processes
          form,          \* the rows the Configure form shows
          now, edits, kills,
          wish, ended, hit, raced

fileVars == <<file, tmp, io>>
runVars  == <<up, due, live, form>>
histVars == <<wish, ended, hit, raced>>
vars     == <<fileVars, runVars, now, edits, kills, histVars>>

Procs == {"cron", "dash"}
Other(p) == IF p = "cron" THEN "dash" ELSE "cron"

NoRow  == [there |-> FALSE, active |-> FALSE, last |-> 0]
NoRows == [r \in Routines |-> NoRow]

Rows    == [Routines -> [there : BOOLEAN, active : BOOLEAN, last : 0..MaxNow]]
Modes   == {"loop", "per_prospect", "none"}
Sweeps  == {"active", "paused", "none"}
Configs == [utf8 : BOOLEAN, ok : BOOLEAN, mode : Modes, sweeps : Sweeps, legacy : BOOLEAN, rows : Rows]

\* Missing, empty or not JSON.
Garbage == [utf8 |-> TRUE, ok |-> FALSE, mode |-> "none", sweeps |-> "none", legacy |-> FALSE,
            rows |-> NoRows]

\* A character of a name or of an error message cut in two: not UTF-8 at all.
Undecodable == [Garbage EXCEPT !.utf8 = FALSE]

Idle == [pc |-> "idle", data |-> Garbage, to |-> "tmp", then |-> "none", who |-> None]

TypeOK ==
  /\ file \in Configs
  /\ tmp \in [there : BOOLEAN, data : Configs]
  /\ io \in [Procs -> [pc : {"idle", "load", "open", "write", "rename"}, data : Configs,
                       to : {"tmp", "file", "lost"},
                       then : {"none", "tick", "form", "click", "stamp", "stamped", "reload"},
                       who : Routines \cup {None}]]
  /\ \A p \in Procs : io[p].then \in {"click", "stamp", "stamped"} => io[p].who \in Routines
  /\ up \in BOOLEAN /\ due \in SUBSET Routines
  /\ live \in [Routines -> [cron : Nat, dash : 0..1]]
  /\ form \in [open : BOOLEAN, rows : Rows]
  /\ now \in 1..MaxNow /\ edits \in 0..MaxEdits /\ kills \in 0..MaxKills
  /\ wish \in [mode : Modes, sweeps : Sweeps, rows : [Routines -> {"none", "off", "on"}]]
  /\ ended \in [Routines -> 0..MaxNow]
  /\ hit \in SUBSET Routines /\ raced \in BOOLEAN
  /\ ~up => io["cron"] = Idle /\ due = {} /\ \A r \in Routines : live[r].cron = 0

-----------------------------------------------------------------------------
(* load_config, save_config. *)

\* Mutant: a block that is missing takes the rows with it.
NormalForgetful(c) ==
  [utf8 |-> TRUE, ok |-> TRUE, legacy |-> FALSE,
   mode   |-> IF c.mode = "none" THEN "per_prospect" ELSE c.mode,
   sweeps |-> IF c.sweeps = "none" THEN "active" ELSE c.sweeps,
   rows   |-> IF c.legacy \/ c.sweeps = "none" THEN NoRows ELSE c.rows]

\* Defaults for what is missing; one legacy row and there are no rows.
Normal(c) ==
  [utf8 |-> TRUE, ok |-> TRUE, legacy |-> FALSE,
   mode   |-> IF c.mode = "none" THEN "per_prospect" ELSE c.mode,
   sweeps |-> IF c.sweeps = "none" THEN "active" ELSE c.sweeps,
   rows   |-> IF c.legacy THEN NoRows ELSE c.rows]

\* Mutant: a file that is there is not written again unless it parses.
NeedsSaveIfRead(c) == c.ok /\ c # Normal(c)

NeedsSave(c) == c # Normal(c)

Saves(k, c, then) == [k EXCEPT !.pc = "open", !.data = c, !.to = "tmp", !.then = then]

\* Mutant: the interval is compared with one unit to spare.
DueInEarly(c) ==
  IF c.mode # "loop" THEN {}
  ELSE {r \in Routines : /\ c.rows[r].there /\ c.rows[r].active
                         /\ c.rows[r].last = 0 \/ now - c.rows[r].last >= Interval - 1}

\* The rows a tick finds due, were all windows open.
DueIn(c) ==
  IF c.mode # "loop" THEN {}
  ELSE {r \in Routines : /\ c.rows[r].there /\ c.rows[r].active
                         /\ c.rows[r].last = 0 \/ now - c.rows[r].last >= Interval}

\* Mutant: the id is compared with the name, and no row is stamped.
StampedNone(c, r) == c

\* update_routine_after_run; a row that has gone stays gone.
Stamped(c, r) ==
  IF c.rows[r].there THEN [c EXCEPT !.rows[r].last = now] ELSE c

Stamping(p, r) == io[p].then \in {"stamp", "stamped"} /\ io[p].who = r

\* What the process does with the config it has loaded, f being what the files' handles
\* have become.
After(p, c, f) ==
  LET k       == io[p]
      Goes(x) == io' = [f EXCEPT ![p] = x]
  IN \/ /\ k.then \in {"none", "stamped"} /\ Goes(Idle)
        /\ UNCHANGED <<due, live, form, hit>>
     \/ /\ k.then = "tick" /\ Goes(Idle)
        /\ \E S \in SUBSET DueIn(c) :
             /\ due' = due \cup S
             /\ hit' = hit \cup {r \in S : Stamping("dash", r)}
        /\ UNCHANGED <<live, form>>
     \/ /\ k.then = "form" /\ Goes(Idle)
        /\ form' = [open |-> TRUE, rows |-> c.rows]
        /\ UNCHANGED <<due, live, hit>>
     \/ /\ k.then = "click" /\ Goes(Idle)
        /\ live' = IF c.rows[k.who].there THEN [live EXCEPT ![k.who].dash = 1] ELSE live
        /\ UNCHANGED <<due, form, hit>>
     \/ /\ k.then = "stamp" /\ Goes(Saves(k, Stamped(c, k.who), "stamped"))
        /\ UNCHANGED <<due, live, form, hit>>
     \/ /\ k.then = "reload" /\ Goes([Idle EXCEPT !.pc = "load"])
        /\ UNCHANGED <<due, live, form, hit>>

\* Another writer has read the file and not saved it yet.
Overlaps(p) == io[Other(p)].pc \in {"open", "write", "rename"}

\* _read_json makes do with a file that is no JSON.  One it cannot decode fails the call.
Read(p) ==
  /\ io[p].pc = "load"
  /\ \/ /\ ~file.utf8
        /\ io' = [io EXCEPT ![p] = Idle]
        /\ UNCHANGED <<due, live, form, hit>>
     \/ /\ file.utf8 /\ NeedsSave(file)
        /\ io' = [io EXCEPT ![p] = Saves(@, Normal(file), @.then)]
        /\ UNCHANGED <<due, live, form, hit>>
     \/ /\ file.utf8 /\ ~NeedsSave(file)
        /\ After(p, file, io)
  /\ UNCHANGED <<file, tmp, up, now, edits, kills, wish, ended, raced>>

\* Mutant: what a killed writer left in the temporary file is not truncated.
OpenInPlace(p) ==
  /\ io[p].pc = "open"
  /\ tmp' = [there |-> TRUE, data |-> IF tmp.there THEN tmp.data ELSE Garbage]
  /\ io' = [io EXCEPT ![p].pc = "write"]
  /\ raced' = (raced \/ Overlaps(p))
  /\ UNCHANGED <<file, runVars, now, edits, kills, wish, ended, hit>>

Open(p) ==
  /\ io[p].pc = "open"
  /\ tmp' = [there |-> TRUE, data |-> Garbage]
  /\ io' = [io EXCEPT ![p].pc = "write"]
  /\ raced' = (raced \/ Overlaps(p))
  /\ UNCHANGED <<file, runVars, now, edits, kills, wish, ended, hit>>

\* Over what the other process wrote to the same file, from its first byte.
Over(c, old) == IF old \in {Garbage, c} THEN {c} ELSE {c, Garbage, Undecodable}

Write(p) ==
  LET c == io[p].data
  IN /\ io[p].pc = "write"
     /\ io' = [io EXCEPT ![p].pc = "rename"]
     /\ \/ io[p].to = "tmp"  /\ tmp' \in [there : {TRUE}, data : Over(c, tmp.data)] /\ UNCHANGED file
        \/ io[p].to = "file" /\ file' \in Over(c, file) /\ UNCHANGED tmp
        \/ io[p].to = "lost" /\ UNCHANGED <<file, tmp>>
  /\ raced' = (raced \/ Overlaps(p))
  /\ UNCHANGED <<runVars, now, edits, kills, wish, ended, hit>>

\* After the rename of another process a handle on the temporary file is one on the file.
Moved(p, f) ==
  LET q == Other(p)
  IN [f EXCEPT ![q].to = IF f[q].pc # "write" THEN @ ELSE IF @ = "tmp" THEN "file" ELSE "lost"]

\* Without its temporary file the call fails: a tick is logged, a stamp is not made.
Rename(p) ==
  /\ io[p].pc = "rename"
  /\ IF tmp.there
       THEN /\ file' = tmp.data /\ tmp' = [there |-> FALSE, data |-> Garbage]
            /\ After(p, io[p].data, Moved(p, io))
       ELSE /\ io' = [io EXCEPT ![p] = Idle]
            /\ UNCHANGED <<file, tmp, due, live, form, hit>>
  /\ raced' = (raced \/ Overlaps(p))
  /\ UNCHANGED <<up, now, edits, kills, wish, ended>>

-----------------------------------------------------------------------------
(* The operations that begin with a load. *)

Begin(p, then, r) ==
  /\ io[p].pc = "idle"
  /\ io' = [io EXCEPT ![p] = [Idle EXCEPT !.pc = "load", !.then = then, !.who = r]]
  /\ UNCHANGED <<file, tmp>>

Tick == /\ up /\ Begin("cron", "tick", None)
        /\ UNCHANGED <<runVars, now, edits, kills, histVars>>

\* As long as the form can still be put.
GetConfig == /\ edits < MaxEdits /\ Begin("dash", "form", None)
             /\ UNCHANGED <<runVars, now, edits, kills, histVars>>

\* It asks for none of the scheduler's locks.
RunNow(r) == /\ live[r].dash = 0 /\ Begin("dash", "click", r)
             /\ UNCHANGED <<runVars, now, edits, kills, histVars>>

RunEnds(p, r) ==
  /\ live[r][p] > 0
  /\ Begin(p, "stamp", r)
  /\ live' = [live EXCEPT ![r][p] = @ - 1]
  /\ ended' = [ended EXCEPT ![r] = now]
  /\ hit' = hit \cup ({r} \cap due)
  /\ UNCHANGED <<up, due, form, now, edits, kills, wish, raced>>

\* _run_one, in a task of its own.
Start(r) ==
  /\ up /\ io["cron"].pc = "idle" /\ r \in due
  /\ due' = due \ {r}
  /\ live' = IF live[r].cron > 0 THEN live ELSE [live EXCEPT ![r].cron = @ + 1]
  /\ UNCHANGED <<fileVars, up, form, now, edits, kills, histVars>>

-----------------------------------------------------------------------------
(* The operator, the clock, and the end of the cron process. *)

Edit == edits < MaxEdits /\ edits' = edits + 1

\* upsert_routines saves the rows and nothing else, and loads the file again.  A stamp is
\* the one the form was shown.
Put ==
  /\ Edit /\ form.open /\ io["dash"].pc = "idle"
  /\ \E asked \in [Routines -> {"none", "off", "on"}] :
       LET rows == [r \in Routines |-> IF asked[r] = "none" THEN NoRow
                      ELSE [there |-> TRUE, active |-> asked[r] = "on",
                            last |-> form.rows[r].last]]
       IN /\ io' = [io EXCEPT !["dash"] =
                      Saves(Idle, [Garbage EXCEPT !.ok = TRUE, !.rows = rows], "reload")]
          /\ wish' = [wish EXCEPT !.rows = asked]
          /\ hit' = hit \cup {r \in Routines : rows[r].last # ended[r]}
  /\ form' = [open |-> FALSE, rows |-> NoRows]
  /\ UNCHANGED <<file, tmp, up, due, live, now, kills, ended, raced>>

\* The mode or the sweeps are set in the file, or a row of an old dashboard is put there.
EditByHand ==
  /\ Edit /\ file.ok
  /\ \/ \E m \in Modes \ {"none"} :
          /\ file' = [file EXCEPT !.mode = m] /\ wish' = [wish EXCEPT !.mode = m]
     \/ \E s \in Sweeps \ {"none"} :
          /\ file' = [file EXCEPT !.sweeps = s] /\ wish' = [wish EXCEPT !.sweeps = s]
     \/ /\ file' = [file EXCEPT !.legacy = TRUE]
        /\ wish' = [wish EXCEPT !.rows = [r \in Routines |-> "none"]]
  /\ io' = [p \in Procs |-> IF io[p].pc = "write" /\ io[p].to = "file"
                              THEN [io[p] EXCEPT !.to = "lost"] ELSE io[p]]
  /\ raced' = (raced \/ \E p \in Procs : Overlaps(p))
  /\ UNCHANGED <<tmp, runVars, now, kills, ended, hit>>

\* A call is over within a unit of the clock.
Clock == /\ now < MaxNow /\ now' = now + 1
         /\ \A p \in Procs : io[p].pc = "idle"
         /\ UNCHANGED <<fileVars, runVars, edits, kills, histVars>>

\* Mutant: the tasks that have not begun survive.
CronKilledLate ==
  /\ up /\ kills < MaxKills
  /\ up' = FALSE /\ kills' = kills + 1
  /\ io' = [io EXCEPT !["cron"] = Idle]
  /\ due' = due
  /\ live' = [r \in Routines |-> [live[r] EXCEPT !.cron = 0]]
  /\ hit' = hit \cup {r \in Routines : live[r].cron > 0 \/ io["cron"].who = r}
  /\ UNCHANGED <<file, tmp, form, now, edits, wish, ended, raced>>

\* Its locks and tasks are gone; of the claude processes it started, which go on, nothing
\* is known any more.
CronKilled ==
  /\ up /\ kills < MaxKills
  /\ up' = FALSE /\ kills' = kills + 1
  /\ io' = [io EXCEPT !["cron"] = Idle]
  /\ due' = {}
  /\ live' = [r \in Routines |-> [live[r] EXCEPT !.cron = 0]]
  /\ hit' = hit \cup {r \in Routines : live[r].cron > 0 \/ io["cron"].who = r}
  /\ UNCHANGED <<file, tmp, form, now, edits, wish, ended, raced>>

CronStarts == /\ ~up /\ up' = TRUE
              /\ UNCHANGED <<fileVars, due, live, form, now, edits, kills, histVars>>

-----------------------------------------------------------------------------

Asked(c) == [r \in Routines |-> IF ~c.rows[r].there THEN "none"
                                ELSE IF c.rows[r].active THEN "on" ELSE "off"]

\* A file with some of the rows, none run yet, or no file.
Init ==
  /\ file \in {Garbage} \cup
       {[utf8 |-> TRUE, ok |-> TRUE, mode |-> "loop", sweeps |-> s, legacy |-> FALSE,
         rows |-> [r \in Routines |-> [there |-> TRUE, active |-> TRUE, last |-> 0]]] :
          s \in {"active", "paused"}}
  /\ tmp = [there |-> FALSE, data |-> Garbage]
  /\ io = [p \in Procs |-> Idle]
  /\ up = TRUE /\ due = {}
  /\ live = [r \in Routines |-> [cron |-> 0, dash |-> 0]]
  /\ form = [open |-> FALSE, rows |-> NoRows]
  /\ now = 1 /\ edits = 0 /\ kills = 0
  /\ wish = [mode |-> Normal(file).mode, sweeps |-> Normal(file).sweeps, rows |-> Asked(file)]
  /\ ended = [r \in Routines |-> 0] /\ hit = {} /\ raced = FALSE

FileStep(p) == Read(p) \/ Open(p) \/ Write(p) \/ Rename(p)

Next ==
  \/ \E p \in Procs : FileStep(p) \/ \E r \in Routines : RunEnds(p, r)
  \/ \E r \in Routines : RunNow(r) \/ Start(r)
  \/ Tick \/ GetConfig \/ Put \/ EditByHand \/ Clock \/ CronKilled \/ CronStarts

\* The event loops run, and the scheduler ticks.
Fairness == /\ \A p \in Procs : WF_vars(FileStep(p))
            /\ WF_vars(Tick)

Spec == Init /\ [][Next]_vars /\ Fairness

-----------------------------------------------------------------------------
(* Properties. *)

Rest == ~raced /\ \A p \in Procs : io[p].pc = "idle"

\* As long as no two writers overlap, the rows and their flags are what the operator last
\* asked for, whatever was stamped, normalised or reloaded since.
RowsAsAsked == Rest => Asked(Normal(file)) = wish.rows

\* ... and a row says when its last run ended, unless it was put with the stamp of an
\* older form or the cron process was killed with the run.
StampTrue ==
  Rest => \A r \in Routines \ hit :
            Normal(file).rows[r].there => Normal(file).rows[r].last = ended[r]

\* A save that is cut short by a kill ruins nothing: as long as no two writers overlap, a
\* file that parses is replaced by one that parses, whatever a killed writer left of its own.
SavesWhole == [][file.ok => file'.ok \/ raced']_vars

\* The scheduler starts a routine only when its interval has passed since its last run
\* ended, unless writers overlapped, the stamp was an old form's, or the tick looked
\* while that run was being recorded.
NotTooOften ==
  [][\A r \in Routines :
       live'[r].cron > live[r].cron /\ r \notin hit /\ ~raced =>
         ended[r] = 0 \/ now - ended[r] >= Interval]_vars

\* A sweep the operator has paused stays paused ("or pause one by setting `active:
\* false`").
PausedStaysPaused == Rest /\ wish.sweeps = "paused" => Normal(file).sweeps = "paused"

\* A file that is missing, or that two writers made no JSON of, parses again as long as the
\* cron process runs, unless it is no UTF-8 either: that no load repairs, and every tick
\* fails until the operator edits the file or puts a form that was open before.
Recovers == (~file.ok /\ file.utf8) ~> (file.ok \/ ~file.utf8 \/ ~up)
=============================================================================
