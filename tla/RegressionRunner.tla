---------------------------- MODULE RegressionRunner ----------------------------
(***************************************************************************)
(* testing/web/regression_runner.py: the dashboard's single slot for a     *)
(* pytest run.  start() and stop() are called from worker threads of the   *)
(* dashboard, each run has a reader thread of its own, and all of them     *)
(* write the one RegressionState under one lock.  stop() lets the lock go  *)
(* while it waits for the process to die, and a reader takes it only after *)
(* its process is gone: by then the slot may be another run's.             *)
(***************************************************************************)
EXTENDS Naturals, FiniteSets

CONSTANTS Stoppers,  \* threads that call stop()
          MaxRuns    \* bound: runs that are started

ASSUME MaxRunsAssumption == MaxRuns \in Nat

VARIABLES
  status,     \* state.status
  started,    \* runs started so far; the latest one owns the state object
  current,    \* _proc: the latest run that got a process (0: none)
  proc,       \* what became of the process of each run
  reader,     \* the reader thread of each run
  stopping,   \* the run each stop() call works on (0: no call)
  stopped     \* history: was stop() ever called on a live process?

vars == <<status, started, current, proc, reader, stopping, stopped>>

Runs     == 1..MaxRuns
Verdicts == {"passed", "failed"}

TypeOK ==
  /\ status \in {"idle", "starting", "running", "error", "cancelled"} \cup Verdicts
  /\ started \in 0..MaxRuns
  /\ current \in 0..started
  /\ proc \in [Runs -> {"none", "alive"} \cup Verdicts]
  /\ reader \in [Runs -> {"none", "reading", "done"}]
  /\ stopping \in [Stoppers -> 0..MaxRuns]
  /\ stopped \in BOOLEAN

Init ==
  /\ status = "idle"
  /\ started = 0
  /\ current = 0
  /\ proc = [r \in Runs |-> "none"]
  /\ reader = [r \in Runs |-> "none"]
  /\ stopping = [t \in Stoppers |-> 0]
  /\ stopped = FALSE

-----------------------------------------------------------------------------
(* start() *)

\* Any other status lets the next run in; "starting" and "running" raise
\* RegressionBusyError.
Free == status \notin {"starting", "running"}

\* The state object is replaced before the process is spawned.
Claim(st) ==
  /\ Free
  /\ started < MaxRuns
  /\ started' = started + 1
  /\ status' = st
  /\ UNCHANGED <<stopping, stopped>>

Start ==
  /\ Claim("running")
  /\ current' = started'
  /\ proc' = [proc EXCEPT ![started'] = "alive"]
  /\ reader' = [reader EXCEPT ![started'] = "reading"]

\* No uv on PATH: FileNotFoundError is caught.
StartNotFound == Claim("error") /\ UNCHANGED <<current, proc, reader>>

\* Any other error of Popen is not, and leaves "starting" behind.
StartRaises == Claim("starting") /\ UNCHANGED <<current, proc, reader>>

-----------------------------------------------------------------------------
(* The process and its reader thread. *)

Exit(r, verdict) ==
  /\ proc[r] = "alive"
  /\ proc' = [proc EXCEPT ![r] = verdict]
  /\ UNCHANGED <<status, started, current, reader, stopping, stopped>>

\* Variant: the end of the output taken for the end of the process, whose exit
\* code is not there yet.
ReaderEndsEarly(r) ==
  /\ reader[r] = "reading"
  /\ reader' = [reader EXCEPT ![r] = "done"]
  /\ status' = IF status = "running" THEN proc[r] ELSE status
  /\ UNCHANGED <<started, current, proc, stopping, stopped>>

\* Variant: only a zero exit code closes the run.
ReaderEndsOnPass(r) ==
  /\ reader[r] = "reading"
  /\ proc[r] \in Verdicts
  /\ reader' = [reader EXCEPT ![r] = "done"]
  /\ status' = IF status = "running" /\ proc[r] = "passed" THEN "passed" ELSE status
  /\ UNCHANGED <<started, current, proc, stopping, stopped>>

\* End of output and of the process: the verdict goes into the state of the
\* moment, whichever run that is for.
ReaderEnds(r) ==
  /\ reader[r] = "reading"
  /\ proc[r] \in Verdicts
  /\ reader' = [reader EXCEPT ![r] = "done"]
  /\ status' = IF status = "running" THEN proc[r] ELSE status
  /\ UNCHANGED <<started, current, proc, stopping, stopped>>

-----------------------------------------------------------------------------
(* stop() *)

\* Under the lock: is there a live process?
StopBegins(t) ==
  /\ stopping[t] = 0
  /\ current # 0 /\ proc[current] = "alive"
  /\ stopping' = [stopping EXCEPT ![t] = current]
  /\ stopped' = TRUE
  /\ UNCHANGED <<status, started, current, proc, reader>>

\* Without the lock: TERM to the group, five seconds, KILL.
StopKills(t) ==
  /\ stopping[t] # 0 /\ proc[stopping[t]] = "alive"
  /\ proc' = [proc EXCEPT ![stopping[t]] = "failed"]
  /\ UNCHANGED <<status, started, current, reader, stopping, stopped>>

\* Variant: the status is left to the reader.
StopEndsQuietly(t) ==
  /\ stopping[t] # 0 /\ proc[stopping[t]] \in Verdicts
  /\ stopping' = [stopping EXCEPT ![t] = 0]
  /\ UNCHANGED <<status, started, current, proc, reader, stopped>>

\* Under the lock again: a running slot becomes a cancelled one.
StopEnds(t) ==
  /\ stopping[t] # 0 /\ proc[stopping[t]] \in Verdicts
  /\ stopping' = [stopping EXCEPT ![t] = 0]
  /\ status' = IF status = "running" THEN "cancelled" ELSE status
  /\ UNCHANGED <<started, current, proc, reader, stopped>>

-----------------------------------------------------------------------------
Next ==
  \/ Start
  \/ StartNotFound
  \/ StartRaises
  \/ \E r \in Runs, verdict \in Verdicts : Exit(r, verdict)
  \/ \E r \in Runs : ReaderEnds(r)
  \/ \E t \in Stoppers : StopBegins(t) \/ StopKills(t) \/ StopEnds(t)

Spec == Init /\ [][Next]_vars

\* stop() runs to its end.  Nothing is assumed of a run: pytest may hang, and a
\* process it left behind may keep the reader waiting for the end of the output.
FairSpec == Spec /\ \A t \in Stoppers : WF_vars(StopKills(t)) /\ WF_vars(StopEnds(t))

-----------------------------------------------------------------------------
(* Properties. *)

Alive == {r \in Runs : proc[r] = "alive"}

\* "Only one run can be active at a time."
SingleSlot == Cardinality(Alive) <= 1

\* The verdict the dashboard shows is the verdict of the run it shows.
VerdictIsTheRuns == status \in Verdicts => proc[started] = status

\* As long as nobody stops a live run, the slot does what it promises although the
\* readers run late: one process at a time, and no run shows another's verdict.
SoundUntilStopped == ~stopped => SingleSlot /\ VerdictIsTheRuns

\* A slot shown as running is the latest run's, and that run's reader has yet to
\* finish: some thread is left to close it, whatever stale readers and stop()
\* calls wrote before.
RunningIsWatched == status = "running" => current = started /\ reader[started] = "reading"

\* A stop() that found a live process frees the slot it stopped, even if the
\* reader never comes to an end.
StopFreesSlot ==
  \A t \in Stoppers, r \in Runs :
    stopping[t] = r ~> ~(status = "running" /\ current = r)
=============================================================================
