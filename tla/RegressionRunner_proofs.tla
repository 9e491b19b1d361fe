------------------------- MODULE RegressionRunner_proofs -------------------------
(***************************************************************************)
(* Proofs about RegressionRunner for any number of runs and any number of  *)
(* threads that call stop().                                               *)
(***************************************************************************)
EXTENDS RegressionRunner, FiniteSetTheorems, TLAPS

\* What ties the records of a run together.
RunsOK ==
  \A r \in Runs :
    /\ r > started => proc[r] = "none"
    /\ reader[r] = "none" <=> proc[r] = "none"
    /\ reader[r] = "done" => proc[r] \in Verdicts

\* Nobody stopped anything yet: whatever is alive or still read is the run of a
\* slot that shows "running", and a verdict is that run's.
Orderly ==
  ~stopped =>
    /\ \A t \in Stoppers : stopping[t] = 0
    /\ \A r \in Runs : proc[r] = "alive" \/ reader[r] = "reading" =>
                         r = started /\ status = "running"
    /\ status \in Verdicts => started # 0
    /\ VerdictIsTheRuns

IInv == TypeOK /\ RunsOK /\ RunningIsWatched /\ Orderly

-----------------------------------------------------------------------------
LEMMA InitSlot == Init => IInv
<1> SUFFICES ASSUME Init PROVE IInv
  OBVIOUS
<1>1. TypeOK
  <2>1. started = 0 /\ current = 0 /\ 0 \in 0..MaxRuns /\ 0 \in 0..0
    BY MaxRunsAssumption DEF Init
  <2>2. started \in 0..MaxRuns /\ current \in 0..started
    BY <2>1
  <2>3. stopping \in [Stoppers -> 0..MaxRuns]
    BY <2>1 DEF Init
  <2>4. QED
    BY <2>2, <2>3 DEF Init, TypeOK
<1>2. RunsOK
  BY DEF Init, RunsOK, Verdicts
<1>3. status = "idle" /\ "idle" \notin Verdicts
  BY DEF Init, Verdicts
<1>4. RunningIsWatched
  BY <1>3 DEF RunningIsWatched
<1>5. Orderly
  BY <1>3 DEF Init, Orderly, VerdictIsTheRuns
<1>6. QED
  BY <1>1, <1>2, <1>4, <1>5 DEF IInv

LEMMA ClaimKeeps ==
  ASSUME IInv, NEW st \in {"error", "starting"}, Claim(st), UNCHANGED <<current, proc, reader>>
  PROVE  IInv'
<1>1. /\ started' = started + 1 /\ started' \in 1..MaxRuns /\ status' = st
      /\ started \in Nat /\ MaxRuns \in Nat
  BY MaxRunsAssumption DEF Claim, IInv, TypeOK
<1>2. TypeOK'
  BY <1>1 DEF Claim, IInv, TypeOK
<1>3. RunsOK'
  BY <1>1 DEF Claim, IInv, RunsOK, Runs
<1>4. RunningIsWatched'
  BY <1>1 DEF RunningIsWatched
<1>5. Orderly'
  <2>1. status' \notin Verdicts
    BY <1>1 DEF Verdicts
  <2>2. ASSUME ~stopped, NEW r \in Runs PROVE ~(proc[r] = "alive" \/ reader[r] = "reading")
    BY <2>2 DEF Claim, Free, IInv, Orderly
  <2>3. QED
    BY <2>1, <2>2 DEF Claim, IInv, Orderly, VerdictIsTheRuns
<1>6. QED
  BY <1>2, <1>3, <1>4, <1>5 DEF IInv

LEMMA StartKeeps == ASSUME IInv, Start PROVE IInv'
<1>1. /\ started' = started + 1 /\ started' \in Runs /\ status' = "running"
      /\ started \in Nat /\ MaxRuns \in Nat /\ current' = started'
      /\ stopping' = stopping /\ stopped' = stopped
  BY MaxRunsAssumption DEF Start, Claim, IInv, TypeOK, Runs
<1>2. /\ proc' = [proc EXCEPT ![started'] = "alive"]
      /\ reader' = [reader EXCEPT ![started'] = "reading"]
      /\ proc \in [Runs -> {"none", "alive"} \cup Verdicts]
      /\ reader \in [Runs -> {"none", "reading", "done"}]
  BY DEF Start, IInv, TypeOK
<1>3. TypeOK'
  BY <1>1, <1>2 DEF IInv, TypeOK, Runs
<1>4. RunsOK'
  BY <1>1, <1>2 DEF IInv, RunsOK, Runs
<1>5. RunningIsWatched'
  BY <1>1, <1>2 DEF RunningIsWatched
<1>6. Orderly'
  <2>1. ASSUME ~stopped, NEW r \in Runs PROVE ~(proc[r] = "alive" \/ reader[r] = "reading")
    BY <2>1 DEF Start, Claim, Free, IInv, Orderly
  <2>2. ASSUME ~stopped, NEW r \in Runs, proc'[r] = "alive" \/ reader'[r] = "reading"
        PROVE  r = started'
    BY <1>1, <1>2, <2>1, <2>2
  <2>3. status' \notin Verdicts
    BY <1>1 DEF Verdicts
  <2>4. QED
    BY <1>1, <2>2, <2>3 DEF IInv, Orderly, VerdictIsTheRuns
<1>7. QED
  BY <1>3, <1>4, <1>5, <1>6 DEF IInv

\* The end of a process, by itself or by a stop() call, touches nothing else.
LEMMA ProcEndKeeps ==
  ASSUME IInv, NEW r \in Runs, NEW v \in Verdicts, proc[r] = "alive",
         proc' = [proc EXCEPT ![r] = v],
         UNCHANGED <<status, started, current, reader, stopping, stopped>>
  PROVE  IInv'
<1>1. proc \in [Runs -> {"none", "alive"} \cup Verdicts] /\ v # "alive" /\ v # "none"
  BY DEF IInv, TypeOK, Verdicts
<1>2. TypeOK'
  BY <1>1 DEF IInv, TypeOK
<1>3. RunsOK'
  BY <1>1 DEF IInv, RunsOK
<1>4. RunningIsWatched'
  BY DEF IInv, RunningIsWatched
<1>5. Orderly'
  <2>1. ASSUME ~stopped PROVE r = started /\ status = "running"
    BY <2>1 DEF IInv, Orderly
  <2>2. "running" \notin Verdicts
    BY DEF Verdicts
  <2>3. \A q \in Runs : proc'[q] = "alive" => proc[q] = "alive"
    BY <1>1
  <2>4. QED
    BY <2>1, <2>2, <2>3 DEF IInv, Orderly, VerdictIsTheRuns
<1>6. QED
  BY <1>2, <1>3, <1>4, <1>5 DEF IInv

LEMMA ReaderEndsKeeps == ASSUME IInv, NEW r \in Runs, ReaderEnds(r) PROVE IInv'
<1>1. /\ reader[r] = "reading" /\ proc[r] \in Verdicts
      /\ reader' = [reader EXCEPT ![r] = "done"]
      /\ status' = IF status = "running" THEN proc[r] ELSE status
      /\ UNCHANGED <<started, current, proc, stopping, stopped>>
      /\ reader \in [Runs -> {"none", "reading", "done"}]
  BY DEF ReaderEnds, IInv, TypeOK
<1>2. "running" \notin Verdicts /\ "none" \notin Verdicts
  BY DEF Verdicts
<1>3. TypeOK'
  BY <1>1 DEF IInv, TypeOK
<1>4. RunsOK'
  BY <1>1, <1>2 DEF IInv, RunsOK
<1>5. RunningIsWatched'
  BY <1>1, <1>2 DEF RunningIsWatched
<1>6. Orderly'
  <2>1. ASSUME ~stopped PROVE r = started /\ status = "running"
    BY <1>1, <2>1 DEF IInv, Orderly
  <2>2. ASSUME ~stopped, NEW q \in Runs, proc'[q] = "alive" \/ reader'[q] = "reading"
        PROVE  FALSE
    <3>1. q = started
      BY <1>1, <2>2 DEF IInv, Orderly
    <3>2. reader'[r] = "done" /\ proc'[r] # "alive"
      BY <1>1 DEF Verdicts
    <3>3. QED
      BY <2>1, <2>2, <3>1, <3>2
  <2>3. ASSUME ~stopped PROVE started # 0
    BY <2>1, <2>3, MaxRunsAssumption DEF Runs
  <2>4. QED
    BY <1>1, <2>1, <2>2, <2>3 DEF IInv, Orderly, VerdictIsTheRuns
<1>7. QED
  BY <1>3, <1>4, <1>5, <1>6 DEF IInv

LEMMA StopBeginsKeeps == ASSUME IInv, NEW t \in Stoppers, StopBegins(t) PROVE IInv'
<1>1. TypeOK'
  BY MaxRunsAssumption DEF StopBegins, IInv, TypeOK
<1>2. QED
  BY <1>1 DEF StopBegins, IInv, RunsOK, RunningIsWatched, Orderly

LEMMA StopEndsKeeps == ASSUME IInv, NEW t \in Stoppers, StopEnds(t) PROVE IInv'
<1>1. TypeOK'
  BY MaxRunsAssumption DEF StopEnds, IInv, TypeOK
<1>2. stopped
  BY DEF StopEnds, IInv, Orderly
<1>3. RunsOK' /\ RunningIsWatched'
  BY DEF StopEnds, IInv, RunsOK, RunningIsWatched
<1>4. Orderly'
  BY <1>2 DEF StopEnds, Orderly
<1>5. QED
  BY <1>1, <1>3, <1>4 DEF IInv

LEMMA StepSlot == IInv /\ [Next]_vars => IInv'
<1> SUFFICES ASSUME IInv, [Next]_vars PROVE IInv'
  OBVIOUS
<1>1. CASE Start
  BY <1>1, StartKeeps
<1>2. CASE StartNotFound
  BY <1>2, ClaimKeeps DEF StartNotFound
<1>3. CASE StartRaises
  BY <1>3, ClaimKeeps DEF StartRaises
<1>4. ASSUME NEW r \in Runs, NEW verdict \in Verdicts, Exit(r, verdict) PROVE IInv'
  BY <1>4, ProcEndKeeps DEF Exit
<1>5. ASSUME NEW r \in Runs, ReaderEnds(r) PROVE IInv'
  BY <1>5, ReaderEndsKeeps
<1>6. ASSUME NEW t \in Stoppers, StopBegins(t) PROVE IInv'
  BY <1>6, StopBeginsKeeps
<1>7. ASSUME NEW t \in Stoppers, StopKills(t) PROVE IInv'
  <2>1. stopping[t] \in Runs /\ "failed" \in Verdicts
    BY <1>7, MaxRunsAssumption DEF StopKills, IInv, TypeOK, Runs, Verdicts
  <2>2. QED
    BY <1>7, <2>1, ProcEndKeeps DEF StopKills
<1>8. ASSUME NEW t \in Stoppers, StopEnds(t) PROVE IInv'
  BY <1>8, StopEndsKeeps
<1>9. CASE UNCHANGED vars
  BY <1>9 DEF vars, IInv, TypeOK, RunsOK, RunningIsWatched, Orderly, VerdictIsTheRuns
<1>10. QED
  BY <1>1, <1>2, <1>3, <1>4, <1>5, <1>6, <1>7, <1>8, <1>9 DEF Next

LEMMA SlotInvariant == Spec => []IInv
BY InitSlot, StepSlot, PTL DEF Spec

\* The latest run is always watched while the slot shows "running", for any
\* interleaving of stale readers and stop() calls.
THEOREM SlotIsWatched == Spec => []RunningIsWatched
<1>1. IInv => RunningIsWatched
  BY DEF IInv
<1>2. QED
  BY <1>1, SlotInvariant, PTL

\* The slot, its runs and its readers keep their shape.
THEOREM SlotTypeCorrect == Spec => []TypeOK
<1>1. IInv => TypeOK
  BY DEF IInv
<1>2. QED
  BY <1>1, SlotInvariant, PTL

\* Until a live run is stopped the slot holds one process at most and no run shows
\* the verdict of another.
THEOREM SlotIsSound == Spec => []SoundUntilStopped
<1>1. IInv => SoundUntilStopped
  <2> SUFFICES ASSUME IInv, ~stopped PROVE SingleSlot /\ VerdictIsTheRuns
    BY DEF SoundUntilStopped
  <2>1. Alive \subseteq {started}
    BY DEF IInv, Orderly, Alive
  <2>2. IsFiniteSet({started}) /\ Cardinality({started}) = 1
    BY FS_Singleton
  <2>3. Cardinality(Alive) <= Cardinality({started})
    BY <2>1, <2>2, FS_Subset
  <2>4. SingleSlot
    BY <2>2, <2>3 DEF SingleSlot
  <2>5. QED
    BY <2>4 DEF IInv, Orderly
<1>2. QED
  BY <1>1, SlotInvariant, PTL
=============================================================================
