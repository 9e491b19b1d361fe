-------------------------------- MODULE JobLife --------------------------------
(***************************************************************************)
(* What the queue promises of its jobs, without its files: a job waits, is *)
(* taken by a worker, the browser is asked to carry it out, once, and says *)
(* that it did or not, and then the job is completed or failed; it may     *)
(* fail before the browser was asked, and after it said yes, but nothing   *)
(* is completed of which it did not.  It may be taken back while it waits, *)
(* and asked for again.  Several jobs may be under way at a time.          *)
(*                                                                         *)
(* A write of a file from a stale copy, two workers that write one file    *)
(* and a worker that ends in the middle of a job lead some jobs astray: of *)
(* those nothing is promised from then on.                                 *)
(***************************************************************************)
CONSTANTS Jobs, First

VARIABLE life

Init == life = [j \in Jobs |-> IF j \in First THEN "waiting" ELSE "out"]

\* The jobs of T come to a new point of their life, those of S go astray.
Become(T, to, S) ==
  life' = [j \in Jobs |-> IF j \in S THEN "astray" ELSE IF j \in T THEN to ELSE life[j]]

Are(T, from) == \A j \in T : life[j] \in from

Add(j, S)    == Are({j}, {"out"}) /\ Become({j}, "waiting", S)
Remove(T, S) == Are(T, {"waiting"}) /\ Become(T, "out", S)
Take(j, S)   == Are({j}, {"waiting"}) /\ Become({j}, "taken", S)

Ask(j)      == Are({j}, {"taken"}) /\ (Become({j}, "done", {}) \/ Become({j}, "refused", {}))
Complete(j) == Are({j}, {"done"}) /\ Become({j}, "completed", {})
Fail(j)     == Are({j}, {"taken", "done", "refused"}) /\ Become({j}, "failed", {})

GoAstray(S) == Become({}, "astray", S)

Event ==
  \/ \E j \in Jobs : Ask(j) \/ Complete(j) \/ Fail(j)
  \/ \E S \in SUBSET Jobs :
       \/ \E j \in Jobs : Add(j, S) \/ Take(j, S)
       \/ \E T \in SUBSET Jobs : Remove(T, S)
       \/ GoAstray(S)

Next == life' # life /\ Event

Spec == Init /\ [][Next]_life
=============================================================================
