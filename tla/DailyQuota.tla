------------------------------ MODULE DailyQuota ------------------------------
(***************************************************************************)
(* What tools/rate_limits.py promises the rest of the program, without its *)
(* file: a counter per category of LinkedIn request, which a use raises by *)
(* one as long as it is below the cap and which a new day clears.  If a    *)
(* process may die in the middle of a write, the counters may be forgotten *)
(* early, all of them at once.                                             *)
(***************************************************************************)
EXTENDS Integers

CONSTANTS Categories, Cap, MayForget

VARIABLES day, used

Unused == [k \in Categories |-> 0]

Init == day = 0 /\ used = Unused

Use(k) ==
  /\ used[k] < Cap[k]
  /\ used' = [used EXCEPT ![k] = @ + 1]
  /\ UNCHANGED day

NewDay == day' = day + 1 /\ used' = Unused

Forget == MayForget /\ used' = Unused /\ UNCHANGED day

Next == (\E k \in Categories : Use(k)) \/ NewDay \/ Forget

Spec == Init /\ [][Next]_<<day, used>>
=============================================================================
