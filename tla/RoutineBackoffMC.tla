--------------------------- MODULE RoutineBackoffMC ---------------------------
(* A policy that starts at two minutes with a multiplier of 1.3, where rounding *)
(* matters most.                                                                *)
EXTENDS RoutineBackoff

MCRaw     == [initial |-> 2, num |-> 13, den |-> 10, max |-> 240, jitter |-> TRUE]
MCWindows == {<<540, 1020>>, <<1320, 360>>}
MCJitters == {80, 120}
=============================================================================
