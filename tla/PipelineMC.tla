------------------------------ MODULE PipelineMC ------------------------------
(* A request in the queue and a scrape that is added, both for one prospect. *)
EXTENDS Pipeline, TLC

CONSTANTS request, scrape, ann

MCRank     == [j \in Jobs |-> IF j = request THEN 1 ELSE 2]
MCPersonOf == [j \in Jobs |-> ann]
MCKindOf   == [j \in Jobs |-> IF j = request THEN "message" ELSE "scrape"]

\* Bound: one worker with everything the others may do, a second one with one edit or one
\* call, and a third start with nothing else.
Bounded == starts <= 1 \/ starts + edits + calls <= 3

Symmetry == Permutations(Sessions) \cup Permutations(Workers)
=============================================================================
