----------------------------- MODULE RateLimitsMC -----------------------------
(* RateLimits on a small instance: every category has a cap of one action. *)
EXTENDS RateLimits

MCCap == [k \in Categories |-> 1]
=============================================================================
