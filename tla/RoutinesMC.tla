------------------------------ MODULE RoutinesMC ------------------------------
(* One routine and two writers of its row. *)
EXTENDS Routines

CONSTANT reply
=============================================================================
