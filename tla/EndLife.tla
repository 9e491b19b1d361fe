-------------------------------- MODULE EndLife --------------------------------
(***************************************************************************)
(* What the end of a conversation promises, without its files, calls and   *)
(* handlers: the conversation ends, then the row of connections.json, and  *)
(* when the prospect has ended too the operator is told, once and last.    *)
(* Only the prospect may be ended first.  Nothing that was done is undone. *)
(*                                                                         *)
(* A step that fails, a process that dies, a conversation that is opened   *)
(* again and calls that race lead a person astray; nothing is promised of  *)
(* him from then on, and of everybody else the same as before.             *)
(***************************************************************************)
CONSTANT People

VARIABLES done,  \* the parts of his end that are done, of each person
          astray

vars == <<done, astray>>

Init == done = [p \in People |-> {}] /\ astray = {}

Do(p, part) ==
  /\ p \notin astray
  /\ done' = [done EXCEPT ![p] = @ \cup {part}]
  /\ UNCHANGED astray

EndConversation(p) == Do(p, "conversation")
EndRow(p)          == "conversation" \in done[p] /\ Do(p, "row")
EndProspect(p)     == Do(p, "prospect")
Tell(p)            == done[p] = {"conversation", "row", "prospect"} /\ Do(p, "mail")

GoAstray(p) ==
  /\ astray' = astray \cup {p}
  /\ done' = [done EXCEPT ![p] = {}]

Next ==
  /\ vars' # vars
  /\ \E p \in People : \/ EndConversation(p) \/ EndRow(p) \/ EndProspect(p) \/ Tell(p)
                       \/ GoAstray(p)

Spec == Init /\ [][Next]_vars
=============================================================================
