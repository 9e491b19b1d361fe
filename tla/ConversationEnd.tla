---------------------------- MODULE ConversationEnd ----------------------------
(***************************************************************************)
(* How a conversation ends.  upsert_conversation reads the conversation    *)
(* file for its prior stage, replaces it, and when the new stage is        *)
(* terminal marks the row of connections.json, aligns the prospect's file  *)
(* and mails the operator, in that order and without a transaction.  Every *)
(* session has an MCP server process of its own, so the calls of two       *)
(* sessions interleave at every file; schedule_meeting and                 *)
(* upsert_prospect write the same files.                                   *)
(*                                                                         *)
(* A file is the stage it holds: "blank" is a conversation without one,    *)
(* "torn" does not parse.  `fault' is history: "short" when a step of an   *)
(* end was left out (a read or write that failed, a mail that was not      *)
(* sent, a process that died), "again" when the conversation was reopened  *)
(* or written from a stale copy, when two calls raced, or when its prior   *)
(* stage could not be read.  The races on connections.json itself are in   *)
(* OutreachSweeps.                                                         *)
(***************************************************************************)
EXTENDS Naturals

CONSTANTS People, Sessions,
          MaxCalls \* bound: how many tool calls the sessions make

ASSUME MaxCallsAssumption == MaxCalls \in Nat

VARIABLES conv, prospect, row, \* the stages in the three files
          session, calls,
          told,  \* how many mails said that the conversation ended
          fault

endVars == <<conv, prospect, row, session, calls, told, fault>>

Stages == {"open", "ended"}
Faults == {"short", "again"}

Asleep == [pc |-> "idle", who |-> "none", stage |-> "open", prior |-> "open"]

EndTypeOK ==
  /\ conv \in [People -> Stages \cup {"blank", "torn"}]
  /\ prospect \in [People -> Stages \cup {"torn"}]
  /\ row \in [People -> Stages]
  /\ session \in [Sessions -> [pc : {"idle", "put", "mark", "sync", "tell", "meet"},
                               who : People \cup {"none"}, stage : Stages,
                               prior : Stages \cup {"blank", "torn"}]]
  /\ \A s \in Sessions : session[s].pc # "idle" => session[s].who \in People
  /\ calls \in 0..MaxCalls
  /\ told \in [People -> 0..2]
  /\ fault \in [People -> SUBSET Faults]

EndInit ==
  /\ conv = [p \in People |-> "open"] /\ prospect = [p \in People |-> "open"]
  /\ row = [p \in People |-> "open"]
  /\ session = [s \in Sessions |-> Asleep] /\ calls = 0
  /\ told = [p \in People |-> 0] /\ fault = [p \in People |-> {}]

Goes(s, k)   == session' = [session EXCEPT ![s] = k]
Wrong(p, F)  == fault' = [fault EXCEPT ![p] = @ \cup F]
When(b, f)   == IF b THEN {f} ELSE {}

Calling(s) == session[s].pc = "idle" /\ calls < MaxCalls /\ calls' = calls + 1

-----------------------------------------------------------------------------
(* upsert_conversation. *)

UpsertRead(s) ==
  /\ Calling(s)
  /\ \E p \in People, stage \in Stages :
       Goes(s, [pc |-> "put", who |-> p, stage |-> stage, prior |-> conv[p]])
  /\ UNCHANGED <<conv, prospect, row, told, fault>>

\* Mutant: the row is not marked.
UpsertWriteOnly(s) ==
  LET k == session[s]
      p == k.who
  IN /\ k.pc = "put"
     /\ conv' = [conv EXCEPT ![p] = k.stage]
     /\ Goes(s, IF k.stage = "ended" THEN [k EXCEPT !.pc = "sync"] ELSE Asleep)
     /\ Wrong(p, When(\/ k.stage # "ended" /\ conv[p] # "open"
                      \/ k.prior # conv[p]
                      \/ k.prior \notin Stages, "again"))
  /\ UNCHANGED <<prospect, row, calls, told>>

\* A prior stage that is stale or could not be read is how an end is told twice, or not.
UpsertWrite(s) ==
  LET k == session[s]
      p == k.who
  IN /\ k.pc = "put"
     /\ \/ /\ conv' = [conv EXCEPT ![p] = k.stage]
           /\ Goes(s, IF k.stage = "ended" THEN [k EXCEPT !.pc = "mark"] ELSE Asleep)
           /\ Wrong(p, When(\/ k.stage # "ended" /\ conv[p] # "open"
                            \/ k.prior # conv[p]
                            \/ k.prior \notin Stages, "again"))
        \/ /\ UNCHANGED conv
           /\ Goes(s, Asleep)
           /\ UNCHANGED fault
  /\ UNCHANGED <<prospect, row, calls, told>>

\* Mutant: the operator is told before the prospect is aligned.
MarkRowAndTell(s) ==
  LET k == session[s]
      p == k.who
      next == IF k.prior = "ended" THEN Asleep ELSE [k EXCEPT !.pc = "tell"]
  IN /\ k.pc = "mark"
     /\ \/ row' = [row EXCEPT ![p] = "ended"] /\ Goes(s, next) /\ UNCHANGED fault
        \/ row[p] # "ended" /\ UNCHANGED row /\ Goes(s, Asleep) /\ Wrong(p, {"short"})
  /\ UNCHANGED <<conv, prospect, calls, told>>

\* A file that cannot be read is passed over; one that cannot be written ends the call.
MarkRow(s) ==
  LET k == session[s]
      p == k.who
  IN /\ k.pc = "mark"
     /\ \/ row' = [row EXCEPT ![p] = "ended"] /\ Goes(s, [k EXCEPT !.pc = "sync"])
           /\ UNCHANGED fault
        \/ row[p] # "ended" /\ UNCHANGED row /\ Goes(s, [k EXCEPT !.pc = "sync"])
           /\ Wrong(p, {"short"})
        \/ row[p] # "ended" /\ UNCHANGED row /\ Goes(s, Asleep) /\ Wrong(p, {"short"})
  /\ UNCHANGED <<conv, prospect, calls, told>>

\* Mutant: every upsert of a terminal stage notifies.
SyncAndTell(s) ==
  LET k == session[s]
      p == k.who
  IN /\ k.pc = "sync"
     /\ Goes(s, [k EXCEPT !.pc = "tell"])
     /\ \/ prospect[p] # "torn" /\ prospect' = [prospect EXCEPT ![p] = "ended"]
           /\ UNCHANGED fault
        \/ prospect[p] # "ended" /\ UNCHANGED prospect /\ Wrong(p, {"short"})
  /\ UNCHANGED <<conv, row, calls, told>>

\* Everything that goes wrong here is logged and swallowed.
SyncProspect(s) ==
  LET k    == session[s]
      p    == k.who
      next == IF k.prior = "ended" THEN Asleep ELSE [k EXCEPT !.pc = "tell"]
  IN /\ k.pc = "sync"
     /\ Goes(s, next)
     /\ \/ prospect[p] # "torn" /\ prospect' = [prospect EXCEPT ![p] = "ended"]
           /\ UNCHANGED fault
        \/ prospect[p] # "ended" /\ UNCHANGED prospect /\ Wrong(p, {"short"})
  /\ UNCHANGED <<conv, row, calls, told>>

\* The mail is sent, skipped for want of an address or a server, or lost in SMTP.
SendEndedMail(p) ==
  \/ told' = [told EXCEPT ![p] = IF @ < 2 THEN @ + 1 ELSE @] /\ UNCHANGED fault
  \/ UNCHANGED told /\ Wrong(p, {"short"})

\* "sent", "skipped" or "error": the call succeeds either way.
Notify(s) ==
  /\ session[s].pc = "tell"
  /\ Goes(s, Asleep)
  /\ SendEndedMail(session[s].who)
  /\ UNCHANGED <<conv, prospect, row, calls>>

-----------------------------------------------------------------------------
(* The other writers of the two files. *)

\* schedule_meeting works on an empty conversation when it cannot read the one there is.
MeetRead(s) ==
  /\ Calling(s)
  /\ \E p \in People :
       Goes(s, [pc |-> "meet", who |-> p, stage |-> "open",
                prior |-> IF conv[p] = "torn" THEN "blank" ELSE conv[p]])
  /\ UNCHANGED <<conv, prospect, row, told, fault>>

MeetWrite(s) ==
  LET k == session[s]
      p == k.who
  IN /\ k.pc = "meet"
     /\ conv' = [conv EXCEPT ![p] = k.prior]
     /\ Wrong(p, When(k.prior # conv[p], "again"))
     /\ Goes(s, Asleep)
  /\ UNCHANGED <<prospect, row, calls, told>>

PutProspect(s) ==
  /\ Calling(s)
  /\ \E p \in People, stage \in Stages :
       /\ prospect' = [prospect EXCEPT ![p] = stage]
       /\ Wrong(p, When(prospect[p] # "open" /\ stage # "ended", "again"))
  /\ UNCHANGED <<conv, row, session, told>>

\* The server process ends between two steps.
SessionDies(s) ==
  /\ session[s].pc # "idle"
  /\ Goes(s, Asleep)
  /\ Wrong(session[s].who, {"short"})
  /\ UNCHANGED <<conv, prospect, row, calls, told>>

ReplacesConv(s)     == UpsertWrite(s) \/ MeetWrite(s)
ReplacesProspect(s) == SyncProspect(s) \/ PutProspect(s)
ReplacesNeither(s)  == \/ UpsertRead(s) \/ MeetRead(s) \/ MarkRow(s) \/ Notify(s)
                       \/ SessionDies(s)

\* No call for p is under way.
Quiet(p) == \A s \in Sessions : session[s].pc = "idle" \/ session[s].who # p

=============================================================================
