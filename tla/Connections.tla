------------------------------ MODULE Connections ------------------------------
(***************************************************************************)
(* connections.json: one row per prospect, shared by the cron process (the *)
(* connection sync sweep and the conversation plan sweep) and by every MCP *)
(* server process.  Nobody locks it: each writer reads the whole file,     *)
(* edits its copy and replaces the file (an atomic rename), so the file is *)
(* a single value and the hazards are all in how old a written copy is.    *)
(*                                                                         *)
(* A row keeps what the sweeps decide on: its connection_status and, for   *)
(* each of its two backoff records, how many time units next_check_at lies *)
(* in the future (0: no record, or a next_check_at already past: "due").   *)
(* Wall-clock time is relative: Age takes one unit off every copy of a row *)
(* at once, the ones held in memory included, which is what an absolute    *)
(* timestamp does.                                                         *)
(***************************************************************************)
EXTENDS Integers

CONSTANTS Prospects,  \* the prospects of the instance, keyed by prospect_id / profile_url
          MaxDelay    \* longest backoff delay, in time units (max_minutes of the policy)

ASSUME DelayAssumption == MaxDelay \in Nat \ {0}

Statuses == {"absent", "pending", "connected", "ended"}

Row  == [status : Statuses, sync : 0..MaxDelay, plan : 0..MaxDelay]
Rows == [Prospects -> Row]

\* A row with no backoff record: what save_connection writes.
Fresh(st) == [status |-> st, sync |-> 0, plan |-> 0]
Absent    == Fresh("absent")
NoRows    == [p \in Prospects |-> Absent]

-----------------------------------------------------------------------------
(* The edits of the file, each on a copy of it. *)

SaveConnection(f, p, st) == [f EXCEPT ![p] = Fresh(st)]

MarkEnded(f, p) == [f EXCEPT ![p].status = "ended"]

\* A row that no longer needs marking: _mark_connection_ended leaves the file alone.
NothingToEnd(f, p) == f[p].status \in {"absent", "ended"}

-----------------------------------------------------------------------------
(* What a sweep takes from the copy it loads. *)

\* Variants: one of the two statuses left out of the skip set.
SkipEndedOnly   == {"ended"}
SkipPendingOnly == {"pending"}

SkipConnectionStatuses == {"pending", "ended"}

SyncDue(f) == {p \in Prospects : f[p].status = "pending" /\ f[p].sync = 0}

PlanDue(f) == {p \in Prospects :
                  /\ f[p].status \notin SkipConnectionStatuses \cup {"absent"}
                  /\ f[p].plan = 0}

-----------------------------------------------------------------------------
(* One unit of time passing over a copy of the file. *)

Older(n)  == IF n > 0 THEN n - 1 ELSE 0
AgeRow(r) == [r EXCEPT !.sync = Older(@), !.plan = Older(@)]
Age(f)    == [p \in Prospects |-> AgeRow(f[p])]
=============================================================================
