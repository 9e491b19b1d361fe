---------------------------- MODULE OutreachSweeps ----------------------------
(***************************************************************************)
(* The writers of connections.json and how they interleave:                *)
(*   - the cron process runs the connection sync sweep and the plan sweep  *)
(*     as two tasks of one event loop.  They interleave only where they    *)
(*     await: the sync sweep while it probes LinkedIn, the plan sweep      *)
(*     while it waits for `claude -p`;                                     *)
(*   - each Claude session owns an MCP server process whose tools edit the *)
(*     same file: the session the plan sweep waits for ("planner"), one    *)
(*     that outlived a killed cron process ("orphan"), and the operator's  *)
(*     own interactive session ("desk").  Between the read and the write   *)
(*     of an edit any other process may write.                             *)
(*                                                                         *)
(* A sweep reads the clock once, when it loads the file: which rows it     *)
(* will visit is therefore known at the load (syncTodo, planTodo).         *)
(***************************************************************************)
EXTENDS Connections

CONSTANTS SyncOn,   \* is the connection_sync routine active?
          DeskOn,   \* does an operator session edit the file too?
          CrashOn,  \* may the cron process die and be restarted?
          RunSaves, \* the statuses a planner run gives its prospect by save_connection
          Accepting, \* the prospects who accept the invitation sooner or later
          Nobody    \* no prospect

ASSUME SwitchAssumption == {SyncOn, DeskOn, CrashOn} \subseteq BOOLEAN
ASSUME NobodyAssumption == Nobody \notin Prospects
ASSUME SavesAssumption == RunSaves \subseteq {"pending", "connected", "ended"}
ASSUME AcceptingAssumption == Accepting \subseteq Prospects

VARIABLES
  rows,        \* connections.json
  ended,       \* prospects whose conversation file has a terminal outreach_stage
  touched,     \* prospects whose conversation got a new last_action_timestamp
               \*   since their latest dispatch
  syncPc, syncSnap, syncTodo, syncCur, syncAge,
  planPc, planLoaded, planTodo, planCur, planOk, planTarget, planCurrent,
  sessPc, sessFor, sessNew,
  owed,        \* history: backoff the plan sweep imposed on each prospect and
               \*   that has not elapsed yet
  answered,    \* history: prospects whom a probe or a save_connection called connected
  unseen       \* history: prospects whose row was added to the file while some
               \*   other writer held a copy of it

storeVars == <<rows, ended, touched>>
syncVars  == <<syncPc, syncSnap, syncTodo, syncCur, syncAge>>
planVars  == <<planPc, planLoaded, planTodo, planCur, planOk, planTarget, planCurrent>>
sessVars  == <<sessPc, sessFor, sessNew>>
history   == <<owed, answered, unseen>>
vars      == <<storeVars, syncVars, planVars, sessVars, history>>

Sessions == {"planner", "orphan", "desk"}
Delays   == 1..MaxDelay
Saveable == {"pending", "connected", "ended"} \* the statuses save_connection accepts

TypeOK ==
  /\ rows \in Rows
  /\ ended \in SUBSET Prospects
  /\ touched \in SUBSET Prospects
  /\ syncPc \in {"idle", "visit", "probe"}
  /\ syncSnap \in Rows
  /\ syncTodo \in SUBSET Prospects
  /\ syncCur \in Prospects \cup {Nobody}
  /\ syncPc = "probe" => syncCur \in Prospects
  /\ syncAge \in 0..MaxDelay
  /\ planPc \in {"idle", "visit", "run", "reread", "reload", "save"}
  /\ planLoaded \in Rows
  /\ planTodo \in SUBSET Prospects
  /\ planCur \in Prospects \cup {Nobody}
  /\ planPc \notin {"idle", "visit"} => planCur \in Prospects
  /\ planOk \in BOOLEAN
  /\ planTarget \in Row
  /\ planCurrent \in Rows
  /\ sessPc \in [Sessions -> {"off", "on", "write"}]
  /\ sessFor \in [Sessions -> Prospects \cup {Nobody}]
  /\ \A s \in Sessions : sessPc[s] # "off" => sessFor[s] \in Prospects
  /\ sessNew \in [Sessions -> Rows]
  /\ owed \in [Prospects -> 0..MaxDelay]
  /\ answered \in SUBSET Prospects
  /\ unseen \in SUBSET Prospects

\* Files the program leaves behind: whoever is connected was once called so.
Init ==
  /\ rows \in [Prospects -> {Absent, Fresh("pending"), Fresh("connected")}]
  /\ answered = {p \in Prospects : rows[p].status = "connected"}
  /\ unseen = {}
  /\ ended = {}
  /\ touched = {}
  /\ syncPc = "idle" /\ syncSnap = NoRows /\ syncTodo = {} /\ syncCur = Nobody /\ syncAge = 0
  /\ planPc = "idle" /\ planLoaded = NoRows /\ planTodo = {} /\ planCur = Nobody
  /\ planOk = FALSE /\ planTarget = Absent /\ planCurrent = NoRows
  /\ sessPc = [s \in Sessions |-> "off"]
  /\ sessFor = [s \in Sessions |-> Nobody]
  /\ sessNew = [s \in Sessions |-> NoRows]
  /\ owed = [p \in Prospects |-> 0]

-----------------------------------------------------------------------------
(* The clock. *)

Tick ==
  /\ rows' = Age(rows)
  /\ syncSnap' = Age(syncSnap)
  /\ syncAge' = IF syncPc # "idle" /\ syncAge < MaxDelay THEN syncAge + 1 ELSE syncAge
  /\ planLoaded' = Age(planLoaded)
  /\ planTarget' = AgeRow(planTarget)
  /\ planCurrent' = Age(planCurrent)
  /\ sessNew' = [s \in Sessions |-> Age(sessNew[s])]
  /\ owed' = [p \in Prospects |-> Older(owed[p])]
  /\ UNCHANGED <<answered, unseen>>
  /\ UNCHANGED <<ended, touched, syncPc, syncTodo, syncCur,
                 planPc, planTodo, planCur, planOk, sessPc, sessFor>>

-----------------------------------------------------------------------------
(* The writers of the file, each with the copy it is going to write.        *)

Writers == {"sync", "plan"} \cup Sessions

Holds(w) == CASE w = "sync"     -> syncPc # "idle"
              [] w = "plan"     -> planPc = "save"
              [] w \in Sessions -> sessPc[w] = "write"

Copy(w) == CASE w = "sync"     -> syncSnap
             [] w = "plan"     -> planCurrent
             [] w \in Sessions -> sessNew[w]

\* The file becomes w's copy of it.  A row it did not have is not in the copies the
\* other writers hold.
Replace(w) ==
  /\ rows' = Copy(w)
  /\ unseen' = IF \E v \in Writers \ {w} : Holds(v)
                  THEN unseen \cup {p \in Prospects : /\ rows[p].status = "absent"
                                                     /\ Copy(w)[p].status # "absent"}
                  ELSE {}
  /\ UNCHANGED <<owed, answered>>

-----------------------------------------------------------------------------
(* The event loop of the cron process: a sweep gives it up only while it    *)
(* awaits its probe or its runner.                                          *)

SyncHoldsLoop == syncPc = "visit"
PlanHoldsLoop == planPc \in {"visit", "reload", "save"}

-----------------------------------------------------------------------------
(* The connection sync sweep: one load, a probe per due row, one save. *)

\* Variant: the sweep keeps the rows it will visit and no others.
SyncLoadDueOnly ==
  /\ SyncOn
  /\ syncPc = "idle"
  /\ ~PlanHoldsLoop
  /\ syncPc' = "visit"
  /\ syncSnap' = [p \in Prospects |-> IF p \in SyncDue(rows) THEN rows[p] ELSE Absent]
  /\ syncTodo' = SyncDue(rows)
  /\ syncAge' = 0
  /\ UNCHANGED <<storeVars, syncCur, planVars, sessVars, history>>

SyncLoad ==
  /\ SyncOn
  /\ syncPc = "idle"
  /\ ~PlanHoldsLoop
  /\ syncPc' = "visit"
  /\ syncSnap' = rows
  /\ syncTodo' = SyncDue(rows)
  /\ syncAge' = 0
  /\ UNCHANGED <<storeVars, syncCur, planVars, sessVars, history>>

SyncProbe(p) ==
  /\ syncPc = "visit"
  /\ p \in syncTodo
  /\ syncPc' = "probe"
  /\ syncCur' = p
  /\ syncTodo' = syncTodo \ {p}
  /\ UNCHANGED <<storeVars, syncSnap, syncAge, planVars, sessVars, history>>

\* Time left of a delay counted from the moment the sweep started.  (The variant
\* forgets that a long sweep may outlast the delay.)
SinceStartUnclipped(d) == d - syncAge

SinceStart(d) == IF d > syncAge THEN d - syncAge ELSE 0

\* Variants with a plausible bug: a nonempty error string taken for a truthy
\* answer; the promotion made on a copy of the row.
ApplyProbeTruthy(row, res, d) ==
  IF res # "no"
  THEN [row EXCEPT !.status = "connected", !.sync = 0]
  ELSE [row EXCEPT !.sync = SinceStart(d)]

ApplyProbeOnCopy(row, res, d) ==
  IF res = "yes" THEN row ELSE [row EXCEPT !.sync = SinceStart(d)]

\* What a probe's answer does to the row: only True promotes it; False and an
\* error string both back it off.
ApplyProbe(row, res, d) ==
  IF res = "yes"
  THEN [row EXCEPT !.status = "connected", !.sync = 0]
  ELSE [row EXCEPT !.sync = SinceStart(d)]

\* The browser's answer is taken as it is: "yes" may be said of somebody who has not
\* accepted (any messaging link on the page will do), "no" of somebody who has.
SyncResult(res, d) ==
  /\ syncPc = "probe"
  /\ ~PlanHoldsLoop
  /\ syncPc' = "visit"
  /\ syncSnap' = [syncSnap EXCEPT ![syncCur] = ApplyProbe(@, res, d)]
  /\ answered' = IF res = "yes" THEN answered \cup {syncCur} ELSE answered
  /\ syncCur' = Nobody
  /\ UNCHANGED <<storeVars, syncTodo, syncAge, planVars, sessVars, owed, unseen>>

\* The loop is over, or left early on a rate-limit error (rows left in syncTodo
\* are not backed off): either way the loaded copy replaces the file.
SyncSave ==
  /\ syncPc = "visit"
  /\ Replace("sync")
  /\ syncPc' = "idle"
  /\ syncSnap' = NoRows
  /\ syncTodo' = {}
  /\ syncAge' = 0
  /\ UNCHANGED <<ended, touched, syncCur, planVars, sessVars>>

-----------------------------------------------------------------------------
(* The plan sweep: one load; for each due row a `claude -p` run, then a     *)
(* re-read, an outcome, a second read and the save.                         *)

PlanLoad ==
  /\ planPc = "idle"
  /\ ~SyncHoldsLoop
  /\ planPc' = "visit"
  /\ planLoaded' = rows
  /\ planTodo' = PlanDue(rows)
  /\ UNCHANGED <<storeVars, syncVars, planCur, planOk, planTarget, planCurrent,
                 sessVars, history>>

PlanDispatch(p) ==
  /\ planPc = "visit"
  /\ p \in planTodo
  /\ planPc' = "run"
  /\ planCur' = p
  /\ planTodo' = planTodo \ {p}
  /\ touched' = touched \ {p}
  /\ sessPc' = [sessPc EXCEPT !["planner"] = "on"]
  /\ sessFor' = [sessFor EXCEPT !["planner"] = p]
  /\ UNCHANGED <<rows, ended, syncVars, planLoaded, planOk, planTarget, planCurrent,
                 sessNew, history>>

\* A Claude session is gone, with whatever edit it had not written.
Close(s) ==
  /\ sessPc' = [sessPc EXCEPT ![s] = "off"]
  /\ sessFor' = [sessFor EXCEPT ![s] = Nobody]
  /\ sessNew' = [sessNew EXCEPT ![s] = NoRows]

\* The run ends: a clean exit between two tool calls, or a nonzero exit or the
\* timeout kill at any point, in the middle of a tool call too.
RunnerReturns(ok) ==
  /\ planPc = "run"
  /\ ok => sessPc["planner"] = "on"
  /\ planPc' = "reread"
  /\ planOk' = ok
  /\ Close("planner")
  /\ UNCHANGED <<storeVars, syncVars, planLoaded, planTodo, planCur, planTarget,
                 planCurrent, history>>

\* _classify_outcome: does the run count as a success, which clears plan_backoff?
Succeeded(p, row) ==
  planOk /\ (row.status = "ended" \/ p \in ended \/ p \in touched)

\* Variant: the outcome is logged but never reaches the row.
RecordOutcomeLogOnly(p, row, d) == row

RecordOutcome(p, row, d) ==
  [row EXCEPT !.plan = IF Succeeded(p, row) THEN 0 ELSE d]

\* Variant: the row the sweep loaded, whatever happened to the file since.
TargetRowLoaded(p) == planLoaded[p]

\* Prefer the row on disk; the loaded one only when the file has lost it.
TargetRow(p) == IF rows[p].status # "absent" THEN rows[p] ELSE planLoaded[p]

PlanReread(d) ==
  /\ planPc = "reread"
  /\ ~SyncHoldsLoop
  /\ planPc' = "reload"
  /\ planTarget' = RecordOutcome(planCur, TargetRow(planCur), d)
  /\ owed' = [owed EXCEPT ![planCur] = IF Succeeded(planCur, rows[planCur]) THEN 0 ELSE d]
  /\ UNCHANGED <<storeVars, syncVars, planLoaded, planTodo, planCur, planOk,
                 planCurrent, sessVars, answered, unseen>>

PlanReload ==
  /\ planPc = "reload"
  /\ planPc' = "save"
  /\ planCurrent' = [rows EXCEPT ![planCur] = planTarget]
  /\ UNCHANGED <<storeVars, syncVars, planLoaded, planTodo, planCur, planOk,
                 planTarget, sessVars, history>>

PlanSave ==
  /\ planPc = "save"
  /\ planPc' = "visit"
  /\ Replace("plan")
  /\ planCur' = Nobody
  /\ planOk' = FALSE
  /\ planTarget' = Absent
  /\ planCurrent' = NoRows
  /\ UNCHANGED <<ended, touched, syncVars, planLoaded, planTodo, sessVars>>

\* Every due row was visited, or the dm cap is reached and the loop breaks.
PlanEnd ==
  /\ planPc = "visit"
  /\ planPc' = "idle"
  /\ planLoaded' = NoRows
  /\ planTodo' = {}
  /\ UNCHANGED <<storeVars, syncVars, planCur, planOk, planTarget, planCurrent,
                 sessVars, history>>

-----------------------------------------------------------------------------
(* The MCP tools, called by a session on the prospect it works on. *)

\* The conversation a session writes has a new last_action_timestamp, or it has not.
Stamps(p, fresh) == touched' = IF fresh THEN touched \cup {p} ELSE touched \ {p}

\* upsert_conversation with a live stage (a message was sent or planned): it
\* overwrites the file, a terminal stage included.
UpsertLive(s, fresh) ==
  /\ sessPc[s] = "on"
  /\ ended' = ended \ {sessFor[s]}
  /\ Stamps(sessFor[s], fresh)
  /\ UNCHANGED <<rows, syncVars, planVars, sessVars, history>>

\* upsert_conversation with a terminal stage: the conversation is written, then
\* _mark_connection_ended reads connections.json and, if there is a row to end,
\* goes on to write it.
UpsertTerminal(s, fresh) ==
  LET p == sessFor[s] IN
  /\ sessPc[s] = "on"
  /\ ended' = ended \cup {p}
  /\ Stamps(p, fresh)
  /\ IF NothingToEnd(rows, p)
     THEN UNCHANGED <<sessPc, sessNew>>
     ELSE /\ sessPc' = [sessPc EXCEPT ![s] = "write"]
          /\ sessNew' = [sessNew EXCEPT ![s] = MarkEnded(rows, p)]
  /\ UNCHANGED <<rows, syncVars, planVars, sessFor, history>>

\* save_connection: the row starts afresh with the status the skill gives it, pending
\* after a request, connected after a look at the profile, ended after a conversation.
SaveRow(s, st) ==
  LET p == sessFor[s] IN
  /\ sessPc[s] = "on"
  /\ s = "desk" \/ st \in RunSaves
  /\ sessPc' = [sessPc EXCEPT ![s] = "write"]
  /\ sessNew' = [sessNew EXCEPT ![s] = SaveConnection(rows, p, st)]
  /\ owed' = [owed EXCEPT ![p] = 0]
  /\ answered' = IF st = "connected" THEN answered \cup {p} ELSE answered
  /\ UNCHANGED <<storeVars, syncVars, planVars, sessFor, unseen>>

McpWrite(s) ==
  /\ sessPc[s] = "write"
  /\ Replace(s)
  /\ sessPc' = [sessPc EXCEPT ![s] = "on"]
  /\ sessNew' = [sessNew EXCEPT ![s] = NoRows]
  /\ UNCHANGED <<ended, touched, syncVars, planVars, sessFor>>

DeskOpen(p) ==
  /\ DeskOn
  /\ sessPc["desk"] = "off"
  /\ sessPc' = [sessPc EXCEPT !["desk"] = "on"]
  /\ sessFor' = [sessFor EXCEPT !["desk"] = p]
  /\ UNCHANGED <<storeVars, syncVars, planVars, sessNew, history>>

SessionEnds(s) ==
  /\ s # "planner"
  /\ sessPc[s] # "off"
  /\ Close(s)
  /\ UNCHANGED <<storeVars, syncVars, planVars, history>>

-----------------------------------------------------------------------------
(* The cron process is killed and started again: both sweeps are forgotten. *)
(* A claude process it was waiting for dies with it or lives on.            *)

Crash ==
  /\ CrashOn
  /\ syncPc # "idle" \/ planPc # "idle"
  /\ syncPc' = "idle" /\ syncSnap' = NoRows /\ syncTodo' = {} /\ syncCur' = Nobody
  /\ syncAge' = 0
  /\ planPc' = "idle" /\ planLoaded' = NoRows /\ planTodo' = {} /\ planCur' = Nobody
  /\ planOk' = FALSE /\ planTarget' = Absent /\ planCurrent' = NoRows
  /\ \/ Close("planner")
     \/ /\ sessPc["planner"] # "off"
        /\ sessPc["orphan"] = "off"
        /\ sessPc' = [sessPc EXCEPT !["orphan"] = sessPc["planner"], !["planner"] = "off"]
        /\ sessFor' = [sessFor EXCEPT !["orphan"] = sessFor["planner"], !["planner"] = Nobody]
        /\ sessNew' = [sessNew EXCEPT !["orphan"] = sessNew["planner"], !["planner"] = NoRows]
  /\ UNCHANGED <<storeVars, history>>

-----------------------------------------------------------------------------
SyncNext ==
  \/ SyncLoad
  \/ \E p \in Prospects : SyncProbe(p)
  \/ \E res \in {"yes", "no", "error"}, d \in Delays : SyncResult(res, d)
  \/ SyncSave

PlanNext ==
  \/ PlanLoad
  \/ \E p \in Prospects : PlanDispatch(p)
  \/ \E ok \in BOOLEAN : RunnerReturns(ok)
  \/ \E d \in Delays : PlanReread(d)
  \/ PlanReload
  \/ PlanSave
  \/ PlanEnd

SessionNext(s) ==
  \/ \E fresh \in BOOLEAN : UpsertLive(s, fresh) \/ UpsertTerminal(s, fresh)
  \/ \E st \in Saveable : SaveRow(s, st)
  \/ McpWrite(s)
  \/ SessionEnds(s)

Next ==
  \/ Tick
  \/ SyncNext
  \/ PlanNext
  \/ \E s \in Sessions : SessionNext(s)
  \/ \E p \in Prospects : DeskOpen(p)
  \/ Crash

Spec == Init /\ [][Next]_vars

(* Scheduling.  The event loop runs every ready task, so a step of a sweep  *)
(* that is enabled again and again is taken; `claude -p` and the browser    *)
(* answer or time out; the routine is started again at every tick of the    *)
(* scheduler.  SF of SyncProbe(p) says that the daily profile_view cap does *)
(* not stop the sweep before p for ever: it is an assumption on the number  *)
(* of due rows, not something the loop guarantees.  SF of the positive      *)
(* answer says that an accepted invitation is not answered by errors and    *)
(* misread pages alone.                                                     *)
Fairness ==
  /\ WF_vars(Tick)
  /\ SF_vars(SyncLoad)
  /\ \A p \in Prospects :
        /\ SF_vars(SyncProbe(p))
        /\ SF_vars(p \in Accepting /\ syncCur = p /\ \E d \in Delays : SyncResult("yes", d))
  /\ SF_vars(\E res \in {"no", "error"}, d \in Delays : SyncResult(res, d))
  /\ WF_vars(syncTodo = {} /\ SyncSave)
  /\ WF_vars(PlanReload)
  /\ WF_vars(PlanSave)
  /\ WF_vars(PlanEnd)

FairSpec == Spec /\ Fairness

-----------------------------------------------------------------------------
(* Properties. *)

\* A copy of the file calls connected only who was called so.
Sound(f) == \A p \in Prospects : f[p].status = "connected" => p \in answered

\* connections.json calls a prospect connected only if a probe of this prospect said so
\* or somebody saved it: whatever copies the sweeps and the sessions write over each
\* other, and wherever the cron process dies, no error, no other prospect's answer and
\* no stale copy does.  (Whether an answer is true is another matter: ReadDegree.)
ConnectedOnlyIfAnswered == Sound(rows)

\* No planner run, awaited or orphaned, is ever working on a prospect nobody called
\* connected, although the row that let the run through was read long before.
PlannedOnlyIfAnswered ==
  \A s \in {"planner", "orphan"} : sessPc[s] # "off" => sessFor[s] \in answered

\* A prospect drops out of connections.json in one way only: its row was added while some
\* other writer held a copy, and that copy is written.  A row that was there when the
\* copies were read survives every save, of a sweep, a session or an orphaned run.
NoRowVanishes ==
  [][\A p \in Prospects :
       rows[p].status # "absent" /\ rows'[p].status = "absent" => p \in unseen]_vars

\* The save of the plan sweep changes no connection_status, the one its own run
\* just ended included: a failed run never advances the status and a finished
\* one is not undone ("re-read the file so terminal status sticks").
PlanKeepsStatus ==
  [][PlanSave => \A p \in Prospects : rows'[p].status = rows[p].status]_vars

\* No save of a sweep takes a row out of ended: what the planner ended through
\* the MCP server stays ended in the file.
TerminalSticks ==
  [][SyncSave \/ PlanSave =>
       \A p \in Prospects : rows[p].status = "ended" => rows'[p].status = "ended"]_vars

\* A run that failed or had nothing to do is not repeated before the delay that
\* was decided for it has elapsed.
BackoffHonoured ==
  [][\A p \in Prospects : PlanDispatch(p) => owed[p] = 0]_vars

\* An accepted invitation is noticed: the pending row of an accepted prospect
\* eventually stops being pending, across backoffs, errors and plan-sweep saves.
AcceptedEventuallyNoticed ==
  \A p \in Accepting : rows[p].status = "pending" ~> rows[p].status # "pending"
=============================================================================
