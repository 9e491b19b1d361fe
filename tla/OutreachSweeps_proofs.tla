------------------------- MODULE OutreachSweeps_proofs -------------------------
(***************************************************************************)
(* Proofs about OutreachSweeps for any set of prospects, any longest delay *)
(* and any setting of the switches: type correctness, and that neither     *)
(* connections.json nor a planner run ever treats a prospect as connected  *)
(* whom no probe and no save_connection called so.                         *)
(*                                                                         *)
(* ConnectedOnlyIfAnswered is not inductive: a save puts back a copy taken *)
(* many steps ago.  It becomes inductive once every copy in flight is      *)
(* required to be sound too (Copies), and with it what the plan sweep took *)
(* from its copy: the rows it will visit and the prospect it works on      *)
(* (Dispatches).                                                           *)
(***************************************************************************)
EXTENDS OutreachSweeps, TLAPS

Copies ==
  /\ Sound(rows)
  /\ Sound(syncSnap)
  /\ Sound(planLoaded)
  /\ Sound(planCurrent)
  /\ \A s \in Sessions : Sound(sessNew[s])
  /\ planPc \in {"reload", "save"} => (planTarget.status = "connected" => planCur \in answered)

Dispatches ==
  /\ planTodo \subseteq answered
  /\ PlannedOnlyIfAnswered

IInv == TypeOK /\ Copies /\ Dispatches

-----------------------------------------------------------------------------
(* What the edits of the file return. *)

LEMMA FreshType ==
  ASSUME NEW st \in Statuses PROVE Fresh(st) \in Row
BY DelayAssumption DEF Fresh, Row

LEMMA NoRowsType == NoRows \in Rows /\ Sound(NoRows) /\ Absent \in Row
BY DelayAssumption DEF NoRows, Rows, Row, Absent, Fresh, Sound, Statuses

LEMMA AgeType ==
  ASSUME NEW f \in Rows
  PROVE  /\ Age(f) \in Rows
         /\ \A p \in Prospects : Age(f)[p].status = f[p].status
<1>1. ASSUME NEW r \in Row PROVE AgeRow(r) \in Row /\ AgeRow(r).status = r.status
  <2>1. ASSUME NEW n \in 0..MaxDelay PROVE Older(n) \in 0..MaxDelay
    BY DelayAssumption DEF Older
  <2>2. Older(r.sync) \in 0..MaxDelay /\ Older(r.plan) \in 0..MaxDelay
    BY <2>1 DEF Row
  <2>3. QED
    BY <2>2 DEF AgeRow, Row
<1>2. QED
  BY <1>1 DEF Age, Rows

LEMMA AgeSound ==
  ASSUME NEW f \in Rows, Sound(f) PROVE Sound(Age(f))
BY AgeType DEF Sound

LEMMA EditType ==
  ASSUME NEW f \in Rows, NEW p \in Prospects, NEW r \in Row
  PROVE  [f EXCEPT ![p] = r] \in Rows
BY DEF Rows

\* A row keeps its type when one of its fields is overwritten.
LEMMA FieldType ==
  ASSUME NEW r \in Row, NEW n \in 0..MaxDelay, NEW st \in Statuses
  PROVE  /\ [r EXCEPT !.sync = n] \in Row
         /\ [r EXCEPT !.plan = n] \in Row
         /\ [r EXCEPT !.status = st] \in Row
         /\ [r EXCEPT !.status = st, !.sync = n] \in Row
BY DEF Row

LEMMA ProbeType ==
  ASSUME TypeOK, NEW row \in Row, NEW res, NEW d \in Delays
  PROVE  ApplyProbe(row, res, d) \in Row
<1>1. SinceStart(d) \in 0..MaxDelay /\ 0 \in 0..MaxDelay
  BY DelayAssumption DEF SinceStart, Delays, TypeOK
<1>2. "connected" \in Statuses
  BY DEF Statuses
<1>3. QED
  BY <1>1, <1>2, FieldType DEF ApplyProbe

LEMMA OutcomeType ==
  ASSUME NEW p, NEW row \in Row, NEW d \in Delays
  PROVE  RecordOutcome(p, row, d) \in Row
<1>1. d \in 0..MaxDelay /\ 0 \in 0..MaxDelay
  BY DelayAssumption DEF Delays
<1>2. QED
  BY <1>1, FieldType DEF RecordOutcome, Statuses

LEMMA SessionEditType ==
  ASSUME NEW f \in Rows, NEW p \in Prospects
  PROVE  /\ MarkEnded(f, p) \in Rows
         /\ \A st \in Statuses : SaveConnection(f, p, st) \in Rows
<1>1. [f[p] EXCEPT !.status = "ended"] \in Row
  BY DEF Rows, Row, Statuses
<1>2. MarkEnded(f, p) = [f EXCEPT ![p] = [f[p] EXCEPT !.status = "ended"]]
  BY DEF MarkEnded
<1>3. QED
  BY <1>1, <1>2, EditType, FreshType DEF SaveConnection

-----------------------------------------------------------------------------
(* Type correctness. *)

LEMMA InitType == Init => TypeOK
<1>1. Fresh("pending") \in Row /\ Fresh("connected") \in Row
  BY FreshType DEF Statuses
<1>2. Init => rows \in Rows
  BY <1>1, NoRowsType DEF Init, Rows
<1>3. 0 \in 0..MaxDelay
  BY DelayAssumption
<1>4. ASSUME Init
      PROVE  /\ sessPc \in [Sessions -> {"off", "on", "write"}]
             /\ sessFor \in [Sessions -> Prospects \cup {Nobody}]
             /\ \A s \in Sessions : sessPc[s] # "off" => sessFor[s] \in Prospects
             /\ sessNew \in [Sessions -> Rows]
             /\ owed \in [Prospects -> 0..MaxDelay]
  BY <1>3, <1>4, NoRowsType DEF Init
<1>5. QED
  BY <1>2, <1>3, <1>4, NoRowsType DEF Init, TypeOK

\* A save: the file is one of the copies.
LEMMA ReplaceType ==
  ASSUME TypeOK, NEW w \in Writers, Replace(w)
  PROVE  /\ rows' \in Rows /\ unseen' \in SUBSET Prospects
         /\ UNCHANGED <<owed, answered>>
BY DEF Replace, Writers, Sessions, Copy, TypeOK

LEMMA SyncType ==
  ASSUME TypeOK, SyncNext PROVE TypeOK'
<1>1. CASE SyncLoad
  BY <1>1, DelayAssumption DEF SyncLoad, TypeOK, SyncDue, storeVars, planVars, sessVars, history
<1>2. ASSUME NEW p \in Prospects, SyncProbe(p) PROVE TypeOK'
  BY <1>2 DEF SyncProbe, TypeOK, storeVars, planVars, sessVars, history
<1>3. ASSUME NEW res \in {"yes", "no", "error"}, NEW d \in Delays, SyncResult(res, d)
      PROVE  TypeOK'
  <2>1. syncCur \in Prospects /\ syncSnap[syncCur] \in Row
    BY <1>3 DEF SyncResult, TypeOK, Rows
  <2>2. ApplyProbe(syncSnap[syncCur], res, d) \in Row
    BY <2>1, ProbeType
  <2>3. syncSnap' \in Rows
    BY <1>3, <2>1, <2>2, EditType DEF SyncResult, TypeOK
  <2>4. QED
    BY <1>3, <2>3 DEF SyncResult, TypeOK, storeVars, planVars, sessVars
<1>4. CASE SyncSave
  <2>1. Replace("sync") /\ "sync" \in Writers
    BY <1>4 DEF SyncSave, Writers
  <2>2. QED
    BY <1>4, <2>1, ReplaceType, NoRowsType, DelayAssumption DEF SyncSave, TypeOK, planVars, sessVars
<1>5. QED
  BY <1>1, <1>2, <1>3, <1>4 DEF SyncNext

LEMMA CloseType ==
  ASSUME TypeOK, NEW s \in Sessions, Close(s)
  PROVE  /\ sessPc' \in [Sessions -> {"off", "on", "write"}]
         /\ sessFor' \in [Sessions -> Prospects \cup {Nobody}]
         /\ \A t \in Sessions : sessPc'[t] # "off" => sessFor'[t] \in Prospects
         /\ sessNew' \in [Sessions -> Rows]
BY NoRowsType DEF Close, TypeOK

LEMMA PlanType ==
  ASSUME TypeOK, PlanNext PROVE TypeOK'
<1>1. CASE PlanLoad
  BY <1>1 DEF PlanLoad, TypeOK, PlanDue, storeVars, syncVars, sessVars, history
<1>2. ASSUME NEW p \in Prospects, PlanDispatch(p) PROVE TypeOK'
  <2>1. /\ sessPc' \in [Sessions -> {"off", "on", "write"}]
        /\ sessFor' \in [Sessions -> Prospects \cup {Nobody}]
        /\ \A t \in Sessions : sessPc'[t] # "off" => sessFor'[t] \in Prospects
    BY <1>2 DEF PlanDispatch, TypeOK, Sessions
  <2>2. QED
    BY <1>2, <2>1 DEF PlanDispatch, TypeOK, syncVars, history
<1>3. ASSUME NEW ok \in BOOLEAN, RunnerReturns(ok) PROVE TypeOK'
  <2>1. Close("planner") /\ "planner" \in Sessions
    BY <1>3 DEF RunnerReturns, Sessions
  <2>2. QED
    BY <1>3, <2>1, CloseType DEF RunnerReturns, TypeOK, storeVars, syncVars, history
<1>4. ASSUME NEW d \in Delays, PlanReread(d) PROVE TypeOK'
  <2>1. planCur \in Prospects /\ TargetRow(planCur) \in Row
    BY <1>4 DEF PlanReread, TypeOK, TargetRow, Rows
  <2>2. planTarget' \in Row
    BY <1>4, <2>1, OutcomeType DEF PlanReread
  <2>3. owed' \in [Prospects -> 0..MaxDelay]
    BY <1>4, DelayAssumption DEF PlanReread, TypeOK, Delays
  <2>4. QED
    BY <1>4, <2>2, <2>3 DEF PlanReread, TypeOK, storeVars, syncVars, sessVars
<1>5. CASE PlanReload
  <2>1. planCurrent' \in Rows
    BY <1>5, EditType DEF PlanReload, TypeOK
  <2>2. QED
    BY <1>5, <2>1 DEF PlanReload, TypeOK, storeVars, syncVars, sessVars, history
<1>6. CASE PlanSave
  <2>1. Replace("plan") /\ "plan" \in Writers
    BY <1>6 DEF PlanSave, Writers
  <2>2. QED
    BY <1>6, <2>1, ReplaceType, NoRowsType DEF PlanSave, TypeOK, syncVars, sessVars
<1>7. CASE PlanEnd
  BY <1>7, NoRowsType DEF PlanEnd, TypeOK, storeVars, syncVars, sessVars, history
<1>8. QED
  BY <1>1, <1>2, <1>3, <1>4, <1>5, <1>6, <1>7 DEF PlanNext

LEMMA SessionType ==
  ASSUME TypeOK, NEW s \in Sessions, SessionNext(s) PROVE TypeOK'
<1>1. ASSUME NEW fresh \in BOOLEAN, UpsertLive(s, fresh) PROVE TypeOK'
  <2>1. sessFor[s] \in Prospects
    BY <1>1 DEF UpsertLive, TypeOK
  <2>2. QED
    BY <1>1, <2>1 DEF UpsertLive, Stamps, TypeOK, syncVars, planVars, sessVars, history
<1>2. ASSUME NEW fresh \in BOOLEAN, UpsertTerminal(s, fresh) PROVE TypeOK'
  <2>1. sessFor[s] \in Prospects
    BY <1>2 DEF UpsertTerminal, TypeOK
  <2>2. MarkEnded(rows, sessFor[s]) \in Rows
    BY <2>1, SessionEditType DEF TypeOK
  <2>3. /\ sessPc' \in [Sessions -> {"off", "on", "write"}]
        /\ \A t \in Sessions : sessPc'[t] # "off" => sessPc[t] # "off"
        /\ sessNew' \in [Sessions -> Rows]
    BY <1>2, <2>2 DEF UpsertTerminal, TypeOK
  <2>4. ended' \in SUBSET Prospects /\ touched' \in SUBSET Prospects
    BY <1>2, <2>1 DEF UpsertTerminal, Stamps, TypeOK
  <2>5. UNCHANGED <<rows, syncVars, planVars, sessFor, history>>
    BY <1>2 DEF UpsertTerminal
  <2>6. QED
    BY <2>3, <2>4, <2>5 DEF TypeOK, syncVars, planVars, history
<1>3. ASSUME NEW st \in Saveable, SaveRow(s, st) PROVE TypeOK'
  <2>1. sessFor[s] \in Prospects
    BY <1>3 DEF SaveRow, TypeOK
  <2>2. SaveConnection(rows, sessFor[s], st) \in Rows
    BY <2>1, SessionEditType DEF TypeOK, Saveable, Statuses
  <2>3. owed' \in [Prospects -> 0..MaxDelay] /\ answered' \in SUBSET Prospects
    BY <1>3, <2>1, DelayAssumption DEF SaveRow, TypeOK
  <2>4. QED
    BY <1>3, <2>2, <2>3 DEF SaveRow, TypeOK, storeVars, syncVars, planVars
<1>4. CASE McpWrite(s)
  <2>1. Replace(s) /\ s \in Writers
    BY <1>4 DEF McpWrite, Writers
  <2>2. QED
    BY <1>4, <2>1, ReplaceType, NoRowsType DEF McpWrite, TypeOK, syncVars, planVars
<1>5. CASE SessionEnds(s)
  BY <1>5, CloseType DEF SessionEnds, TypeOK, storeVars, syncVars, planVars, history
<1>6. QED
  BY <1>1, <1>2, <1>3, <1>4, <1>5 DEF SessionNext

LEMMA DeskType ==
  ASSUME TypeOK, NEW p \in Prospects, DeskOpen(p) PROVE TypeOK'
BY DEF DeskOpen, TypeOK, Sessions, storeVars, syncVars, planVars, history

LEMMA TickType ==
  ASSUME TypeOK, Tick PROVE TypeOK'
<1>1. /\ rows' \in Rows /\ syncSnap' \in Rows /\ planLoaded' \in Rows
      /\ planCurrent' \in Rows /\ sessNew' \in [Sessions -> Rows]
  BY AgeType DEF Tick, TypeOK
<1>2. planTarget' \in Row
  <2>1. Older(planTarget.sync) \in 0..MaxDelay /\ Older(planTarget.plan) \in 0..MaxDelay
    BY DelayAssumption DEF Older, TypeOK, Row
  <2>2. QED
    BY <2>1 DEF Tick, TypeOK, AgeRow, Row
<1>3. owed' \in [Prospects -> 0..MaxDelay]
  BY DelayAssumption DEF Tick, TypeOK, Older
<1>4. syncAge' \in 0..MaxDelay
  BY DelayAssumption DEF Tick, TypeOK
<1>5. UNCHANGED <<ended, touched, syncPc, syncTodo, syncCur,
                  planPc, planTodo, planCur, planOk, sessPc, sessFor>>
  BY DEF Tick
<1>6. UNCHANGED <<answered, unseen>>
  BY DEF Tick
<1>7. QED
  BY <1>1, <1>2, <1>3, <1>4, <1>5, <1>6 DEF TypeOK

LEMMA CrashType ==
  ASSUME TypeOK, Crash PROVE TypeOK'
<1>1. /\ sessPc' \in [Sessions -> {"off", "on", "write"}]
      /\ sessFor' \in [Sessions -> Prospects \cup {Nobody}]
      /\ \A t \in Sessions : sessPc'[t] # "off" => sessFor'[t] \in Prospects
      /\ sessNew' \in [Sessions -> Rows]
  <2>1. CASE Close("planner")
    BY <2>1, CloseType DEF Sessions
  <2>2. CASE
         /\ sessPc["planner"] # "off"
         /\ sessPc["orphan"] = "off"
         /\ sessPc' = [sessPc EXCEPT !["orphan"] = sessPc["planner"], !["planner"] = "off"]
         /\ sessFor' = [sessFor EXCEPT !["orphan"] = sessFor["planner"], !["planner"] = Nobody]
         /\ sessNew' = [sessNew EXCEPT !["orphan"] = sessNew["planner"], !["planner"] = NoRows]
    BY <2>2, NoRowsType DEF TypeOK, Sessions
  <2>3. QED
    BY <2>1, <2>2 DEF Crash
<1>2. 0 \in 0..MaxDelay
  BY DelayAssumption
<1>3. /\ rows' \in Rows /\ ended' \in SUBSET Prospects /\ touched' \in SUBSET Prospects
      /\ answered' \in SUBSET Prospects /\ unseen' \in SUBSET Prospects
      /\ owed' \in [Prospects -> 0..MaxDelay]
  BY DEF Crash, TypeOK, storeVars, history
<1>4. /\ syncPc' = "idle" /\ syncSnap' = NoRows /\ syncTodo' = {} /\ syncCur' = Nobody
      /\ syncAge' = 0 /\ planPc' = "idle" /\ planLoaded' = NoRows /\ planTodo' = {}
      /\ planCur' = Nobody /\ planOk' = FALSE /\ planTarget' = Absent /\ planCurrent' = NoRows
  BY DEF Crash
<1>5. QED
  BY <1>1, <1>2, <1>3, <1>4, NoRowsType DEF TypeOK

LEMMA StepType ==
  ASSUME TypeOK, [Next]_vars PROVE TypeOK'
<1>1. CASE UNCHANGED vars
  BY <1>1 DEF vars, storeVars, syncVars, planVars, sessVars, history, TypeOK
<1>2. QED
  BY <1>1, TickType, SyncType, PlanType, SessionType, DeskType, CrashType DEF Next

\* Every variable keeps its type, whoever writes the file and wherever the cron
\* process dies.
THEOREM TypeCorrect == Spec => []TypeOK
<1>1. Init => TypeOK
  BY InitType
<1>2. TypeOK /\ [Next]_vars => TypeOK'
  BY StepType
<1>3. QED
  BY <1>1, <1>2, PTL DEF Spec
-----------------------------------------------------------------------------
(* The copies stay sound. *)

LEMMA InitCopies == Init => Copies /\ Dispatches
<1>1. ASSUME Init PROVE Sound(rows)
  BY <1>1 DEF Init, Sound
<1>2. ASSUME Init PROVE \A s \in Sessions : Sound(sessNew[s])
  BY <1>2, NoRowsType DEF Init
<1>3. ASSUME Init PROVE Dispatches
  BY <1>3 DEF Init, Dispatches, PlannedOnlyIfAnswered, Sessions
<1>4. QED
  BY <1>1, <1>2, <1>3, NoRowsType DEF Init, Copies

LEMMA TickCopies ==
  ASSUME IInv, Tick PROVE Copies' /\ Dispatches'
<1>1. /\ Sound(Age(rows)) /\ Sound(Age(syncSnap)) /\ Sound(Age(planLoaded))
      /\ Sound(Age(planCurrent)) /\ \A s \in Sessions : Sound(Age(sessNew[s]))
  BY AgeSound DEF IInv, TypeOK, Copies
<1>2. AgeRow(planTarget).status = planTarget.status
  BY DEF IInv, TypeOK, AgeRow, Row
<1>3. Copies'
  BY <1>1, <1>2 DEF Tick, IInv, Copies, Sound
<1>4. Dispatches'
  BY DEF Tick, IInv, Dispatches, PlannedOnlyIfAnswered
<1>5. QED
  BY <1>3, <1>4

\* What was sound stays so when one more prospect is called connected.
LEMMA SoundGrows ==
  ASSUME NEW f, Sound(f), answered \subseteq answered'
  PROVE  \A p \in Prospects : f[p].status = "connected" => p \in answered'
BY DEF Sound

\* A save of a sound copy leaves a sound file.
LEMMA ReplaceSound ==
  ASSUME IInv, NEW w \in Writers, Replace(w)
  PROVE  Sound(rows') /\ UNCHANGED answered
BY DEF Replace, Writers, Sessions, Copy, IInv, Copies

LEMMA SyncCopies ==
  ASSUME IInv, SyncNext PROVE Copies' /\ Dispatches'
<1>1. UNCHANGED <<planVars, sessVars>> /\ answered \subseteq answered'
  BY DEF SyncNext, SyncLoad, SyncProbe, SyncResult, SyncSave, Replace, history
<1>2. /\ \A p \in Prospects : rows'[p].status = "connected" => p \in answered'
      /\ \A p \in Prospects : syncSnap'[p].status = "connected" => p \in answered'
  <2>1. CASE SyncLoad
    BY <2>1 DEF SyncLoad, IInv, Copies, Sound, storeVars, history
  <2>2. ASSUME NEW p \in Prospects, SyncProbe(p)
        PROVE  /\ rows' = rows /\ syncSnap' = syncSnap /\ answered' = answered
    BY <2>2 DEF SyncProbe, storeVars, history
  <2>3. ASSUME NEW res \in {"yes", "no", "error"}, NEW d \in Delays, SyncResult(res, d)
        PROVE  /\ \A p \in Prospects : rows'[p].status = "connected" => p \in answered'
               /\ \A p \in Prospects : syncSnap'[p].status = "connected" => p \in answered'
    <3>1. /\ syncSnap \in [Prospects -> Row] /\ rows' = rows
          /\ syncSnap' = [syncSnap EXCEPT ![syncCur] = ApplyProbe(syncSnap[syncCur], res, d)]
          /\ answered' = IF res = "yes" THEN answered \cup {syncCur} ELSE answered
      BY <2>3 DEF SyncResult, IInv, TypeOK, Rows, storeVars
    <3>2. syncCur \in Prospects
      BY <2>3 DEF SyncResult, IInv, TypeOK
    <3>3. CASE res = "yes"
      BY <3>1, <3>2, <3>3 DEF IInv, Copies, Sound
    <3>4. CASE res # "yes"
      <4>1. ApplyProbe(syncSnap[syncCur], res, d).status = syncSnap[syncCur].status
        BY <3>1, <3>2, <3>4 DEF ApplyProbe, Row
      <4>2. QED
        BY <3>1, <3>2, <3>4, <4>1 DEF IInv, Copies, Sound
    <3>5. QED
      BY <3>3, <3>4
  <2>4. CASE SyncSave
    <3>1. Replace("sync") /\ "sync" \in Writers /\ syncSnap' = NoRows
      BY <2>4 DEF SyncSave, Writers
    <3>2. Sound(rows') /\ Sound(NoRows) /\ UNCHANGED answered
      BY <3>1, ReplaceSound, NoRowsType
    <3>3. QED
      BY <3>1, <3>2 DEF Sound
  <2>5. QED
    BY <2>1, <2>2, <2>3, <2>4 DEF SyncNext, IInv, Copies, Sound
<1>3. Copies'
  BY <1>1, <1>2, SoundGrows DEF IInv, Copies, Sound, planVars, sessVars
<1>4. Dispatches'
  BY <1>1 DEF IInv, Dispatches, PlannedOnlyIfAnswered, planVars, sessVars, Sessions
<1>5. QED
  BY <1>3, <1>4

\* A session that is closed takes no dispatch with it.
LEMMA CloseCopies ==
  ASSUME IInv, NEW s \in Sessions, Close(s), UNCHANGED answered
  PROVE  /\ \A t \in Sessions : Sound(sessNew'[t])
         /\ PlannedOnlyIfAnswered'
<1>1. \A t \in Sessions : Sound(sessNew'[t])
  BY NoRowsType DEF Close, IInv, TypeOK, Copies
<1>2. PlannedOnlyIfAnswered'
  BY DEF Close, IInv, TypeOK, Dispatches, PlannedOnlyIfAnswered, Sessions
<1>3. QED
  BY <1>1, <1>2

\* Whoever the plan sweep finds due in a sound copy has answered.
LEMMA DueAnswered ==
  ASSUME NEW f \in Rows, Sound(f) PROVE PlanDue(f) \subseteq answered
BY DEF PlanDue, Sound, SkipConnectionStatuses, Rows, Row, Statuses

LEMMA PlanCopies ==
  ASSUME IInv, PlanNext PROVE Copies' /\ Dispatches'
<1>0. UNCHANGED answered
  BY DEF PlanNext, PlanLoad, PlanDispatch, RunnerReturns, PlanReread, PlanReload, PlanSave, PlanEnd,
         Replace, history
<1>1. CASE PlanLoad
  <2>1. PlanDue(rows) \subseteq answered
    BY DueAnswered DEF IInv, TypeOK, Copies
  <2>2. Copies'
    BY <1>0, <1>1 DEF PlanLoad, IInv, Copies, Sound, storeVars, syncVars, sessVars
  <2>3. Dispatches'
    BY <1>0, <1>1, <2>1 DEF PlanLoad, IInv, Dispatches, PlannedOnlyIfAnswered, sessVars
  <2>4. QED
    BY <2>2, <2>3
<1>2. ASSUME NEW p \in Prospects, PlanDispatch(p) PROVE Copies' /\ Dispatches'
  <2>1. Copies'
    BY <1>0, <1>2 DEF PlanDispatch, IInv, Copies, Sound, syncVars
  <2>2. Dispatches'
    BY <1>0, <1>2 DEF PlanDispatch, IInv, TypeOK, Dispatches, PlannedOnlyIfAnswered, Sessions
  <2>3. QED
    BY <2>1, <2>2
<1>3. ASSUME NEW ok \in BOOLEAN, RunnerReturns(ok) PROVE Copies' /\ Dispatches'
  <2>1. Close("planner") /\ "planner" \in Sessions
    BY <1>3 DEF RunnerReturns, Sessions
  <2>2. (\A t \in Sessions : Sound(sessNew'[t])) /\ PlannedOnlyIfAnswered'
    BY <1>0, <2>1, CloseCopies
  <2>3. Copies'
    BY <1>0, <1>3, <2>2 DEF RunnerReturns, IInv, Copies, Sound, storeVars, syncVars
  <2>4. Dispatches'
    BY <1>0, <1>3, <2>2 DEF RunnerReturns, IInv, Dispatches
  <2>5. QED
    BY <2>3, <2>4
<1>4. ASSUME NEW d \in Delays, PlanReread(d) PROVE Copies' /\ Dispatches'
  <2>1. planCur \in Prospects /\ TargetRow(planCur) \in Row
    BY <1>4 DEF PlanReread, IInv, TypeOK, TargetRow, Rows
  <2>2. TargetRow(planCur).status = "connected" => planCur \in answered
    BY <2>1 DEF TargetRow, IInv, Copies, Sound
  <2>3. planTarget'.status = TargetRow(planCur).status
    BY <1>4, <2>1 DEF PlanReread, RecordOutcome, Row
  <2>4. Copies'
    BY <1>0, <1>4, <2>2, <2>3 DEF PlanReread, IInv, Copies, Sound, storeVars, syncVars, sessVars
  <2>5. Dispatches'
    BY <1>0, <1>4 DEF PlanReread, IInv, Dispatches, PlannedOnlyIfAnswered, sessVars
  <2>6. QED
    BY <2>4, <2>5
<1>5. CASE PlanReload
  <2>1. Sound(planCurrent')
    BY <1>5 DEF PlanReload, IInv, TypeOK, Rows, Copies, Sound
  <2>2. Copies'
    BY <1>0, <1>5, <2>1 DEF PlanReload, IInv, Copies, Sound, storeVars, syncVars, sessVars
  <2>3. Dispatches'
    BY <1>0, <1>5 DEF PlanReload, IInv, Dispatches, PlannedOnlyIfAnswered, sessVars
  <2>4. QED
    BY <2>2, <2>3
<1>6. CASE PlanSave
  <2>0. Sound(rows')
    BY <1>6, ReplaceSound DEF PlanSave, Writers
  <2>1. Copies'
    BY <1>0, <1>6, <2>0, NoRowsType DEF PlanSave, IInv, Copies, Sound, syncVars, sessVars
  <2>2. Dispatches'
    BY <1>0, <1>6 DEF PlanSave, IInv, Dispatches, PlannedOnlyIfAnswered, sessVars
  <2>3. QED
    BY <2>1, <2>2
<1>7. CASE PlanEnd
  <2>1. Copies'
    BY <1>0, <1>7, NoRowsType DEF PlanEnd, IInv, Copies, Sound, storeVars, syncVars, sessVars
  <2>2. Dispatches'
    BY <1>0, <1>7 DEF PlanEnd, IInv, Dispatches, PlannedOnlyIfAnswered, sessVars
  <2>3. QED
    BY <2>1, <2>2
<1>8. QED
  BY <1>1, <1>2, <1>3, <1>4, <1>5, <1>6, <1>7 DEF PlanNext

LEMMA SessionCopies ==
  ASSUME IInv, NEW s \in Sessions, SessionNext(s) PROVE Copies' /\ Dispatches'
<1>1. ASSUME NEW fresh \in BOOLEAN, UpsertLive(s, fresh) PROVE Copies' /\ Dispatches'
  <2>1. UNCHANGED <<rows, syncVars, planVars, sessVars, answered>>
    BY <1>1 DEF UpsertLive, history
  <2>2. Copies'
    BY <2>1 DEF IInv, Copies, Sound, syncVars, planVars, sessVars
  <2>3. Dispatches'
    BY <2>1 DEF IInv, Dispatches, PlannedOnlyIfAnswered, planVars, sessVars
  <2>4. QED
    BY <2>2, <2>3
<1>2. ASSUME NEW fresh \in BOOLEAN, UpsertTerminal(s, fresh) PROVE Copies' /\ Dispatches'
  <2>1. Sound(MarkEnded(rows, sessFor[s]))
    BY DEF MarkEnded, IInv, TypeOK, Rows, Row, Copies, Sound
  <2>2. /\ \A t \in Sessions : Sound(sessNew'[t])
        /\ \A t \in Sessions : sessPc'[t] # "off" => sessPc[t] # "off"
    BY <1>2, <2>1 DEF UpsertTerminal, IInv, TypeOK, Copies
  <2>3. UNCHANGED <<rows, answered, syncVars, planVars, sessFor>>
    BY <1>2 DEF UpsertTerminal, history
  <2>4. Copies'
    BY <2>2, <2>3 DEF IInv, Copies, Sound, syncVars, planVars
  <2>5. Dispatches'
    BY <2>2, <2>3 DEF IInv, Dispatches, PlannedOnlyIfAnswered, planVars, Sessions
  <2>6. QED
    BY <2>4, <2>5
<1>3. ASSUME NEW st \in Saveable, SaveRow(s, st) PROVE Copies' /\ Dispatches'
  <2>1. /\ UNCHANGED <<rows, syncVars, planVars, sessFor>> /\ answered \subseteq answered'
        /\ st = "connected" => sessFor[s] \in answered'
        /\ sessNew' = [sessNew EXCEPT ![s] = SaveConnection(rows, sessFor[s], st)]
        /\ sessPc' = [sessPc EXCEPT ![s] = "write"] /\ sessPc[s] # "off"
    BY <1>3 DEF SaveRow, storeVars
  <2>2. sessFor[s] \in Prospects
    BY <2>1 DEF IInv, TypeOK
  <2>3. \A p \in Prospects :
          SaveConnection(rows, sessFor[s], st)[p].status = "connected" => p \in answered'
    BY <2>1, <2>2 DEF SaveConnection, Fresh, IInv, TypeOK, Rows, Copies, Sound
  <2>4. \A t \in Sessions : \A p \in Prospects :
          sessNew'[t][p].status = "connected" => p \in answered'
    BY <2>1, <2>3 DEF IInv, TypeOK, Copies, Sound
  <2>5. Copies'
    BY <2>1, <2>4, SoundGrows DEF IInv, Copies, Sound, syncVars, planVars
  <2>6. \A t \in Sessions : sessPc'[t] # "off" => sessPc[t] # "off"
    BY <2>1 DEF IInv, TypeOK
  <2>7. Dispatches'
    BY <2>1, <2>6 DEF IInv, Dispatches, PlannedOnlyIfAnswered, planVars, Sessions
  <2>8. QED
    BY <2>5, <2>7
<1>4. CASE McpWrite(s)
  <2>1. Sound(rows') /\ UNCHANGED answered
    BY <1>4, ReplaceSound DEF McpWrite, Writers
  <2>2. /\ \A t \in Sessions : Sound(sessNew'[t])
        /\ \A t \in Sessions : sessPc'[t] # "off" => sessPc[t] # "off"
    BY <1>4, NoRowsType DEF McpWrite, IInv, TypeOK, Copies
  <2>3. UNCHANGED <<syncVars, planVars, sessFor>>
    BY <1>4 DEF McpWrite
  <2>4. Copies'
    BY <2>1, <2>2, <2>3 DEF IInv, Copies, Sound, syncVars, planVars
  <2>5. Dispatches'
    BY <2>1, <2>2, <2>3 DEF IInv, Dispatches, PlannedOnlyIfAnswered, planVars, Sessions
  <2>6. QED
    BY <2>4, <2>5
<1>5. CASE SessionEnds(s)
  <2>1. UNCHANGED <<storeVars, syncVars, planVars, answered>>
    BY <1>5 DEF SessionEnds, history
  <2>2. (\A t \in Sessions : Sound(sessNew'[t])) /\ PlannedOnlyIfAnswered'
    BY <1>5, <2>1, CloseCopies DEF SessionEnds
  <2>3. Copies'
    BY <2>1, <2>2 DEF IInv, Copies, Sound, storeVars, syncVars, planVars
  <2>4. Dispatches'
    BY <2>1, <2>2 DEF IInv, Dispatches, planVars
  <2>5. QED
    BY <2>3, <2>4
<1>6. QED
  BY <1>1, <1>2, <1>3, <1>4, <1>5 DEF SessionNext

LEMMA DeskCopies ==
  ASSUME IInv, NEW p \in Prospects, DeskOpen(p) PROVE Copies' /\ Dispatches'
<1>1. /\ UNCHANGED <<rows, answered, syncVars, planVars, sessNew>>
      /\ \A t \in {"planner", "orphan"} : sessPc'[t] = sessPc[t] /\ sessFor'[t] = sessFor[t]
  BY DEF DeskOpen, IInv, TypeOK, storeVars, history, Sessions
<1>2. Copies'
  BY <1>1 DEF IInv, Copies, Sound, syncVars, planVars
<1>3. Dispatches'
  BY <1>1 DEF IInv, Dispatches, PlannedOnlyIfAnswered, planVars
<1>4. QED
  BY <1>2, <1>3

LEMMA CrashCopies ==
  ASSUME IInv, Crash PROVE Copies' /\ Dispatches'
<1>1. UNCHANGED <<rows, answered>>
  BY DEF Crash, storeVars, history
<1>2. (\A t \in Sessions : Sound(sessNew'[t])) /\ PlannedOnlyIfAnswered'
  <2>1. CASE Close("planner")
    BY <1>1, <2>1, CloseCopies DEF Sessions
  <2>2. CASE
         /\ sessPc["planner"] # "off"
         /\ sessPc["orphan"] = "off"
         /\ sessPc' = [sessPc EXCEPT !["orphan"] = sessPc["planner"], !["planner"] = "off"]
         /\ sessFor' = [sessFor EXCEPT !["orphan"] = sessFor["planner"], !["planner"] = Nobody]
         /\ sessNew' = [sessNew EXCEPT !["orphan"] = sessNew["planner"], !["planner"] = NoRows]
    <3>1. \A t \in Sessions : Sound(sessNew'[t])
      BY <2>2, NoRowsType DEF IInv, TypeOK, Copies, Sessions
    <3>2. PlannedOnlyIfAnswered'
      BY <1>1, <2>2 DEF IInv, TypeOK, Dispatches, PlannedOnlyIfAnswered, Sessions
    <3>3. QED
      BY <3>1, <3>2
  <2>3. QED
    BY <2>1, <2>2 DEF Crash
<1>3. /\ syncSnap' = NoRows /\ planLoaded' = NoRows /\ planCurrent' = NoRows
      /\ planTodo' = {} /\ planPc' = "idle"
  BY DEF Crash
<1>4. Sound(rows)' /\ Sound(NoRows)'
  BY <1>1, NoRowsType DEF IInv, Copies, Sound, NoRows
<1>5. QED
  BY <1>1, <1>2, <1>3, <1>4 DEF Copies, Dispatches, Sound

LEMMA StepCopies ==
  ASSUME IInv, [Next]_vars PROVE Copies' /\ Dispatches'
<1>1. CASE UNCHANGED vars
  BY <1>1 DEF vars, storeVars, syncVars, planVars, sessVars, history, IInv, Copies, Dispatches,
              Sound, PlannedOnlyIfAnswered
<1>2. QED
  BY <1>1, TickCopies, SyncCopies, PlanCopies, SessionCopies, DeskCopies,
     CrashCopies DEF Next

\* The inductive invariant: every copy of connections.json in flight, and what the
\* plan sweep took from its own, is as sound as the file.
THEOREM CopiesStaySound == Spec => []IInv
<1>1. Init => IInv
  BY InitType, InitCopies DEF IInv
<1>2. IInv /\ [Next]_vars => IInv'
  BY StepType, StepCopies DEF IInv
<1>3. QED
  BY <1>1, <1>2, PTL DEF Spec

\* connections.json calls a prospect connected only if a probe or a save_connection did.
THEOREM NoInventedConnection == Spec => []ConnectedOnlyIfAnswered
<1>1. IInv => ConnectedOnlyIfAnswered
  BY DEF IInv, Copies, ConnectedOnlyIfAnswered
<1>2. QED
  BY <1>1, CopiesStaySound, PTL

\* No planner run, awaited or orphaned, works on a prospect whom nobody called connected.
THEOREM NoEarlyPlanner == Spec => []PlannedOnlyIfAnswered
<1>1. IInv => PlannedOnlyIfAnswered
  BY DEF IInv, Dispatches
<1>2. QED
  BY <1>1, CopiesStaySound, PTL

=============================================================================
