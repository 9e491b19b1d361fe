--------------------------- MODULE SweepSaves_proofs ---------------------------
(***************************************************************************)
(* Proofs about what the saves of the sweeps keep, for any set of          *)
(* prospects and any longest delay.                                        *)
(*                                                                         *)
(*   VInv     whoever writes and wherever the cron process dies: a copy    *)
(*            held by a writer has every row of the file, but those added  *)
(*            while it was held; so a save takes away no other row.        *)
(*                                                                         *)
(* The others hold under the switches of the run that checks them, and     *)
(* these are the assumptions of their theorems.                            *)
(*                                                                         *)
(*   RowsInv  no operator session, the one writer that adds rows: whoever  *)
(*            is visited, or worked on by a session, has a row.            *)
(*   KInv     nor a crash, which leaves a second run behind: from the      *)
(*            re-read of the plan sweep to its save nobody else writes,    *)
(*            because the sync sweep would have to hold the event loop; so *)
(*            it finds the row it worked on and saves what is there.       *)
(*   SInv     nor the sync sweep, which writes back a copy it read before  *)
(*            its first probe: nobody still to be visited is owed a delay, *)
(*            and every delay owed is in the file or in the copy about to  *)
(*            be saved.                                                    *)
(***************************************************************************)
EXTENDS OutreachSweeps_proofs

\* The plan sweep is at work on a prospect.
AtWork == planPc \notin {"idle", "visit"}

LEMMA AgeRowStatus ==
  ASSUME NEW r \in Row PROVE AgeRow(r).status = r.status /\ AgeRow(r).plan = Older(r.plan)
BY DEF AgeRow, Row

-----------------------------------------------------------------------------
(* Whoever writes. *)

\* A copy of the file has its rows, but those added while it was held.
HasRows(f) ==
  \A p \in Prospects \ unseen : rows[p].status # "absent" => f[p].status # "absent"

CopiesHaveRows ==
  /\ syncPc # "idle" => HasRows(syncSnap)
  /\ planPc = "save" => HasRows(planCurrent)
  /\ \A s \in Sessions : sessPc[s] = "write" => HasRows(sessNew[s])

\* The plan sweep has a row for whoever it visits: the loaded one if not the file's.
VisitsHaveRows ==
  /\ \A p \in planTodo : planLoaded[p].status # "absent"
  /\ AtWork => planLoaded[planCur].status # "absent"
  /\ planPc = "reload" => planTarget.status # "absent"

VInv == TypeOK /\ CopiesHaveRows /\ VisitsHaveRows

LEMMA InitHasRows == Init => CopiesHaveRows /\ VisitsHaveRows
BY DEF Init, CopiesHaveRows, VisitsHaveRows, AtWork, Sessions

\* Only the writing of a copy changes which rows there are.
LEMMA StepRowsKept ==
  ASSUME VInv, Next
  PROVE  \/ /\ \A p \in Prospects : rows'[p].status = rows[p].status
            /\ UNCHANGED unseen
         \/ SyncSave
         \/ PlanSave
         \/ \E s \in Sessions : McpWrite(s)
<1>1. CASE Tick
  BY <1>1, AgeType DEF Tick, VInv, TypeOK
<1>2. CASE SyncNext
  BY <1>2 DEF SyncNext, SyncLoad, SyncProbe, SyncResult, storeVars, history
<1>3. CASE PlanNext
  BY <1>3 DEF PlanNext, PlanLoad, PlanDispatch, RunnerReturns, PlanReread, PlanReload, PlanEnd,
              storeVars, history
<1>4. ASSUME NEW s \in Sessions, SessionNext(s)
      PROVE  (UNCHANGED <<rows, unseen>>) \/ McpWrite(s)
  BY <1>4 DEF SessionNext, UpsertLive, UpsertTerminal, SaveRow, SessionEnds, storeVars, history
<1>5. (\E p \in Prospects : DeskOpen(p)) \/ Crash => UNCHANGED <<rows, unseen>>
  BY DEF DeskOpen, Crash, storeVars, history
<1>6. QED
  BY <1>1, <1>2, <1>3, <1>4, <1>5 DEF Next

\* A copy that is written takes no row away but those the file got while it was held.
LEMMA WriteKeepsRows ==
  ASSUME VInv, NEW w \in Writers, Holds(w), Replace(w), NEW p \in Prospects \ unseen,
         rows[p].status # "absent"
  PROVE  rows'[p].status # "absent"
<1>1. HasRows(Copy(w))
  BY DEF VInv, CopiesHaveRows, Holds, Copy, Writers, Sessions
<1>2. QED
  BY <1>1 DEF HasRows, Replace

\* What another writer holds has the rows of the new file, but those just added.
LEMMA WriteHasRows ==
  ASSUME VInv, NEW w \in Writers, Replace(w), NEW v \in Writers \ {w}, Holds(v)
  PROVE  \A p \in Prospects \ unseen' : rows'[p].status # "absent" => Copy(v)[p].status # "absent"
<1>1. HasRows(Copy(v))
  BY DEF VInv, CopiesHaveRows, Holds, Copy, Writers, Sessions
<1>2. unseen' = unseen \cup {p \in Prospects : /\ rows[p].status = "absent"
                                               /\ Copy(w)[p].status # "absent"}
  BY DEF Replace
<1>3. rows' = Copy(w)
  BY DEF Replace
<1>4. QED
  BY <1>1, <1>2, <1>3 DEF HasRows

LEMMA TickHasRows ==
  ASSUME VInv, Tick PROVE CopiesHaveRows' /\ VisitsHaveRows'
<1>1. /\ \A p \in Prospects : rows'[p].status = rows[p].status
      /\ \A p \in Prospects : syncSnap'[p].status = syncSnap[p].status
      /\ \A p \in Prospects : planLoaded'[p].status = planLoaded[p].status
      /\ \A p \in Prospects : planCurrent'[p].status = planCurrent[p].status
      /\ \A s \in Sessions : \A p \in Prospects : sessNew'[s][p].status = sessNew[s][p].status
      /\ planTarget'.status = planTarget.status
  BY AgeType, AgeRowStatus DEF Tick, VInv, TypeOK
<1>2. UNCHANGED <<syncPc, planPc, planTodo, planCur, sessPc, unseen>>
  BY DEF Tick
<1>3. planTodo \subseteq Prospects /\ (AtWork => planCur \in Prospects)
  BY DEF VInv, TypeOK, AtWork
<1>4. (syncPc' # "idle" => HasRows(syncSnap)') /\ (planPc' = "save" => HasRows(planCurrent)')
  BY <1>1, <1>2 DEF VInv, CopiesHaveRows, HasRows
<1>5. ASSUME NEW s \in Sessions, sessPc'[s] = "write" PROVE HasRows(sessNew[s])'
  BY <1>1, <1>2, <1>5 DEF VInv, CopiesHaveRows, HasRows
<1>6. VisitsHaveRows'
  BY <1>1, <1>2, <1>3 DEF VInv, VisitsHaveRows, AtWork
<1>7. QED
  BY <1>4, <1>5, <1>6 DEF CopiesHaveRows

LEMMA SyncHasRows ==
  ASSUME VInv, SyncNext PROVE CopiesHaveRows' /\ VisitsHaveRows'
<1>1. UNCHANGED <<planPc, planLoaded, planTodo, planCur, planTarget, planCurrent, sessPc, sessNew>>
  BY DEF SyncNext, SyncLoad, SyncProbe, SyncResult, SyncSave, planVars, sessVars
<1>2. VisitsHaveRows'
  BY <1>1 DEF VInv, VisitsHaveRows, AtWork
<1>3. CASE SyncLoad
  <2>1. UNCHANGED <<rows, unseen>> /\ syncSnap' = rows
    BY <1>3 DEF SyncLoad, storeVars, history
  <2>2. QED
    BY <1>1, <1>2, <2>1 DEF VInv, CopiesHaveRows, HasRows
<1>4. ASSUME NEW p \in Prospects, SyncProbe(p) PROVE CopiesHaveRows'
  BY <1>1, <1>4 DEF SyncProbe, storeVars, history, VInv, CopiesHaveRows, HasRows
<1>5. ASSUME NEW res \in {"yes", "no", "error"}, NEW d \in Delays, SyncResult(res, d)
      PROVE  CopiesHaveRows'
  <2>1. /\ syncSnap \in [Prospects -> Row] /\ syncCur \in Prospects /\ syncPc = "probe"
        /\ syncSnap' = [syncSnap EXCEPT ![syncCur] = ApplyProbe(syncSnap[syncCur], res, d)]
        /\ UNCHANGED <<rows, unseen>>
    BY <1>5 DEF SyncResult, VInv, TypeOK, Rows, storeVars
  <2>2. syncSnap[syncCur].status # "absent" => ApplyProbe(syncSnap[syncCur], res, d).status # "absent"
    BY <2>1 DEF ApplyProbe, Row
  <2>3. \A p \in Prospects : syncSnap[p].status # "absent" => syncSnap'[p].status # "absent"
    BY <2>1, <2>2
  <2>4. QED
    BY <1>1, <2>1, <2>3 DEF VInv, CopiesHaveRows, HasRows
<1>6. CASE SyncSave
  <2>1. Replace("sync") /\ syncPc' = "idle" /\ "sync" \in Writers
    BY <1>6 DEF SyncSave, Writers
  <2>2. ASSUME planPc = "save"
        PROVE  \A p \in Prospects \ unseen' :
                 rows'[p].status # "absent" => planCurrent[p].status # "absent"
    <3>1. "plan" \in Writers \ {"sync"} /\ Holds("plan") /\ Copy("plan") = planCurrent
      BY <2>2 DEF Writers, Sessions, Holds, Copy
    <3>2. QED
      BY <2>1, <3>1, WriteHasRows
  <2>3. ASSUME NEW s \in Sessions, sessPc[s] = "write"
        PROVE  \A p \in Prospects \ unseen' :
                 rows'[p].status # "absent" => sessNew[s][p].status # "absent"
    <3>1. s \in Writers \ {"sync"} /\ Holds(s) /\ Copy(s) = sessNew[s]
      BY <2>3 DEF Writers, Sessions, Holds, Copy
    <3>2. QED
      BY <2>1, <3>1, WriteHasRows
  <2>4. planPc' = "save" => HasRows(planCurrent)'
    BY <1>1, <2>2 DEF HasRows
  <2>5. ASSUME NEW s \in Sessions, sessPc'[s] = "write" PROVE HasRows(sessNew[s])'
    BY <1>1, <2>3, <2>5 DEF HasRows
  <2>6. QED
    BY <1>2, <2>1, <2>4, <2>5 DEF CopiesHaveRows
<1>7. QED
  BY <1>2, <1>3, <1>4, <1>5, <1>6 DEF SyncNext

\* The row the plan sweep goes on with is there.
LEMMA TargetThere ==
  ASSUME VInv, NEW d \in Delays, PlanReread(d)
  PROVE  planTarget'.status # "absent"
<1>1. planCur \in Prospects /\ rows[planCur] \in Row /\ planLoaded[planCur] \in Row
  BY DEF PlanReread, VInv, TypeOK, Rows
<1>2. planLoaded[planCur].status # "absent"
  BY DEF PlanReread, VInv, VisitsHaveRows, AtWork
<1>3. TargetRow(planCur) \in Row /\ TargetRow(planCur).status # "absent"
  BY <1>1, <1>2 DEF TargetRow
<1>4. planTarget' = RecordOutcome(planCur, TargetRow(planCur), d)
  BY DEF PlanReread
<1>5. QED
  BY <1>3, <1>4 DEF RecordOutcome, Row

LEMMA PlanHasRows ==
  ASSUME VInv, PlanNext PROVE CopiesHaveRows' /\ VisitsHaveRows'
<1>1. /\ UNCHANGED <<syncPc, syncSnap>>
      /\ \A s \in Sessions : sessPc'[s] = "write" => sessPc[s] = "write" /\ sessNew'[s] = sessNew[s]
  BY DEF PlanNext, PlanLoad, PlanDispatch, RunnerReturns, Close, PlanReread, PlanReload, PlanSave,
         PlanEnd, syncVars, sessVars, VInv, TypeOK, Sessions
<1>2. CASE PlanLoad
  <2>1. /\ UNCHANGED <<rows, unseen>> /\ planPc' = "visit"
        /\ planLoaded' = rows /\ planTodo' = PlanDue(rows)
    BY <1>2 DEF PlanLoad, storeVars, history
  <2>2. QED
    BY <1>1, <2>1 DEF VInv, CopiesHaveRows, HasRows, VisitsHaveRows, AtWork, PlanDue
<1>3. ASSUME NEW p \in Prospects, PlanDispatch(p) PROVE CopiesHaveRows' /\ VisitsHaveRows'
  <2>1. /\ UNCHANGED <<rows, unseen, planLoaded>> /\ planPc' = "run" /\ p \in planTodo
        /\ planTodo' = planTodo \ {p} /\ planCur' = p
    BY <1>3 DEF PlanDispatch, history
  <2>2. QED
    BY <1>1, <2>1 DEF VInv, CopiesHaveRows, HasRows, VisitsHaveRows, AtWork
<1>4. ASSUME NEW ok \in BOOLEAN, RunnerReturns(ok) PROVE CopiesHaveRows' /\ VisitsHaveRows'
  <2>1. /\ UNCHANGED <<rows, unseen, planLoaded, planTodo, planCur>>
        /\ planPc = "run" /\ planPc' = "reread"
    BY <1>4 DEF RunnerReturns, storeVars, history
  <2>2. QED
    BY <1>1, <2>1 DEF VInv, CopiesHaveRows, HasRows, VisitsHaveRows, AtWork
<1>5. ASSUME NEW d \in Delays, PlanReread(d) PROVE CopiesHaveRows' /\ VisitsHaveRows'
  <2>1. /\ UNCHANGED <<rows, unseen, planLoaded, planTodo, planCur>>
        /\ planPc = "reread" /\ planPc' = "reload"
    BY <1>5 DEF PlanReread, storeVars
  <2>2. planTarget'.status # "absent"
    BY <1>5, TargetThere
  <2>3. QED
    BY <1>1, <2>1, <2>2 DEF VInv, CopiesHaveRows, HasRows, VisitsHaveRows, AtWork
<1>6. CASE PlanReload
  <2>1. /\ UNCHANGED <<rows, unseen, planLoaded, planTodo, planCur>>
        /\ planPc = "reload" /\ planPc' = "save"
        /\ planCurrent' = [rows EXCEPT ![planCur] = planTarget]
        /\ rows \in [Prospects -> Row]
    BY <1>6 DEF PlanReload, storeVars, history, VInv, TypeOK, Rows
  <2>2. planTarget.status # "absent"
    BY <2>1 DEF VInv, VisitsHaveRows
  <2>3. \A p \in Prospects : rows[p].status # "absent" => planCurrent'[p].status # "absent"
    BY <2>1, <2>2
  <2>4. QED
    BY <1>1, <2>1, <2>3 DEF VInv, CopiesHaveRows, HasRows, VisitsHaveRows, AtWork
<1>7. CASE PlanSave
  <2>1. /\ Replace("plan") /\ planPc' = "visit" /\ "plan" \in Writers
        /\ UNCHANGED <<planLoaded, planTodo, syncPc, syncSnap, sessPc, sessNew>>
    BY <1>7 DEF PlanSave, Writers, syncVars, sessVars
  <2>2. ASSUME syncPc # "idle"
        PROVE  \A p \in Prospects \ unseen' :
                 rows'[p].status # "absent" => syncSnap[p].status # "absent"
    <3>1. "sync" \in Writers \ {"plan"} /\ Holds("sync") /\ Copy("sync") = syncSnap
      BY <2>2 DEF Writers, Sessions, Holds, Copy
    <3>2. QED
      BY <2>1, <3>1, WriteHasRows
  <2>3. ASSUME NEW s \in Sessions, sessPc[s] = "write"
        PROVE  \A p \in Prospects \ unseen' :
                 rows'[p].status # "absent" => sessNew[s][p].status # "absent"
    <3>1. s \in Writers \ {"plan"} /\ Holds(s) /\ Copy(s) = sessNew[s]
      BY <2>3 DEF Writers, Sessions, Holds, Copy
    <3>2. QED
      BY <2>1, <3>1, WriteHasRows
  <2>4. CopiesHaveRows'
    BY <2>1, <2>2, <2>3 DEF CopiesHaveRows, HasRows
  <2>5. QED
    BY <2>1, <2>4 DEF VInv, VisitsHaveRows, AtWork
<1>8. CASE PlanEnd
  <2>1. UNCHANGED <<rows, unseen>> /\ planPc' = "idle" /\ planTodo' = {}
    BY <1>8 DEF PlanEnd, storeVars, history
  <2>2. QED
    BY <1>1, <2>1 DEF VInv, CopiesHaveRows, HasRows, VisitsHaveRows, AtWork
<1>9. QED
  BY <1>2, <1>3, <1>4, <1>5, <1>6, <1>7, <1>8 DEF PlanNext

\* An edit keeps the rows of the file it was made on.
LEMMA EditHasRows ==
  ASSUME NEW f \in Rows, NEW p \in Prospects, NEW st \in Saveable
  PROVE  /\ \A q \in Prospects : f[q].status # "absent" => MarkEnded(f, p)[q].status # "absent"
         /\ \A q \in Prospects :
              f[q].status # "absent" => SaveConnection(f, p, st)[q].status # "absent"
<1>1. f \in [Prospects -> Row]
  BY DEF Rows
<1>2. QED
  BY <1>1 DEF MarkEnded, SaveConnection, Fresh, Row, Saveable

LEMMA SessionHasRows ==
  ASSUME VInv, NEW s \in Sessions, SessionNext(s) PROVE CopiesHaveRows' /\ VisitsHaveRows'
<1>1. /\ UNCHANGED <<syncPc, syncSnap, planPc, planLoaded, planTodo, planCur, planTarget, planCurrent>>
      /\ \A t \in Sessions : t # s => sessPc'[t] = sessPc[t] /\ sessNew'[t] = sessNew[t]
  BY DEF SessionNext, UpsertLive, UpsertTerminal, SaveRow, McpWrite, SessionEnds, Close, VInv,
         TypeOK, syncVars, planVars, sessVars
<1>2. VisitsHaveRows'
  BY <1>1 DEF VInv, VisitsHaveRows, AtWork
<1>3. CASE McpWrite(s)
  <2>1. Replace(s) /\ sessPc'[s] = "on" /\ s \in Writers
    BY <1>3 DEF McpWrite, Writers, VInv, TypeOK
  <2>2. ASSUME syncPc # "idle"
        PROVE  \A p \in Prospects \ unseen' :
                 rows'[p].status # "absent" => syncSnap[p].status # "absent"
    <3>1. "sync" \in Writers \ {s} /\ Holds("sync") /\ Copy("sync") = syncSnap
      BY <2>2 DEF Writers, Sessions, Holds, Copy
    <3>2. QED
      BY <2>1, <3>1, WriteHasRows
  <2>3. ASSUME planPc = "save"
        PROVE  \A p \in Prospects \ unseen' :
                 rows'[p].status # "absent" => planCurrent[p].status # "absent"
    <3>1. "plan" \in Writers \ {s} /\ Holds("plan") /\ Copy("plan") = planCurrent
      BY <2>3 DEF Writers, Sessions, Holds, Copy
    <3>2. QED
      BY <2>1, <3>1, WriteHasRows
  <2>4. ASSUME NEW t \in Sessions \ {s}, sessPc[t] = "write"
        PROVE  \A p \in Prospects \ unseen' :
                 rows'[p].status # "absent" => sessNew[t][p].status # "absent"
    <3>1. t \in Writers \ {s} /\ Holds(t) /\ Copy(t) = sessNew[t]
      BY <2>4 DEF Writers, Sessions, Holds, Copy
    <3>2. QED
      BY <2>1, <3>1, WriteHasRows
  <2>5. QED
    BY <1>1, <1>2, <2>1, <2>2, <2>3, <2>4 DEF CopiesHaveRows, HasRows
<1>4. CASE ~McpWrite(s)
  <2>1. UNCHANGED <<rows, unseen>>
    BY <1>4 DEF SessionNext, UpsertLive, UpsertTerminal, SaveRow, SessionEnds, storeVars, history
  <2>2. sessPc'[s] = "write" => HasRows(sessNew'[s])
    <3>1. CASE UNCHANGED <<sessPc, sessNew>>
      BY <3>1 DEF VInv, CopiesHaveRows
    <3>2. ASSUME NEW fresh \in BOOLEAN, UpsertTerminal(s, fresh), ~UNCHANGED <<sessPc, sessNew>>
          PROVE  HasRows(sessNew'[s])
      <4>1. PICK p \in Prospects : p = sessFor[s]
        BY <3>2 DEF UpsertTerminal, VInv, TypeOK
      <4>2. sessNew'[s] = MarkEnded(rows, p) /\ rows \in Rows
        BY <3>2, <4>1 DEF UpsertTerminal, VInv, TypeOK
      <4>3. \A q \in Prospects : rows[q].status # "absent" => MarkEnded(rows, p)[q].status # "absent"
        BY <4>2, EditHasRows DEF Saveable
      <4>4. QED
        BY <4>2, <4>3 DEF HasRows
    <3>3. ASSUME NEW st \in Saveable, SaveRow(s, st) PROVE HasRows(sessNew'[s])
      <4>1. PICK p \in Prospects : p = sessFor[s]
        BY <3>3 DEF SaveRow, VInv, TypeOK
      <4>2. sessNew'[s] = SaveConnection(rows, p, st) /\ rows \in Rows
        BY <3>3, <4>1 DEF SaveRow, VInv, TypeOK
      <4>3. \A q \in Prospects :
              rows[q].status # "absent" => SaveConnection(rows, p, st)[q].status # "absent"
        BY <4>2, EditHasRows
      <4>4. QED
        BY <4>2, <4>3 DEF HasRows
    <3>4. ASSUME SessionEnds(s) PROVE sessPc'[s] = "off"
      BY <3>4 DEF SessionEnds, Close, VInv, TypeOK
    <3>5. ASSUME NEW fresh \in BOOLEAN, UpsertLive(s, fresh) PROVE UNCHANGED <<sessPc, sessNew>>
      BY <3>5 DEF UpsertLive, sessVars
    <3>6. QED
      BY <1>4, <3>1, <3>2, <3>3, <3>4, <3>5 DEF SessionNext
  <2>3. QED
    BY <1>1, <1>2, <2>1, <2>2 DEF VInv, CopiesHaveRows, HasRows
<1>5. QED
  BY <1>3, <1>4

LEMMA DeskHasRows ==
  ASSUME VInv, NEW p \in Prospects, DeskOpen(p) PROVE CopiesHaveRows' /\ VisitsHaveRows'
<1>1. /\ UNCHANGED <<rows, unseen, syncPc, syncSnap, planPc, planLoaded, planTodo, planCur,
                     planTarget, planCurrent, sessNew>>
      /\ \A s \in Sessions : sessPc'[s] = "write" => sessPc[s] = "write"
  BY DEF DeskOpen, VInv, TypeOK, storeVars, syncVars, planVars, history
<1>2. QED
  BY <1>1 DEF VInv, CopiesHaveRows, HasRows, VisitsHaveRows, AtWork

LEMMA CrashHasRows ==
  ASSUME VInv, Crash PROVE CopiesHaveRows' /\ VisitsHaveRows'
<1>1. /\ UNCHANGED <<rows, unseen>> /\ syncPc' = "idle" /\ planPc' = "idle" /\ planTodo' = {}
  BY DEF Crash, storeVars, history
<1>2. \A t \in Sessions : sessPc'[t] = "write" => HasRows(sessNew'[t])
  <2>1. CASE Close("planner")
    BY <2>1 DEF Close, VInv, TypeOK, CopiesHaveRows, Sessions
  <2>2. CASE
         /\ sessPc["planner"] # "off"
         /\ sessPc' = [sessPc EXCEPT !["orphan"] = sessPc["planner"], !["planner"] = "off"]
         /\ sessNew' = [sessNew EXCEPT !["orphan"] = sessNew["planner"], !["planner"] = NoRows]
    BY <2>2 DEF VInv, TypeOK, CopiesHaveRows, Sessions
  <2>3. QED
    BY <2>1, <2>2 DEF Crash
<1>3. QED
  BY <1>1, <1>2 DEF CopiesHaveRows, HasRows, VisitsHaveRows, AtWork

LEMMA StepHasRows ==
  ASSUME VInv, [Next]_vars PROVE VInv'
<1>1. TypeOK'
  BY StepType DEF VInv
<1>2. CASE UNCHANGED vars
  BY <1>1, <1>2 DEF vars, storeVars, syncVars, planVars, sessVars, history, VInv, CopiesHaveRows,
                    HasRows, VisitsHaveRows, AtWork
<1>3. QED
  BY <1>1, <1>2, TickHasRows, SyncHasRows, PlanHasRows, SessionHasRows, DeskHasRows, CrashHasRows
     DEF Next, VInv

\* The inductive invariant about rows.
THEOREM CopiesKeepRows == Spec => []VInv
<1>1. Init => VInv
  BY InitType, InitHasRows DEF VInv
<1>2. VInv /\ [Next]_vars => VInv'
  BY StepHasRows
<1>3. QED
  BY <1>1, <1>2, PTL DEF Spec

\* A prospect drops out of connections.json only if the row was added while another writer
\* held a copy, wherever the cron process dies and whatever the run it leaves behind writes.
THEOREM RowsStay == Spec => NoRowVanishes
<1>1. ASSUME VInv, [Next]_vars, NEW p \in Prospects, p \notin unseen,
             rows[p].status # "absent"
      PROVE  rows'[p].status # "absent"
  <2>1. CASE UNCHANGED vars
    BY <1>1, <2>1 DEF vars, storeVars
  <2>2. CASE SyncSave
    <3>1. "sync" \in Writers /\ Holds("sync") /\ Replace("sync")
      BY <2>2 DEF SyncSave, Writers, Sessions, Holds
    <3>2. QED
      BY <1>1, <3>1, WriteKeepsRows
  <2>3. CASE PlanSave
    <3>1. "plan" \in Writers /\ Holds("plan") /\ Replace("plan")
      BY <2>3 DEF PlanSave, Writers, Sessions, Holds
    <3>2. QED
      BY <1>1, <3>1, WriteKeepsRows
  <2>4. ASSUME NEW s \in Sessions, McpWrite(s) PROVE rows'[p].status # "absent"
    <3>1. s \in Writers /\ Holds(s) /\ Replace(s)
      BY <2>4 DEF McpWrite, Writers, Sessions, Holds
    <3>2. QED
      BY <1>1, <3>1, WriteKeepsRows
  <2>5. QED
    BY <1>1, <2>1, <2>2, <2>3, <2>4, StepRowsKept
<1>2. VInv /\ [Next]_vars =>
        [\A p \in Prospects :
           rows[p].status # "absent" /\ rows'[p].status = "absent" => p \in unseen]_vars
  BY <1>1
<1>3. QED
  BY <1>2, CopiesKeepRows, PTL DEF Spec, NoRowVanishes

-----------------------------------------------------------------------------
(* Without an operator session. *)

Known(p) == rows[p].status # "absent"

SameKnown(f) == \A p \in Prospects : f[p].status = "absent" <=> rows[p].status = "absent"

NoRowLost ==
  /\ sessPc["desk"] = "off"
  /\ syncPc # "idle" => SameKnown(syncSnap)
  /\ \A p \in syncTodo : Known(p)
  /\ syncPc = "probe" => Known(syncCur)
  /\ \A p \in planTodo : Known(p)
  /\ AtWork => Known(planCur)
  /\ planPc = "reload" => planTarget.status # "absent"
  /\ planPc = "save" => SameKnown(planCurrent)
  /\ \A s \in Sessions : sessPc[s] = "write" => SameKnown(sessNew[s])
  /\ \A s \in Sessions : sessPc[s] # "off" => Known(sessFor[s])

RowsInv == TypeOK /\ NoRowLost

LEMMA InitRows == Init => NoRowLost
BY DEF Init, NoRowLost, AtWork, Sessions

\* No step adds a row or takes one away.
LEMMA KnownStep ==
  ASSUME RowsInv, Next
  PROVE  \A p \in Prospects : rows'[p].status = "absent" <=> rows[p].status = "absent"
<1>1. CASE Tick
  BY <1>1, AgeType DEF Tick, RowsInv, TypeOK
<1>2. CASE SyncNext
  <2>1. UNCHANGED rows \/ SyncSave
    BY <1>2 DEF SyncNext, SyncLoad, SyncProbe, SyncResult, storeVars
  <2>2. QED
    BY <2>1 DEF SyncSave, Replace, Copy, Sessions, RowsInv, NoRowLost,
                SameKnown
<1>3. CASE PlanNext
  <2>1. UNCHANGED rows \/ PlanSave
    BY <1>3 DEF PlanNext, PlanLoad, PlanDispatch, RunnerReturns, PlanReread, PlanReload, PlanEnd,
                storeVars
  <2>2. QED
    BY <2>1 DEF PlanSave, Replace, Copy, Sessions, RowsInv, NoRowLost,
                SameKnown
<1>4. ASSUME NEW s \in Sessions, SessionNext(s)
      PROVE  \A p \in Prospects : rows'[p].status = "absent" <=> rows[p].status = "absent"
  <2>1. UNCHANGED rows \/ McpWrite(s)
    BY <1>4 DEF SessionNext, UpsertLive, UpsertTerminal, SaveRow, SessionEnds, storeVars
  <2>2. QED
    BY <2>1 DEF McpWrite, Replace, Copy, Sessions, RowsInv, NoRowLost,
                SameKnown
<1>5. (\E p \in Prospects : DeskOpen(p)) \/ Crash => UNCHANGED rows
  BY DEF DeskOpen, Crash, storeVars
<1>6. QED
  BY <1>1, <1>2, <1>3, <1>4, <1>5 DEF Next

LEMMA TickRows ==
  ASSUME RowsInv, Tick PROVE NoRowLost'
<1>1. /\ \A p \in Prospects : rows'[p].status = rows[p].status
      /\ \A p \in Prospects : syncSnap'[p].status = syncSnap[p].status
      /\ \A p \in Prospects : planCurrent'[p].status = planCurrent[p].status
      /\ \A s \in Sessions : \A p \in Prospects : sessNew'[s][p].status = sessNew[s][p].status
      /\ planTarget'.status = planTarget.status
  BY AgeType, AgeRowStatus DEF Tick, RowsInv, TypeOK
<1>2. UNCHANGED <<syncPc, syncTodo, syncCur, planPc, planTodo, planCur, sessPc, sessFor>>
  BY DEF Tick
<1>3. \A p \in Prospects : Known(p) => Known(p)'
  BY <1>1 DEF Known
<1>4. /\ syncTodo \subseteq Prospects /\ planTodo \subseteq Prospects
      /\ syncPc = "probe" => syncCur \in Prospects
      /\ AtWork => planCur \in Prospects
  BY DEF RowsInv, TypeOK, AtWork
<1>5. /\ \A p \in syncTodo' : Known(p)'
      /\ syncPc' = "probe" => Known(syncCur)'
      /\ \A p \in planTodo' : Known(p)'
      /\ AtWork' => Known(planCur)'
  <2>1. /\ \A p \in syncTodo : Known(p)
        /\ syncPc = "probe" => Known(syncCur)
        /\ \A p \in planTodo : Known(p)
        /\ AtWork => Known(planCur)
    BY DEF RowsInv, NoRowLost
  <2>2. syncPc = "probe" => rows'[syncCur].status # "absent"
    BY <1>1, <1>4, <2>1 DEF Known
  <2>3. AtWork => rows'[planCur].status # "absent"
    BY <1>1, <1>4, <2>1 DEF Known
  <2>4. QED
    BY <1>2, <1>3, <1>4, <2>1, <2>2, <2>3 DEF AtWork, Known
<1>6. sessPc'["desk"] = "off" /\ (planPc' = "reload" => planTarget'.status # "absent")
  BY <1>1, <1>2 DEF RowsInv, NoRowLost
<1>7. syncPc' # "idle" => SameKnown(syncSnap)'
  BY <1>1, <1>2 DEF RowsInv, NoRowLost, SameKnown
<1>8. planPc' = "save" => SameKnown(planCurrent)'
  BY <1>1, <1>2 DEF RowsInv, NoRowLost, SameKnown
<1>9. ASSUME NEW s \in Sessions, sessPc'[s] = "write" PROVE SameKnown(sessNew[s])'
  BY <1>1, <1>2, <1>9 DEF RowsInv, NoRowLost, SameKnown
<1>10. ASSUME NEW s \in Sessions, sessPc'[s] # "off" PROVE Known(sessFor[s])'
  BY <1>1, <1>2, <1>10 DEF RowsInv, TypeOK, NoRowLost, Known
<1>11. QED
  BY <1>5, <1>6, <1>7, <1>8, <1>9, <1>10 DEF NoRowLost

LEMMA SyncRows ==
  ASSUME RowsInv, SyncNext PROVE NoRowLost'
<1>0. UNCHANGED <<planPc, planTodo, planCur, planTarget, planCurrent, sessPc, sessFor, sessNew>>
  BY DEF SyncNext, SyncLoad, SyncProbe, SyncResult, SyncSave, planVars, sessVars
<1>1. CASE SyncLoad
  BY <1>0, <1>1 DEF SyncLoad, SyncDue, storeVars, RowsInv, NoRowLost, AtWork, Known, SameKnown
<1>2. ASSUME NEW p \in Prospects, SyncProbe(p) PROVE NoRowLost'
  BY <1>0, <1>2 DEF SyncProbe, storeVars, RowsInv, NoRowLost, AtWork, Known, SameKnown
<1>3. ASSUME NEW res \in {"yes", "no", "error"}, NEW d \in Delays, SyncResult(res, d)
      PROVE  NoRowLost'
  <2>1. /\ syncSnap \in [Prospects -> Row] /\ syncCur \in Prospects
        /\ syncSnap' = [syncSnap EXCEPT ![syncCur] = ApplyProbe(syncSnap[syncCur], res, d)]
    BY <1>3 DEF SyncResult, RowsInv, TypeOK, Rows
  <2>2. syncSnap[syncCur].status # "absent"
    BY <1>3, <2>1 DEF SyncResult, RowsInv, NoRowLost, Known, SameKnown
  <2>3. ApplyProbe(syncSnap[syncCur], res, d).status # "absent"
    BY <2>1, <2>2 DEF ApplyProbe, Row
  <2>4. \A p \in Prospects : syncSnap'[p].status = "absent" <=> syncSnap[p].status = "absent"
    BY <2>1, <2>2, <2>3
  <2>5. UNCHANGED <<rows, syncTodo>> /\ syncPc = "probe" /\ syncPc' = "visit"
    BY <1>3 DEF SyncResult, storeVars
  <2>6. QED
    BY <1>0, <2>4, <2>5 DEF RowsInv, NoRowLost, AtWork, Known, SameKnown
<1>4. CASE SyncSave
  <2>1. /\ syncPc' = "idle" /\ syncTodo' = {}
        /\ \A p \in Prospects : rows'[p].status = "absent" <=> rows[p].status = "absent"
    BY <1>4, KnownStep DEF SyncSave, SyncNext, Next
  <2>2. QED
    BY <1>0, <2>1 DEF RowsInv, TypeOK, NoRowLost, AtWork, Known, SameKnown
<1>5. QED
  BY <1>1, <1>2, <1>3, <1>4 DEF SyncNext

\* The row the plan sweep prefers is the one on disk, and its outcome changes no status.
LEMMA TargetOnDisk ==
  ASSUME RowsInv, NEW d \in Delays, PlanReread(d)
  PROVE  /\ TargetRow(planCur) = rows[planCur]
         /\ planTarget'.status = rows[planCur].status
         /\ planTarget'.plan = IF Succeeded(planCur, rows[planCur]) THEN 0 ELSE d
<1>1. planCur \in Prospects /\ rows[planCur] \in Row
  BY DEF PlanReread, RowsInv, TypeOK, Rows
<1>2. TargetRow(planCur) = rows[planCur]
  BY DEF TargetRow, PlanReread, RowsInv, NoRowLost, AtWork, Known
<1>3. planTarget' = RecordOutcome(planCur, rows[planCur], d)
  BY <1>2 DEF PlanReread
<1>4. QED
  BY <1>1, <1>2, <1>3 DEF RecordOutcome, Row

LEMMA PlanRows ==
  ASSUME RowsInv, PlanNext PROVE NoRowLost'
<1>0. /\ UNCHANGED <<syncPc, syncSnap, syncTodo, syncCur>>
      /\ \A s \in Sessions : sessPc'[s] = "write" => sessPc[s] = "write" /\ sessNew'[s] = sessNew[s]
      /\ sessPc'["desk"] = sessPc["desk"]
      /\ \A s \in Sessions : sessPc'[s] # "off" =>
           (sessPc[s] # "off" /\ sessFor'[s] = sessFor[s]) \/ sessFor'[s] \in planTodo
  BY DEF PlanNext, PlanLoad, PlanDispatch, RunnerReturns, Close, PlanReread, PlanReload, PlanSave,
         PlanEnd, syncVars, sessVars, RowsInv, TypeOK, Sessions
<1>1. CASE PlanLoad
  BY <1>0, <1>1 DEF PlanLoad, PlanDue, storeVars, RowsInv, NoRowLost, AtWork, Known, SameKnown
<1>2. ASSUME NEW p \in Prospects, PlanDispatch(p) PROVE NoRowLost'
  BY <1>0, <1>2 DEF PlanDispatch, RowsInv, NoRowLost, AtWork, Known, SameKnown
<1>3. ASSUME NEW ok \in BOOLEAN, RunnerReturns(ok) PROVE NoRowLost'
  BY <1>0, <1>3 DEF RunnerReturns, storeVars, RowsInv, NoRowLost, AtWork, Known, SameKnown
<1>4. ASSUME NEW d \in Delays, PlanReread(d) PROVE NoRowLost'
  <2>1. UNCHANGED <<rows, planTodo, planCur>> /\ planPc = "reread" /\ planPc' = "reload"
    BY <1>4 DEF PlanReread, storeVars
  <2>2. planTarget'.status # "absent"
    BY <1>4, <2>1, TargetOnDisk DEF RowsInv, NoRowLost, AtWork, Known
  <2>3. QED
    BY <1>0, <2>1, <2>2 DEF RowsInv, NoRowLost, AtWork, Known, SameKnown
<1>5. CASE PlanReload
  <2>1. /\ UNCHANGED <<rows, planTodo, planCur>> /\ planPc = "reload" /\ planPc' = "save"
        /\ planCurrent' = [rows EXCEPT ![planCur] = planTarget]
        /\ rows \in [Prospects -> Row]
    BY <1>5 DEF PlanReload, storeVars, RowsInv, TypeOK, Rows
  <2>2. SameKnown(planCurrent')
    BY <2>1 DEF RowsInv, NoRowLost, AtWork, Known, SameKnown
  <2>3. QED
    BY <1>0, <2>1, <2>2 DEF RowsInv, NoRowLost, AtWork, Known, SameKnown
<1>6. CASE PlanSave
  <2>1. UNCHANGED planTodo /\ planPc' = "visit"
    BY <1>6 DEF PlanSave
  <2>2. \A p \in Prospects : rows'[p].status = "absent" <=> rows[p].status = "absent"
    BY KnownStep DEF Next
  <2>3. QED
    BY <1>0, <2>1, <2>2 DEF RowsInv, TypeOK, NoRowLost, AtWork, Known, SameKnown
<1>7. CASE PlanEnd
  BY <1>0, <1>7 DEF PlanEnd, storeVars, RowsInv, NoRowLost, AtWork, Known, SameKnown
<1>8. QED
  BY <1>1, <1>2, <1>3, <1>4, <1>5, <1>6, <1>7 DEF PlanNext

\* An edit of a run ends a row that is there.
LEMMA SessionRows ==
  ASSUME RowsInv, NEW s \in Sessions, SessionNext(s) PROVE NoRowLost'
<1>0. /\ s # "desk"
      /\ UNCHANGED <<syncPc, syncSnap, syncTodo, syncCur, planPc, planTodo, planCur, planTarget,
                     planCurrent>>
  BY DEF SessionNext, UpsertLive, UpsertTerminal, SaveRow, McpWrite, SessionEnds, RowsInv,
         NoRowLost, syncVars, planVars
<1>1. \A p \in Prospects : rows'[p].status = "absent" <=> rows[p].status = "absent"
  BY KnownStep DEF Next
<1>2. \A t \in Sessions : t # s => sessPc'[t] = sessPc[t] /\ sessNew'[t] = sessNew[t]
  BY DEF SessionNext, UpsertLive, UpsertTerminal, SaveRow, McpWrite, SessionEnds, Close, RowsInv,
         TypeOK, sessVars
<1>3. \A t \in Sessions : sessPc'[t] # "off" => sessPc[t] # "off" /\ sessFor'[t] = sessFor[t]
  BY DEF SessionNext, UpsertLive, UpsertTerminal, SaveRow, McpWrite, SessionEnds, Close, RowsInv,
         TypeOK, sessVars
<1>4. sessPc'[s] = "write" => SameKnown(sessNew'[s])
  <2>1. CASE UNCHANGED <<sessPc, sessNew>>
    BY <2>1 DEF RowsInv, NoRowLost
  <2>2. ASSUME NEW fresh \in BOOLEAN, UpsertTerminal(s, fresh), ~UNCHANGED <<sessPc, sessNew>>
        PROVE  SameKnown(sessNew'[s])
    <3>1. PICK p \in Prospects : p = sessFor[s]
      BY <2>2 DEF UpsertTerminal, RowsInv, TypeOK
    <3>2. /\ sessNew'[s] = MarkEnded(rows, p) /\ rows[p].status # "absent"
          /\ rows \in [Prospects -> Row]
      BY <2>2, <3>1 DEF UpsertTerminal, NothingToEnd, RowsInv, TypeOK, Rows
    <3>3. SameKnown(MarkEnded(rows, p))
      BY <3>2 DEF SameKnown, MarkEnded, Row
    <3>4. QED
      BY <3>2, <3>3
  <2>3. ASSUME NEW st \in Saveable, SaveRow(s, st) PROVE SameKnown(sessNew'[s])
    <3>1. PICK p \in Prospects : p = sessFor[s]
      BY <2>3 DEF SaveRow, RowsInv, TypeOK
    <3>2. /\ sessNew'[s] = SaveConnection(rows, p, st) /\ rows[p].status # "absent"
          /\ rows \in [Prospects -> Row]
      BY <2>3, <3>1 DEF SaveRow, RowsInv, TypeOK, Rows, NoRowLost, Known
    <3>3. SameKnown(SaveConnection(rows, p, st))
      BY <3>2 DEF SameKnown, SaveConnection, Fresh, Saveable
    <3>4. QED
      BY <3>2, <3>3
  <2>4. ASSUME McpWrite(s) \/ SessionEnds(s) PROVE sessPc'[s] # "write"
    BY <2>4 DEF McpWrite, SessionEnds, Close, RowsInv, TypeOK
  <2>5. ASSUME NEW fresh \in BOOLEAN, UpsertLive(s, fresh) PROVE UNCHANGED <<sessPc, sessNew>>
    BY <2>5 DEF UpsertLive, sessVars
  <2>6. QED
    BY <2>1, <2>2, <2>3, <2>4, <2>5 DEF SessionNext
<1>5. \A t \in Sessions : sessPc'[t] = "write" => SameKnown(sessNew'[t])
  BY <1>2, <1>4 DEF RowsInv, NoRowLost
<1>6. sessPc'["desk"] = "off"
  BY <1>0, <1>2 DEF RowsInv, NoRowLost, Sessions
<1>7. \A t \in Sessions : sessPc'[t] # "off" => Known(sessFor[t])'
  BY <1>1, <1>3 DEF RowsInv, TypeOK, NoRowLost, Known
<1>8. QED
  BY <1>0, <1>1, <1>5, <1>6, <1>7 DEF RowsInv, TypeOK, NoRowLost, AtWork, Known, SameKnown

LEMMA CrashRows ==
  ASSUME RowsInv, Crash PROVE NoRowLost'
<1>1. /\ UNCHANGED rows /\ syncPc' = "idle" /\ syncTodo' = {} /\ planPc' = "idle" /\ planTodo' = {}
  BY DEF Crash, storeVars
<1>2. /\ sessPc'["desk"] = "off"
      /\ \A t \in Sessions : sessPc'[t] = "write" => SameKnown(sessNew'[t])
      /\ \A t \in Sessions : sessPc'[t] # "off" => Known(sessFor'[t])
  <2>1. CASE Close("planner")
    BY <2>1 DEF Close, RowsInv, TypeOK, NoRowLost, Sessions
  <2>2. CASE
         /\ sessPc["planner"] # "off"
         /\ sessPc' = [sessPc EXCEPT !["orphan"] = sessPc["planner"], !["planner"] = "off"]
         /\ sessFor' = [sessFor EXCEPT !["orphan"] = sessFor["planner"], !["planner"] = Nobody]
         /\ sessNew' = [sessNew EXCEPT !["orphan"] = sessNew["planner"], !["planner"] = NoRows]
    BY <2>2 DEF RowsInv, TypeOK, NoRowLost, Sessions
  <2>3. QED
    BY <2>1, <2>2 DEF Crash
<1>3. QED
  BY <1>1, <1>2 DEF NoRowLost, AtWork, SameKnown, Known

LEMMA StepRows ==
  ASSUME ~DeskOn, RowsInv, [Next]_vars PROVE RowsInv'
<1>1. TypeOK'
  BY StepType DEF RowsInv
<1>2. CASE UNCHANGED vars
  BY <1>1, <1>2 DEF vars, storeVars, syncVars, planVars, sessVars, RowsInv, NoRowLost, AtWork,
                    Known, SameKnown
<1>3. \A p \in Prospects : ~DeskOpen(p)
  BY DEF DeskOpen
<1>4. QED
  BY <1>1, <1>2, <1>3, TickRows, SyncRows, PlanRows, SessionRows, CrashRows
     DEF Next, RowsInv

-----------------------------------------------------------------------------
(* Without an operator session and without a crash. *)

\* Only the awaited run edits the file beside the sweeps, and only one sweep at a time
\* holds the event loop.
Alone ==
  /\ sessPc["orphan"] = "off"
  /\ sessPc["planner"] # "off" => planPc = "run" /\ sessFor["planner"] = planCur
  /\ ~(SyncHoldsLoop /\ PlanHoldsLoop)

\* What the plan sweep is about to save has the statuses the file has.
StatusHeld ==
  /\ planPc = "reload" => planTarget.status = rows[planCur].status
  /\ planPc = "save" => \A p \in Prospects : planCurrent[p].status = rows[p].status

KInv == RowsInv /\ Alone /\ StatusHeld

LEMMA InitKept == Init => Alone /\ StatusHeld
BY DEF Init, Alone, StatusHeld, SyncHoldsLoop, Sessions

LEMMA TickKept ==
  ASSUME KInv, Tick PROVE Alone' /\ StatusHeld'
<1>1. /\ \A p \in Prospects : rows'[p].status = rows[p].status
      /\ \A p \in Prospects : planCurrent'[p].status = planCurrent[p].status
      /\ planTarget'.status = planTarget.status
  BY AgeType, AgeRowStatus DEF Tick, KInv, RowsInv, TypeOK
<1>2. UNCHANGED <<syncPc, planPc, planCur, sessPc, sessFor>>
  BY DEF Tick
<1>3. Alone'
  BY <1>2 DEF KInv, Alone, SyncHoldsLoop, PlanHoldsLoop
<1>4. StatusHeld'
  BY <1>1, <1>2 DEF KInv, RowsInv, TypeOK, StatusHeld
<1>5. QED
  BY <1>3, <1>4

LEMMA SyncKept ==
  ASSUME KInv, SyncNext PROVE Alone' /\ StatusHeld'
<1>1. UNCHANGED <<planPc, planCur, planTarget, planCurrent, sessPc, sessFor>>
  BY DEF SyncNext, SyncLoad, SyncProbe, SyncResult, SyncSave, planVars, sessVars
<1>2. /\ syncPc' = "visit" => syncPc = "visit" \/ ~PlanHoldsLoop
      /\ rows' = rows \/ syncPc = "visit"
  BY DEF SyncNext, SyncLoad, SyncProbe, SyncResult, SyncSave, storeVars
<1>3. Alone'
  BY <1>1, <1>2 DEF KInv, Alone, SyncHoldsLoop, PlanHoldsLoop
<1>4. StatusHeld'
  BY <1>1, <1>2 DEF KInv, Alone, StatusHeld, SyncHoldsLoop, PlanHoldsLoop
<1>5. QED
  BY <1>3, <1>4

LEMMA PlanKept ==
  ASSUME KInv, PlanNext PROVE Alone' /\ StatusHeld'
<1>0. UNCHANGED syncPc
  BY DEF PlanNext, PlanLoad, PlanDispatch, RunnerReturns, PlanReread, PlanReload, PlanSave,
         PlanEnd, syncVars
<1>1. CASE PlanLoad \/ PlanEnd
  BY <1>0, <1>1 DEF PlanLoad, PlanEnd, sessVars, KInv, Alone, StatusHeld, SyncHoldsLoop,
                    PlanHoldsLoop
<1>2. ASSUME NEW p \in Prospects, PlanDispatch(p) PROVE Alone' /\ StatusHeld'
  <2>1. sessFor'["planner"] = p /\ sessPc'["orphan"] = "off"
    BY <1>2 DEF PlanDispatch, KInv, RowsInv, TypeOK, Alone, Sessions
  <2>2. QED
    BY <1>0, <1>2, <2>1 DEF PlanDispatch, Alone, StatusHeld, PlanHoldsLoop
<1>3. ASSUME NEW ok \in BOOLEAN, RunnerReturns(ok) PROVE Alone' /\ StatusHeld'
  <2>1. sessPc'["planner"] = "off" /\ sessPc'["orphan"] = "off"
    BY <1>3 DEF RunnerReturns, Close, KInv, RowsInv, TypeOK, Alone, Sessions
  <2>2. QED
    BY <1>3, <2>1 DEF RunnerReturns, Alone, StatusHeld, PlanHoldsLoop
<1>4. ASSUME NEW d \in Delays, PlanReread(d) PROVE Alone' /\ StatusHeld'
  <2>1. /\ UNCHANGED <<rows, planCur, sessPc, sessFor>>
        /\ planPc = "reread" /\ planPc' = "reload" /\ ~SyncHoldsLoop
    BY <1>4 DEF PlanReread, storeVars, sessVars
  <2>2. Alone'
    BY <1>0, <2>1 DEF KInv, Alone, SyncHoldsLoop
  <2>3. StatusHeld'
    BY <1>4, <2>1, TargetOnDisk DEF KInv, StatusHeld
  <2>4. QED
    BY <2>2, <2>3
<1>5. CASE PlanReload
  <2>1. /\ UNCHANGED <<rows, planCur, sessPc, sessFor>> /\ planPc = "reload" /\ planPc' = "save"
        /\ planCurrent' = [rows EXCEPT ![planCur] = planTarget]
    BY <1>5 DEF PlanReload, storeVars, sessVars
  <2>2. Alone'
    BY <1>0, <2>1 DEF KInv, Alone, SyncHoldsLoop, PlanHoldsLoop
  <2>3. rows \in [Prospects -> Row] /\ planTarget.status = rows[planCur].status
    BY <2>1 DEF KInv, RowsInv, TypeOK, Rows, StatusHeld
  <2>4. StatusHeld'
    BY <2>1, <2>3 DEF StatusHeld
  <2>5. QED
    BY <2>2, <2>4
<1>6. CASE PlanSave
  BY <1>0, <1>6 DEF PlanSave, sessVars, KInv, Alone, StatusHeld, SyncHoldsLoop, PlanHoldsLoop
<1>7. QED
  BY <1>1, <1>2, <1>3, <1>4, <1>5, <1>6 DEF PlanNext

\* A session that takes a step is the awaited run.
LEMMA SessionKept ==
  ASSUME KInv, NEW s \in Sessions, SessionNext(s) PROVE Alone' /\ StatusHeld'
<1>1. /\ s = "planner" /\ planPc = "run" /\ sessFor["planner"] = planCur
      /\ UNCHANGED <<syncPc, planPc, planCur>>
  BY DEF SessionNext, UpsertLive, UpsertTerminal, SaveRow, McpWrite, SessionEnds, KInv, RowsInv,
         NoRowLost, Alone, Sessions, syncVars, planVars
<1>2. UNCHANGED sessFor /\ sessPc'["orphan"] = sessPc["orphan"]
  BY <1>1 DEF SessionNext, UpsertLive, UpsertTerminal, SaveRow, McpWrite, SessionEnds, sessVars,
              KInv, RowsInv, TypeOK, Sessions
<1>3. QED
  BY <1>1, <1>2 DEF KInv, Alone, StatusHeld, SyncHoldsLoop, PlanHoldsLoop

LEMMA StepKept ==
  ASSUME ~DeskOn, ~CrashOn, KInv, [Next]_vars PROVE KInv'
<1>1. RowsInv'
  BY StepRows DEF KInv
<1>2. CASE UNCHANGED vars
  BY <1>1, <1>2 DEF vars, storeVars, syncVars, planVars, sessVars, KInv, Alone, StatusHeld,
                    SyncHoldsLoop, PlanHoldsLoop
<1>3. (\A p \in Prospects : ~DeskOpen(p)) /\ ~Crash
  BY DEF DeskOpen, Crash
<1>4. QED
  BY <1>1, <1>2, <1>3, TickKept, SyncKept, PlanKept, SessionKept DEF Next, KInv

\* The inductive invariant without an operator session and without a crash.
THEOREM PlanSweepHasTheFile ==
  ASSUME ~DeskOn, ~CrashOn PROVE Spec => []KInv
<1>1. Init => KInv
  BY InitType, InitRows, InitKept DEF RowsInv, KInv
<1>2. KInv /\ [Next]_vars => KInv'
  BY StepKept
<1>3. QED
  BY <1>1, <1>2, PTL DEF Spec

\* Beside the sync sweep, the save of the plan sweep changes no connection_status.
THEOREM PlanSaveKeepsStatus ==
  ASSUME ~DeskOn, ~CrashOn PROVE Spec => PlanKeepsStatus
<1>1. KInv /\ [Next]_vars =>
        [PlanSave => \A p \in Prospects : rows'[p].status = rows[p].status]_vars
  BY DEF KInv, StatusHeld, PlanSave, Replace, Copy, Sessions
<1>2. QED
  BY <1>1, PlanSweepHasTheFile, PTL DEF Spec, PlanKeepsStatus

-----------------------------------------------------------------------------
(* The plan sweep alone: the sync routine is not active. *)

\* What will be written back differs from the file only in the prospect of the run, and
\* has the delay owed there.
OwnCopies ==
  /\ sessPc["planner"] = "write" =>
       /\ \A p \in Prospects \ {planCur} : sessNew["planner"][p].plan = rows[p].plan
       /\ owed[planCur] <= sessNew["planner"][planCur].plan
  /\ planPc = "save" =>
       /\ \A p \in Prospects \ {planCur} : planCurrent[p].plan = rows[p].plan
       /\ planCurrent[planCur].plan = planTarget.plan

\* Between an outcome and its save the row in memory carries it, before and after that the
\* row in the file.
Decided == planPc \in {"reload", "save"}

Honoured ==
  /\ \A p \in Prospects : ~(Decided /\ p = planCur) => owed[p] <= rows[p].plan
  /\ Decided => owed[planCur] <= planTarget.plan

\* Nobody who is still to be visited is owed a delay.
AsFound ==
  /\ \A p \in planTodo : owed[p] = 0
  /\ AtWork => planCur \notin planTodo

SInv == KInv /\ syncPc = "idle" /\ OwnCopies /\ Honoured /\ AsFound

LEMMA InitAlone ==
  Init => syncPc = "idle" /\ OwnCopies /\ Honoured /\ AsFound
<1>1. ASSUME Init PROVE Honoured
  BY <1>1 DEF Init, Honoured, Decided, Absent, Fresh
<1>2. QED
  BY <1>1 DEF Init, OwnCopies, AsFound, AtWork, Sessions

LEMMA OlderMonotone ==
  ASSUME NEW m \in 0..MaxDelay, NEW n \in 0..MaxDelay, m <= n PROVE Older(m) <= Older(n)
BY DelayAssumption DEF Older

LEMMA AgePlan ==
  ASSUME NEW f \in Rows, NEW p \in Prospects PROVE Age(f)[p].plan = Older(f[p].plan)
BY AgeRowStatus DEF Age, Rows

LEMMA TickAlone ==
  ASSUME SInv, Tick PROVE OwnCopies' /\ Honoured' /\ AsFound'
<1>1. /\ \A p \in Prospects : sessNew["planner"][p].plan \in 0..MaxDelay
      /\ sessPc["planner"] # "off" => planCur \in Prospects
  BY DEF SInv, KInv, RowsInv, TypeOK, Rows, Row, Alone, Sessions
<1>2. /\ \A p \in Prospects : rows'[p].plan = Older(rows[p].plan)
      /\ \A p \in Prospects : planCurrent'[p].plan = Older(planCurrent[p].plan)
      /\ \A p \in Prospects : sessNew'["planner"][p].plan = Older(sessNew["planner"][p].plan)
      /\ planTarget'.plan = Older(planTarget.plan)
      /\ \A p \in Prospects : owed'[p] = Older(owed[p])
  BY AgePlan, AgeRowStatus DEF Tick, SInv, KInv, RowsInv, TypeOK, Sessions
<1>3. UNCHANGED <<planPc, planTodo, planCur, sessPc>>
  BY DEF Tick
<1>4. /\ AtWork => planCur \in Prospects
      /\ planTodo \subseteq Prospects
      /\ \A p \in Prospects : owed[p] \in 0..MaxDelay /\ rows[p].plan \in 0..MaxDelay
      /\ planTarget.plan \in 0..MaxDelay
  BY DEF SInv, KInv, RowsInv, TypeOK, AtWork, Rows, Row
<1>5. OwnCopies'
  <2>1. ASSUME sessPc["planner"] = "write"
        PROVE  Older(owed[planCur]) <= Older(sessNew["planner"][planCur].plan)
    <3>1. owed[planCur] <= sessNew["planner"][planCur].plan
      BY <2>1 DEF SInv, OwnCopies
    <3>2. QED
      BY <1>1, <1>4, <2>1, <3>1, OlderMonotone
  <2>2. QED
    BY <1>1, <1>2, <1>3, <1>4, <2>1 DEF SInv, OwnCopies, AtWork
<1>6. Honoured'
  BY <1>2, <1>3, <1>4, OlderMonotone DEF SInv, Honoured, Decided, AtWork
<1>7. AsFound'
  <2>1. Older(0) = 0
    BY DEF Older
  <2>2. QED
    BY <1>2, <1>3, <1>4, <2>1 DEF SInv, AsFound, AtWork
<1>8. QED
  BY <1>5, <1>6, <1>7

LEMMA PlanAlone ==
  ASSUME SInv, PlanNext PROVE OwnCopies' /\ Honoured' /\ AsFound'
<1>0. /\ rows \in [Prospects -> Row] /\ owed \in [Prospects -> 0..MaxDelay]
      /\ planTodo \subseteq Prospects /\ (AtWork => planCur \in Prospects)
      /\ sessPc["planner"] # "off" => planPc = "run"
  BY DEF SInv, KInv, RowsInv, TypeOK, Rows, AtWork, Alone
<1>1. CASE PlanLoad
  <2>1. /\ UNCHANGED <<rows, sessPc, sessNew, owed>> /\ planPc = "idle" /\ planPc' = "visit"
        /\ planTodo' = PlanDue(rows)
    BY <1>1 DEF PlanLoad, storeVars, sessVars, history
  <2>2. OwnCopies' /\ Honoured'
    BY <1>0, <2>1 DEF SInv, OwnCopies, Honoured, Decided
  <2>3. ASSUME NEW p \in PlanDue(rows) PROVE owed[p] = 0
    <3>1. p \in Prospects /\ rows[p].plan = 0
      BY DEF PlanDue
    <3>2. owed[p] <= 0 /\ owed[p] \in 0..MaxDelay
      BY <1>0, <2>1, <3>1 DEF SInv, Honoured, Decided
    <3>3. QED
      BY <3>1, <3>2, DelayAssumption
  <2>4. AsFound'
    BY <2>1, <2>3 DEF AsFound, AtWork
  <2>5. QED
    BY <2>2, <2>4
<1>2. ASSUME NEW p \in Prospects, PlanDispatch(p) PROVE OwnCopies' /\ Honoured' /\ AsFound'
  <2>1. /\ UNCHANGED <<rows, sessNew, owed>> /\ planPc = "visit" /\ planPc' = "run"
        /\ planCur' = p /\ planTodo' = planTodo \ {p} /\ sessPc'["planner"] = "on"
    BY <1>2 DEF PlanDispatch, history, SInv, KInv, RowsInv, TypeOK, Sessions
  <2>2. QED
    BY <1>0, <2>1 DEF SInv, OwnCopies, Honoured, Decided, AsFound, AtWork
<1>3. ASSUME NEW ok \in BOOLEAN, RunnerReturns(ok) PROVE OwnCopies' /\ Honoured' /\ AsFound'
  <2>1. /\ UNCHANGED <<rows, planTodo, planCur, owed>> /\ planPc = "run" /\ planPc' = "reread"
        /\ sessPc'["planner"] = "off"
    BY <1>3 DEF RunnerReturns, Close, SInv, KInv, RowsInv, TypeOK, Sessions, storeVars,
                      history
  <2>2. QED
    BY <1>0, <2>1 DEF SInv, OwnCopies, Honoured, Decided, AsFound, AtWork
<1>4. ASSUME NEW d \in Delays, PlanReread(d) PROVE OwnCopies' /\ Honoured' /\ AsFound'
  <2>1. /\ UNCHANGED <<rows, planTodo, planCur, sessPc, sessNew>>
        /\ planPc = "reread" /\ planPc' = "reload"
    BY <1>4 DEF PlanReread, storeVars, sessVars
  <2>2. PICK o \in 0..MaxDelay : /\ owed' = [owed EXCEPT ![planCur] = o]
                                 /\ planTarget'.plan = o
    <3>1. planTarget'.plan = IF Succeeded(planCur, rows[planCur]) THEN 0 ELSE d
      BY <1>4, TargetOnDisk DEF SInv, KInv
    <3>2. (IF Succeeded(planCur, rows[planCur]) THEN 0 ELSE d) \in 0..MaxDelay
      BY DelayAssumption DEF Delays
    <3>3. QED
      BY <1>4, <3>1, <3>2 DEF PlanReread
  <2>3. planCur \in Prospects
    BY <1>0, <2>1 DEF AtWork
  <2>4. OwnCopies'
    BY <1>0, <2>1 DEF OwnCopies
  <2>5. Honoured'
    BY <1>0, <2>1, <2>2, <2>3, DelayAssumption DEF SInv, Honoured, Decided
  <2>6. AsFound'
    BY <1>0, <2>1, <2>2 DEF SInv, AsFound, AtWork
  <2>7. QED
    BY <2>4, <2>5, <2>6
<1>5. CASE PlanReload
  <2>1. /\ UNCHANGED <<rows, planTodo, planCur, planTarget, sessPc, sessNew, owed>>
        /\ planPc = "reload" /\ planPc' = "save"
        /\ planCurrent' = [rows EXCEPT ![planCur] = planTarget]
    BY <1>5 DEF PlanReload, storeVars, sessVars, history
  <2>2. planCur \in Prospects
    BY <1>0, <2>1 DEF AtWork
  <2>3. OwnCopies'
    BY <1>0, <2>1, <2>2 DEF OwnCopies
  <2>4. Honoured' /\ AsFound'
    BY <2>1 DEF SInv, Honoured, Decided, AsFound, AtWork
  <2>5. QED
    BY <2>3, <2>4
<1>6. CASE PlanSave
  <2>1. /\ UNCHANGED <<planTodo, sessPc, sessNew, owed>>
        /\ planPc = "save" /\ planPc' = "visit" /\ rows' = planCurrent
    BY <1>6 DEF PlanSave, Replace, Copy, Sessions, sessVars
  <2>2. ASSUME NEW p \in Prospects PROVE owed'[p] <= rows'[p].plan
    BY <1>0, <2>1 DEF SInv, OwnCopies, Honoured, Decided
  <2>3. OwnCopies' /\ Honoured'
    BY <1>0, <2>1, <2>2 DEF OwnCopies, Honoured, Decided
  <2>4. AsFound'
    BY <1>0, <2>1 DEF SInv, AsFound, AtWork
  <2>5. QED
    BY <2>3, <2>4
<1>7. CASE PlanEnd
  <2>1. /\ UNCHANGED <<rows, sessPc, sessNew, owed>> /\ planPc = "visit" /\ planPc' = "idle"
        /\ planTodo' = {}
    BY <1>7 DEF PlanEnd, storeVars, sessVars, history
  <2>2. QED
    BY <1>0, <2>1 DEF SInv, OwnCopies, Honoured, Decided, AsFound, AtWork
<1>8. QED
  BY <1>1, <1>2, <1>3, <1>4, <1>5, <1>6, <1>7 DEF PlanNext

LEMMA SessionAlone ==
  ASSUME SInv, NEW s \in Sessions, SessionNext(s) PROVE OwnCopies' /\ Honoured' /\ AsFound'
<1>0. /\ s = "planner" /\ planPc = "run" /\ sessFor["planner"] = planCur
      /\ UNCHANGED <<planPc, planTodo, planCur, planTarget, planCurrent>>
  BY DEF SessionNext, UpsertLive, UpsertTerminal, SaveRow, McpWrite, SessionEnds, SInv, KInv,
         RowsInv, NoRowLost, Alone, Sessions, planVars
<1>1. /\ planCur \in Prospects /\ rows \in [Prospects -> Row] /\ planTodo \subseteq Prospects
      /\ owed \in [Prospects -> 0..MaxDelay]
  BY <1>0 DEF SInv, KInv, RowsInv, TypeOK, Rows
<1>2. ASSUME NEW fresh \in BOOLEAN, UpsertLive(s, fresh)
      PROVE  OwnCopies' /\ Honoured' /\ AsFound'
  <2>1. UNCHANGED <<rows, sessPc, sessNew, owed>>
    BY <1>2 DEF UpsertLive, sessVars, history
  <2>2. QED
    BY <1>0, <2>1 DEF SInv, OwnCopies, Honoured, Decided, AsFound, AtWork
<1>3. ASSUME NEW fresh \in BOOLEAN, UpsertTerminal(s, fresh)
      PROVE  OwnCopies' /\ Honoured' /\ AsFound'
  <2>1. UNCHANGED <<rows, owed>>
    BY <1>3 DEF UpsertTerminal, history
  <2>2. sessPc'["planner"] = "write" =>
          /\ \A p \in Prospects \ {planCur} : sessNew'["planner"][p].plan = rows[p].plan
          /\ owed[planCur] <= sessNew'["planner"][planCur].plan
    <3>1. CASE NothingToEnd(rows, sessFor[s])
      BY <1>0, <1>3, <3>1 DEF UpsertTerminal, SInv, OwnCopies
    <3>2. CASE ~NothingToEnd(rows, sessFor[s])
      <4>1. sessNew'["planner"] = MarkEnded(rows, planCur)
        BY <1>0, <1>3, <3>2 DEF UpsertTerminal, SInv, KInv, RowsInv, TypeOK
      <4>2. \A p \in Prospects : MarkEnded(rows, planCur)[p].plan = rows[p].plan
        BY <1>1 DEF MarkEnded, Row
      <4>3. owed[planCur] <= rows[planCur].plan
        BY <1>0, <1>1 DEF SInv, Honoured, Decided
      <4>4. QED
        BY <1>1, <4>1, <4>2, <4>3
    <3>3. QED
      BY <3>1, <3>2
  <2>3. OwnCopies'
    BY <1>0, <2>1, <2>2 DEF OwnCopies
  <2>4. Honoured' /\ AsFound'
    BY <1>0, <2>1 DEF SInv, Honoured, Decided, AsFound, AtWork
  <2>5. QED
    BY <2>3, <2>4
<1>4. ASSUME NEW st \in Saveable, SaveRow(s, st)
      PROVE  OwnCopies' /\ Honoured' /\ AsFound'
  <2>1. /\ UNCHANGED rows /\ owed' = [owed EXCEPT ![planCur] = 0]
        /\ sessNew'["planner"] = SaveConnection(rows, planCur, st)
    BY <1>0, <1>4 DEF SaveRow, storeVars, SInv, KInv, RowsInv, TypeOK
  <2>2. \A p \in Prospects \ {planCur} : SaveConnection(rows, planCur, st)[p].plan = rows[p].plan
    BY <1>1 DEF SaveConnection
  <2>3. SaveConnection(rows, planCur, st)[planCur].plan = 0
    BY <1>1 DEF SaveConnection, Fresh
  <2>4. owed'[planCur] = 0 /\ \A p \in Prospects : owed'[p] <= owed[p]
    BY <1>1, <2>1
  <2>5. OwnCopies'
    BY <1>0, <2>1, <2>2, <2>3, <2>4 DEF OwnCopies
  <2>6. Honoured'
    <3>1. ASSUME NEW p \in Prospects PROVE owed'[p] <= rows[p].plan
      <4>1. owed[p] <= rows[p].plan
        BY <1>0 DEF SInv, Honoured, Decided
      <4>2. rows[p].plan \in Nat /\ owed[p] \in Nat
        BY <1>1 DEF Row
      <4>3. CASE p = planCur
        BY <2>4, <4>2, <4>3
      <4>4. CASE p # planCur
        BY <1>1, <2>1, <4>1, <4>4
      <4>5. QED
        BY <4>3, <4>4
    <3>2. QED
      BY <1>0, <2>1, <3>1 DEF Honoured, Decided
  <2>7. AsFound'
    BY <1>0, <1>1, <2>1 DEF SInv, AsFound, AtWork
  <2>8. QED
    BY <2>5, <2>6, <2>7
<1>5. CASE McpWrite(s)
  <2>1. /\ rows' = sessNew["planner"] /\ sessPc["planner"] = "write"
        /\ sessPc'["planner"] = "on" /\ UNCHANGED owed
    BY <1>0, <1>5 DEF McpWrite, Replace, Copy, SInv, KInv, RowsInv, TypeOK, Sessions
  <2>2. /\ \A p \in Prospects \ {planCur} : rows'[p].plan = rows[p].plan
        /\ owed[planCur] <= rows'[planCur].plan
    BY <2>1 DEF SInv, OwnCopies
  <2>3. OwnCopies'
    BY <1>0, <2>1 DEF OwnCopies
  <2>4. Honoured'
    BY <1>0, <2>1, <2>2 DEF SInv, Honoured, Decided
  <2>5. AsFound'
    BY <1>0, <1>1, <2>1 DEF SInv, AsFound, AtWork
  <2>6. QED
    BY <2>3, <2>4, <2>5
<1>6. CASE SessionEnds(s)
  BY <1>0, <1>6 DEF SessionEnds
<1>7. QED
  BY <1>2, <1>3, <1>4, <1>5, <1>6 DEF SessionNext

LEMMA StepAlone ==
  ASSUME ~SyncOn, ~DeskOn, ~CrashOn, SInv, [Next]_vars PROVE SInv'
<1>1. KInv'
  BY StepKept DEF SInv
<1>2. ~SyncNext /\ (\A p \in Prospects : ~DeskOpen(p)) /\ ~Crash
  BY DEF SyncNext, SyncLoad, SyncProbe, SyncResult, SyncSave, DeskOpen, Crash, SInv
<1>3. CASE UNCHANGED vars
  BY <1>1, <1>3 DEF vars, storeVars, syncVars, planVars, sessVars, history, SInv, OwnCopies,
                    Honoured, Decided, AsFound, AtWork
<1>4. CASE Next
  <2>1. syncPc' = "idle"
    BY <1>2, <1>4 DEF Next, Tick, PlanNext, PlanLoad, PlanDispatch, RunnerReturns,
       PlanReread, PlanReload, PlanSave, PlanEnd, SessionNext, UpsertLive, UpsertTerminal,
       SaveRow, McpWrite, SessionEnds, syncVars, SInv
  <2>2. QED
    BY <1>1, <1>2, <1>4, <2>1, TickAlone, PlanAlone, SessionAlone DEF Next, SInv
<1>5. QED
  BY <1>3, <1>4

\* The inductive invariant of the plan sweep on its own.
THEOREM PlanSweepAlone ==
  ASSUME ~SyncOn, ~DeskOn, ~CrashOn PROVE Spec => []SInv
<1>1. Init => SInv
  BY InitType, InitRows, InitKept, InitAlone DEF RowsInv, SInv, KInv
<1>2. SInv /\ [Next]_vars => SInv'
  BY StepAlone
<1>3. QED
  BY <1>1, <1>2, PTL DEF Spec

\* Nobody is dispatched before the delay that was decided for him has elapsed.
THEOREM NoRunBeforeDelay ==
  ASSUME ~SyncOn, ~DeskOn, ~CrashOn PROVE Spec => BackoffHonoured
<1>1. SInv /\ [Next]_vars =>
        [\A p \in Prospects : PlanDispatch(p) => owed[p] = 0]_vars
  BY DEF SInv, AsFound, PlanDispatch
<1>2. QED
  BY <1>1, PlanSweepAlone, PTL DEF Spec, BackoffHonoured
=============================================================================
