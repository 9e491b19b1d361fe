# LinkedIn outreach: specifications, model checking, proofs

This directory holds TLA+ models of the stateful core of the program: the cron sweeps that drive a
prospect from an invitation to the end of a conversation, the way a conversation ends, the job queue
and its workers, the browser tabs all tools share, the custom routines and their file, the daily caps,
the backoff arithmetic, and the regression slot of the dashboard. TLC checks them on small instances,
TLAPS proves their main invariants for every value of the constants. `PROJECT.json` maps every
definition to the lines it models and lists the runs, the mutants (plausible bugs every property must
catch), the findings and the hazards.

Check a run with `tlc -config SweepsCron.cfg OutreachSweeps.tla`, a proof with
`tlapm OutreachSweeps_proofs.tla`.

## 1. The system

| component | source | state it keeps | operations | how it meets the others |
|---|---|---|---|---|
| connection sync sweep | `cron/connection_sync_sweep.py` | a copy of `connections.json` during a sweep | load, probe each due `pending` row, promote or back off, save | a task of the cron event loop; awaits the browser |
| conversation plan sweep | `cron/conversation_plan_sweep.py` | a list of rows, in-memory locks | per due row: run `claude -p`, re-read, classify, reload, save | a task of the same loop; awaits a subprocess whose MCP server writes the same files |
| per-row backoff | `cron/routine_backoff.py` | `sync_backoff`, `plan_backoff` of a row | `is_due`, `apply_result`, `reschedule_to_window` | called by both sweeps |
| routine scheduler | `cron/routine_scheduler.py`, `cron/server.py` | last sweep instants, locks | tick, gate, start tasks, stamp what ended | one event loop: the two sweeps, or the custom routines ("loop" mode) |
| routine configuration | `cron/routines_config.py` | `dashboard_routines.json` | load (defaults, migration, save), upserts, update after a run | written by the scheduler, the dashboard and by hand, no lock, one temporary name |
| MCP server, files | `tools/server.py` | connections, conversations, prospects, queue, reports | `save_connection`, `upsert_conversation`, `schedule_meeting`, ... | one process per Claude session; read, edit, rename, no lock |
| MCP server, LinkedIn | `tools/server.py`, `outreach/browser.py` | a page of the operator's Chrome | attach, check the cap, act, record, detach | every session, both sweeps, the worker and the operator are on the same Chrome |
| rate limits | `tools/rate_limits.py` | `rate_limits.json` | `rate_limit(check)`, `rate_limit(record)` | the LinkedIn actions of the MCP tools and of the sync sweep's probes, under flock; the queue worker's actions neither ask nor record |
| queue worker | `outreach/worker.py` | pending, completed, failed queues | pop, load, act in the browser, save, record the result | shares the pending queue with the MCP servers and the operator, the prospect's files with the MCP servers, and all of them with a second worker, which nothing keeps from being started |
| notifications | `tools/notify.py` | none | send an e-mail | called by the MCP tools |
| dashboard | `testing/web/` | the regression slot | read files, Configure form, run-now, start/stop a regression | one event loop and worker threads, one reader thread per regression |
| message planner | `outreach/planner.py` | none | ask a language model for a text | called by the worker |
| mock backend, harness, tests | `testing/` | mock sessions | test equipment | - |
| skills, installer, persona | `outreach/skills/`, `bin/`, `install.sh`, `tools/setup_*.py` | - | prompts, shell scripts, one-shot conversions | - |

What is hard here is that almost every file has several writers and no lock. Most writers replace a
whole file by rename, so no reader sees half a file, but each of them writes back a copy it took some
time ago: before a network probe (seconds), before a `claude -p` run (up to ten minutes), or just
before. The worker writes in place, so its files may also be half written. The processes may die while
a child lives on. Daily caps are checked before an action and counted after it. Time appears as
absolute instants that are compared with a clock read at another moment. And the browser is shared: a
tool looks for a control on whatever page its tab shows by then.

What makes the components correct:

- *sweeps and connections*: nobody is called connected, or handed to the planner, but on the word of a
  probe or of a session; no row is lost; an ended prospect stays ended; a failed run is not repeated
  before its backoff is over; an accepted invitation is noticed.
- *the end of a conversation*: it ends the row and the prospect too, and the operator is told once.
- *queue*: a job is in one place, the browser is asked for it once, and it is filed as completed only
  if the browser said it was done.
- *browser*: a tool reaches the person it was called for, with its own text, and has done what it says
  it did; it leaves the operator's tabs open.
- *routines*: a routine is not started before its interval; what the operator set stays set; a save
  that is cut short ruins nothing; a spoilt file recovers.
- *rate limits*: the file counts like one shared counter; what the day's callers do stays near the cap,
  by a margin one can name.
- *backoff*: a check is scheduled when the routine is active, never early, never later than the
  interval and one closed period; backing off goes on up to the maximum.
- *regression slot*: one run at a time, showing its own verdict; a stop frees it.

The full list of hazards, with the line each bites at, is in `PROJECT.json`.

## 2. Modules

```
Connections          the file connections.json and the edits of it
  OutreachSweeps     its writers: two sweeps, planner/orphan/desk sessions, crash, clock
    OutreachSweeps_proofs, SweepSaves_proofs
JobLife              abstract: the life of a job, seen from outside
EndLife              abstract: the end of a conversation, part by part
JobQueue             the queue workers and pending/completed/failed.json
ConversationEnd      upsert_conversation and the other writers of a prospect's files
  Pipeline           both together, on the same files; it implements JobLife and EndLife
    PipelineMC, Pipeline_proofs
SharedBrowser        tool calls and the operator on the tabs of one Chrome
  SharedBrowserMC, SharedBrowser_proofs
Routines             the custom routines: scheduler, dashboard, one file, one temporary name
  RoutinesMC, Routines_proofs
DailyQuota           abstract: one counter per category, cleared by a new day
RateLimits           detailed: check / act / record over a locked, truncated, rewritten file
  RateLimitsMC, RateLimits_proofs
RoutineBackoff       the life of one backoff record, in minutes
  RoutineBackoffMC, RoutineBackoff_proofs
RegressionRunner     the dashboard's regression slot
  RegressionRunner_proofs
```

### Connections and OutreachSweeps

A row is its `connection_status` and, per backoff record, the time units left until `next_check_at`
(0 when due). Names, notes and counters of a record are dropped. A missing row has status `absent`.
Timestamps become remaining times that `Tick` lowers in every copy at once, in memory and on disk,
which is what an absolute timestamp does; `owed` is a history variable with the backoff a prospect is
really owed. The delay of a new record is any value up to `MaxDelay`: how it is computed is the
subject of RoutineBackoff.

Both sweeps are tasks of one event loop, so they interleave only at their `await`s: `SyncProbe` to
`SyncResult` (the probe) and `PlanDispatch` to `RunnerReturns` (the subprocess). `SyncHoldsLoop` and
`PlanHoldsLoop` say who has the loop. Reads and writes of the file are separate steps, because the
MCP servers are other processes: `PlanReread`, `PlanReload`, `PlanSave` here, `UpsertTerminal` or
`SaveRow` followed by `McpWrite` there. The order of the file is not kept: a sweep may visit the due
rows in any order and may stop at any point, which covers the break at the daily cap. The
per-prospect lock is not modelled since one process runs one plan sweep at a time.

Sessions are `planner` (the run the plan sweep waits for), `orphan` (a run that outlived a killed
cron process) and `desk` (the operator). A session may call the tools in any order, may save a
conversation with a new `last_action_timestamp` or with an old one, and may end, or be killed, in the
middle of a call. `save_connection` is for all of them; the statuses a planner's run gives by it are the
constant `RunSaves`, which the theorems leave open. One assumption: a session works on one prospect, the
planner on the one it was dispatched for, as the skill tells it; the code does not enforce it.

Nothing is assumed of a probe's answer: `SyncResult` may say "yes" of somebody who has not accepted and
"no" of somebody who has, since the browser guesses where it reads no badge (see `ReadDegree`). What is
shown is that only such an answer, or a `save_connection`, makes a row connected: `answered` is the
history of them. `unseen` holds the prospects whose row was added while another writer had a copy of the
file: it is the one way a row may get lost, and `Replace`, which every writer uses, keeps the book.

One thing is left out: when a run times out only claude is killed, and its MCP server may finish a
write that was under way (`skill_runner.py:64`). `Close` drops that edit; the orphan of a crash is the
writer that lives on.

### JobQueue, ConversationEnd and Pipeline

Any number of workers: `run_worker` looks neither at `worker.pid` nor at a lock, and `make stop` returns
while the old worker finishes its job (`Makefile:102-110`). `worker[w]` is the place of one in its loop,
with the job it holds, the list or the copy it is going to write, and the verdict.

A queue file is a set of jobs, or torn. A worker's writes are two steps each, open (truncate) and
write, with everything else in between: `PopOpen`/`PopWrite`, `SaveOpen`/`SaveWrite`,
`RecordOpen`/`RecordWrite`; `record_result` reads before (`RecordLoad`). Whoever replaces a file between
the two cuts the worker off from it (its handle is on a file without a name): that is `worker[w].mine`.
Of two workers that write one file at a time either content, or a file that does not parse, may be left.
An MCP session or the operator reads `pending.json` (`EditLoad`) and replaces it later (`RemoveJobs`,
`AddJob`). `Act` is the await of the browser: `acted` counts how often it was asked, `said` holds the
jobs it said it had done. Whether it did is another matter: it answers True after a click nobody
verifies, and may raise after it went through, so no property of the queue speaks of what LinkedIn took
(what an undisturbed call does is `UndisturbedAnswerTrue`). `Kill` may come anywhere. A prospect's file
is the stage it holds; `worker[w].copy` is the stage the handler loaded and will write back.

`ConversationEnd` has a step per file of `upsert_conversation`: read the prior stage, replace the
conversation, mark the row, align the prospect, tell the operator; each may fail in the way the code
swallows or does not, and the server may die between any two. `schedule_meeting` and
`upsert_prospect` are the other writers. `Pipeline` puts the workers and the sessions on the same
files: a worker's save may undo what a session or another worker wrote, a session may replace what a
worker has truncated. Whether a session cuts a worker off is read off the content: one that puts back
the content that is there, on a file two workers are writing, cuts nobody off in the model; that person
has a fault by then.

The history variables say what excuses a failure, and the properties are only as strong as these are
narrow. `hit` holds a job when a stale copy of a queue file removed or restored its entry, when it was at
stake in a file two workers wrote at once, or when a worker ended with it (or with the file it is in) in
its hands. Two workers alone hit nothing: only if their steps on one file interleave, and then only the
jobs whose entries differ. `fault[p]` is `"short"` when a step of an end was left out, `"again"` when the
conversation was reopened or written from a stale copy, when two calls raced, or when its prior stage
could not be read. `asked` is what should be in the queue.

`JobLife` is what the queue promises without its files: a job waits, is taken by a worker, the browser
is asked for it once and says that it did it or not, and it is then completed or failed; it may fail
before, and after a yes, but is not completed without one; it may be taken back while it waits and be
asked for again. `Pipeline!Life` maps the files to it: a job in a worker's hands is "taken", then "done"
or "refused" by what the browser said, whatever the files look like on the way (the queue is truncated
while the worker takes a job, the result file while it files one); a job nobody holds is where its file
says; a job in `hit` is "astray". The map has more values for what must not be: a job that is in two
places, or asked for and in none ("lost"), one that was not asked for and is somewhere ("back"), one
the browser was asked for twice ("repeated"); no step of JobLife leads to them. What JobLife does not
limit is when a job goes astray, except that asking the browser and filing lead no job astray: the causes
are in the actions that set `hit`.

`EndLife` does the same for the end of a conversation: of each person it keeps which parts of the end
are done, the conversation, the row, the prospect, the mail. The row comes after the conversation, the
mail after the other three, only the prospect may come at any time (`upsert_prospect`), and nothing
that was done is undone. `Pipeline!DoneOf` reads the parts off the files, taking a file that a worker
has truncated for what it is about to write, and calls a second mail a part of its own, which no step
of EndLife does. A person with a `fault` is astray; that the others are not touched by it is part of
the specification, as one step is about one person (shown by the proof: the run has one person).

### SharedBrowser

A tab is the kind of page it shows, whose it is, the dialog or menu open on it, and the texts in its
composer, each known by the person it was meant for. A call walks through its tool's awaits: attach
(`_pick_tab`, or a page of its own), go to the page, find, click, type, send or read, detach. A locator
is resolved when it is used, on what the tab shows then, so a step's guard is what it finds there; a
step that finds nothing is a `GiveUp`. `UserBrowses` is the operator. The kinds of page keep what the
tools tell apart: a post, a thread and a profile carry a person; the layout of the page, the fallback
selectors and the waits are dropped. Where the code takes the first match, the model takes any:
`OpenThread` opens anybody's thread, since the first visible row after the search is clicked and neither
its name nor its link is looked at (`row` is the history of whose it was); `ClickConnect` may invite
somebody suggested beside the profile (`Suggested`). `ReadDegree` reads the badge of the profile's owner
or of a suggestion, and where none is read, a page that is not ready included, answers either way, as the
code does by looking for any Message link: no property claims that answer. `clean` is a history variable:
nobody else has changed the tab since the call started on it, and it found no text there. One
assumption: a click on a control of an undisturbed page is carried out by Chrome and LinkedIn. The code
does not verify it, and the properties could not hold otherwise.

### Routines

Two processes, `cron` and `dash`, each one event loop, on `dashboard_routines.json`. `io[p]` is the
call a process is in: load, and, when what was loaded is not normal, open, write and rename of the one
temporary file before it goes on (`After`). A handle that another process's rename has turned into one
on the file itself, or on no file, is `to`. `Put` is the Configure form with the stamps it was shown,
`RunNow` the click, `EditByHand` the operator's editor, also putting back the row of an old dashboard
(legacy rows make `load_config` drop all rows). A config keeps what the operator can lose: the mode,
the sweeps' flag, and the rows with flag and stamp. What two writers make of one file is either content,
`Garbage`, which reads as nothing, or `Undecodable`: a multi-byte character cut in two raises a
`UnicodeDecodeError` that `_read_json` lets escape, so the load fails, a tick with it, and the file stays
as it is until somebody writes it without loading it (the Configure form of an open page, or by hand).

Assumptions: a call is over within one unit of the clock (`Clock`), a routine has one click under way
at a time, and the form is only fetched while an edit is left. Active windows are left to
RoutineBackoff: a tick may leave out any due row. History: `wish` is what the operator asked for,
`ended` when a routine's last run ended, `raced` whether two writers overlapped, `hit` the routines
whose stamp was not to be relied on (an older form, a run lost with its process, a tick during the
stamping).

### RateLimits and DailyQuota

A client is a tool call or a probe. `Call`, then `LockAndMutate`, `Truncate`, `WriteAndUnlock` for the
check; `Act` (or one of its failures) without the lock; the same three steps for the record. The
queue of events of a category is its length. A death may come anywhere: it drops the flock, and after
`Truncate` it leaves an empty file. `unseen` is a history variable that counts the actions the file
can no longer come to know of. The refinement maps the file to DailyQuota's counter by `Visible`: the
counts the next caller will find, which are the writer's while it rewrites the file. The queue worker is
no client: `WorkerActs` is a request, message or scrape of its handlers, which neither check nor record,
and adds to `sent` and to `unseen`. `OvershootBounded` is therefore a bound on what the clients do; on the
worker's actions the code puts none. In the run a death may clear the counts (`MayForget` is TRUE there);
the theorem covers `FaultOn = FALSE` as well, where only midnight does.

### RoutineBackoff

One row, one policy, one window, minutes. The state is periodic in days, so only the minute of the
day of the latest visit is kept. `Round` is Python's rounding (halves to even) of exact fractions; the
multiplier is a fraction, where the program uses a float. Jitter is a percentage between 80 and 120.
An unset window is `<<0, 1440>>`. Equal ends are excluded, the validator refuses them
(`routines_config.py:424`). Changes of summer time and seconds are left out.

### RegressionRunner

Every locked section of `start`, `stop` and `_reader_loop` is one action; what happens between two of
them is not. A `RegressionBusyError` changes nothing and is no action. `StopKills` covers TERM, the
five seconds and KILL. Two failures are left out: a reader thread that cannot be started (`:144`), and a
reader that ends with an error other than `OSError` (`:230`, output that is no UTF-8); in both the slot
stays as it is until somebody stops the run.

## 3. Runs

| run | instance | what it shows |
|---|---|---|
| `sweeps_cron` | 2 prospects, delays up to 2, both sweeps | the plan sweep's save keeps every status; under fairness every accepted invitation is noticed |
| `sweeps_plan_only` | 2 prospects, delays up to 2, sync routine off, planner runs that save any status | backoff is honoured |
| `sweeps_everyone` | 1 prospect, both sweeps, operator, crash, orphan, every `save_connection` | connected, and planned, only on a probe's or a session's word; no row vanishes but one added under a copy |
| `sweeps_lost_update` (violation) | 2 prospects, both sweeps | the sync sweep's save undoes `ended` |
| `pipeline` | a request in the queue, a scrape to add, one prospect, 2 workers started up to 3 times, 2 sessions with 2 calls, one edit of the queue, within `Bounded` | a job is in one place and asked for once; an end is complete and told once; but for the named causes; the refinements of JobLife and EndLife |
| `browser` | 2 callers (one the worker) with 10 uses of 9 tools, 2 tabs, 2 people, the operator | an undisturbed call reaches its person or a named exception and has done what it says; who closes which tab |
| `browser_foreign_tab` (violation) | one call at a time | a call closes an inbox the operator opened |
| `routines` | 1 routine, 2 clock steps, one edit, one kill | settings and stamps without overlapping writers; saves are whole; not too often; the file recovers |
| `routines_paused` (violation) | the same | the Configure form un-pauses a sweep |
| `quota` | 2 clients, 2 categories, cap 1, faults, one midnight, 4 actions, the worker's included | the overshoot bound and the refinement of DailyQuota |
| `backoff` | start 2 min, factor 1.3, max 240; windows 9:00-17:00 and 22:00-6:00; late by 0 or 120 min | window, bounds, growth |
| `regression` | 3 runs, 2 stoppers | sound until stopped, always watched, a stop frees the slot |

Why the bounds suffice. Two prospects are the least that tell "my row" from "the rest of the file",
and the interactions are between copies of a file, not among prospects; with all writers on, one
prospect already has every pair of writers meet, and a row of its own that is added while another
writer holds a copy. Delays up to two units give a backoff that is due,
about to be due and not due, and a sweep that outlasts a delay (`syncAge`). In the pipeline two jobs
give a queue with a rest, and both kinds of handler; two sessions with two calls race each other and
the worker, and end, reopen or meet; a second start shows what a kill left behind, two workers meet on
each file, and a third start follows after both. The constraint `Bounded` keeps the whole small: either
one worker is started, with every call and edit, or at most three things happen among starts, edits and
calls (two workers and a call or an edit between them, or one that is started three times). Left out are
two workers beside two calls and an edit; the proofs have no such bound. Two tabs are one to work in and
one to be switched to, and the two people are a target and somebody else, who is suggested beside it and
may be the thread a search opens.
One routine has all of its writers: the scheduler's stamp, the form, the click and the hand; two clock
steps make it due once more. Two clients and a cap of one reach the cap, the overshoot and a death on
each step; one midnight separates yesterday's file from today's. The backoff run covers every interval
from 2 to 240 minutes its policy reaches, both window shapes and late visits; six starting minutes
stand for the rest of the day. Three runs are needed for a stale writer to let a third in beside a
second. The proofs remove these bounds for what they cover.

Symmetry is used for the tabs of the browser and for the workers and the sessions of the pipeline, which
the models never tell apart; both runs check safety only.

Deadlock is checked except where the system really may stop: the regression slot (the bound on runs is
used up, or an uncaught spawn error left it at "starting"), the pipeline (the workers are off, their
starts and the calls are used up) and the routines (clock, edits and kills used up with the cron
process down; ticks alone keep the others going).

### Fairness

`OutreachSweeps!Fairness`: the event loop runs every ready task, the scheduler starts a sweep again on
every tick (`scheduler_loop`), probes and `claude -p` answer or time out. Two parts are assumptions on
the environment rather than on the code, and are named in the module: a given due row is not starved
by the daily cap for ever (the loop breaks at the cap and starts at the top of the file again), and
an accepted invitation (`Accepting`) is not answered with errors and misread pages alone. No fairness
is assumed of sessions or of LinkedIn. `Routines!Fairness`: a process that is in a call goes on with its
file operations, and the scheduler ticks as long as its process runs; nothing is assumed of the operator,
of claude runs or of a restart. `RegressionRunner!FairSpec`: a `stop()` call goes on to its end; nothing is assumed of
pytest or of the readers. `RoutineBackoff!FairSpec`: an active routine keeps visiting the row.
`Pipeline` and `SharedBrowser` state safety only: nothing in the code makes an operator restart the
worker or a page load.

### Findings

1. *Lost update* (`sweeps_lost_update`): `run_sync_sweep` saves the copy it loaded before its probes.
   Load, probe A; meanwhile the planner ends B; the sweep saves, B is connected again, and is
   dispatched again. The plan sweep re-reads "so terminal status sticks"; the sync sweep does not.
2. *Foreign tab* (`browser_foreign_tab`): a call that opened a tab of its own and then works in the
   inbox is switched to an inbox found in any tab, and closes that one when it ends; its own stays
   behind. "We never close a tab we didn't open" does not hold; what holds is `ClosesItsOwnTab`.
3. *Un-paused sweep* (`routines_paused`): saving the Configure form writes the rows and nothing else;
   the next load fills in defaults in which both sweeps are active and the mode is per prospect.

Three more sentences of the docs do not hold as they stand, and are met by the properties that do:

- "No run exceeds the configured totals" (design of the per-connection routines, line 369): the check
  and the record are two locked sections with the action in between, so two callers may both pass;
  `OvershootBounded` says by how much.
- "For a prospect that has been pending for two days" the next check is at least 24 hours off (line
  367): the default curve gets there after about two and a half days; `BacksOffToMax` and
  `NeverShortens` are what holds.
- "only one run can be active at a time" (`regression_runner.py:46`): `stop()` and the readers write
  into the state object of the moment, not into that of their run, so after a stop a stale one frees
  the slot of a live run; hence `SoundUntilStopped`.

Besides, `is_logged_in` answers True whatever the browser shows (`browser.py:601`), unlike its
docstring; the models therefore have no step that refuses a call for want of a login.

## 4. Proofs

| module | theorem | what it says |
|---|---|---|
| OutreachSweeps_proofs | `TypeCorrect` | `TypeOK` of every copy of the file |
| | `CopiesStaySound`, `NoInventedConnection`, `NoEarlyPlanner` | the inductive invariant, and from it `ConnectedOnlyIfAnswered` and `PlannedOnlyIfAnswered` |
| SweepSaves_proofs | `CopiesKeepRows`, `RowsStay` | every copy has the file's rows but those added since; `NoRowVanishes`, beside every writer |
| | `PlanSweepHasTheFile`, `PlanSaveKeepsStatus` | without the operator's session and a crash: the plan sweep saves the statuses it finds; `PlanKeepsStatus` |
| | `PlanSweepAlone`, `NoRunBeforeDelay` | nor the sync sweep: `BackoffHonoured` |
| Pipeline_proofs | `PipelineInvariant`, `PipelineTypeCorrect` | the inductive invariant; `TypeOK` |
| | `EveryJobAccounted`, `EveryJobOnce` | `JobsAccounted`, `DoneOnce` |
| | `EndsComplete`, `EndsToldOnce` | `EndIsComplete`, `ToldOnce` |
| | `QueueKeepsItsPromise`, `EndKeepsItsPromise` | the refinements `ImplementsJobLife`, `ImplementsEndLife` |
| SharedBrowser_proofs | `TypeCorrect` | `TypeOK` |
| | `HitsTarget`, `AnswerTrue`, `ClosesOwn` | `UndisturbedHitsTarget`, `UndisturbedAnswerTrue`, `ClosesItsOwnTab` |
| Routines_proofs | `RoutinesInvariant`, `RoutinesTypeCorrect` | the inductive invariant; `TypeOK` |
| | `RowsAreAsked`, `StampsAreTrue` | `RowsAsAsked`, `StampTrue` |
| | `SavesAreWhole`, `StartsAreRested` | the action properties `SavesWhole` and `NotTooOften` |
| RateLimits_proofs | `QuotaTypeCorrect`, `OvershootIsBounded` | `TypeOK`, `OvershootBounded` |
| | `FileIsASharedCounter` | the refinement `ImplementsQuota` |
| RoutineBackoff_proofs | `RecordTypeCorrect`, `ScheduledInWindow`, `WaitIsBounded`, `BackoffNeverShortens` | `TypeOK`, `NextInWindow`, `WaitBounded`, `NeverShortens` |
| RegressionRunner_proofs | `SlotTypeCorrect`, `SlotIsWatched`, `SlotIsSound` | `TypeOK`, `RunningIsWatched`, `SoundUntilStopped` |

They hold for every value of the constants under the assumptions named in the modules (finitely many
clients, a natural cap, a valid window, and so on), for any number of prospects, clients, runs, tabs,
jobs, workers and sessions.

*Sweeps.* That the file is sound is not inductive: the file is overwritten with copies. The invariant
says that *every* copy is sound (the file, the sweep's snapshot, the loaded list, the row and the
file about to be written, each session's edit), and that every prospect a planner is working on, or
is about to, was called connected. `answered` only grows, so a stale copy stays sound; that is why lost
updates cannot invent a connection although they can undo an ending.

*Saves of the sweeps.* `VInv` says that a copy some writer is going to write has every row of the file
but those in `unseen`, so that no save takes another row away; it holds with every writer and every
crash. The other theorems have a condition on the switches, no more than their run sets, and each switch
is one kind of harm: the operator's session adds rows and writes beside the sweep's save; after a crash a
second run does; the sync sweep is finding 1. `RowsInv` says that without the operator whoever is visited
has a row. `KInv` adds, without a crash, that from its re-read to its save the plan sweep is alone with
the file: the sync sweep would need the event loop, and its own session is over; so the row it finds is
the row it saves. `SInv` adds, without the sync sweep, that nobody still to be visited is owed a delay,
since a run only writes its own prospect's row, and that the backoff in the file or in the copy about to
be saved is at least the one owed.

*Pipeline.* The queue's half says where each job is that nothing has hit (`Place`: in one file, or in
the hands of exactly one worker), and what the browser was asked and said of it, by the place of that
worker in its loop (`Progress`). Of the copies it says (`Hands`) that a worker which writes a file is
alone with it, and all that changed in the file since it was read is hit, or that everything at stake in
its write is; this is what carries the argument through two workers whose reads and writes interleave.
The conversation's half cannot speak of the files alone, since a worker truncates a file and writes it
again: it speaks of the stage a file holds *or is about to hold again* (`ConvOf`, `ProspectOf`). Of those
stages it says that at most one call per person is going to tell the operator (`OneTells`), and that the
call that saw the end first has done, or is yet to do, each of the other steps (`RestDone`); and of a
file with no fault `"again"` that one worker at most is writing it (`Truncated`). A step that breaks this
is one that sets `hit` or `fault`.

The refinement of JobLife is proved from the same invariant: `Place` and `Progress` fix the value of
`Life` for each job in a worker's hands or in a file, so that every action of a worker moves the one
job it holds along one step of JobLife and no other job; an edit moves the jobs it asked for, and the
ones it led astray are exactly those it puts into `hit`; the steps of the conversations stutter.
EndLife follows from the other half: `OneTells` and `RestDone` say that whoever marks the row finds the
conversation ended, and whoever tells finds the rest done and nobody told. A step that leaves `fault`
alone adds at most one part, the same for a file in a worker's hands as for one that is whole; the
worker's truncation and its write back change nothing of what a file is to hold.

*Browser.* The invariant ties a clean call to its tab, step by step: past `go` on a profile tool the tab
shows that profile; between typing and sending it shows the thread the call's search opened, with this
call's text alone; with a dialog open, the dialog is about the person or a suggestion. It is kept because every
step that changes a tab takes `clean` from the other calls on it. `ClosesItsOwnTab` needs only that a
call that opened a tab and was never in the inbox is still on it.

*Caps.* The invariant pairs every action of the day with its record in the file, a client that is
about to record it, or `unseen`, where the worker's actions are from the start; with the cap on the
file's counts, and at most one pending action per client, the bound follows. It rests on the lock: at
most one client is inside, and its draft agrees with what the file will show. The refinement is proved step by step from the same lock invariant.

*Backoff.* Lemmas about `Reschedule` (lands in the window, at most a closed period later), `Round` and
`NextInterval` (a factor of at least one never rounds below its argument); the invariant adds only
types.

*Regression slot.* `RunningIsWatched` is inductive with the bookkeeping of runs. `SoundUntilStopped`
needs that, before any stop, whatever is alive or still read is the run of a slot that shows
"running": so a late reader can only meet its own run.

*Routines.* As long as no two writers overlapped, the temporary file is that of the one process
between its open and its rename (`TmpIsOwn`), and no handle has moved. Then only the dashboard is ever
about to change what the rows say, so the file agrees with `wish`, or the dashboard is about to make it
(`RowsAgree`). A stamp is true in the file, or a process has yet to stamp it; the same holds of the
copy each process is about to save, unless the other process stamps after it (`StampsFresh`). The last
part is what makes a stale copy harmless: a copy from before a stamp is never saved after it without an
overlap. A routine that a tick found due stays rested, as the clock only adds to its wait
(`DueRested`). `Whole` adds that what is about to take the file's place parses, also after a kill: the temporary file
is truncated before it is written. `raced` is set by the overlap itself, not by its harm, so the theorems
say nothing of the runs in which it happens; of these only `TypeOK` and, by model checking, `Recovers`
speak.

Model-checked only: the four liveness properties (`AcceptedEventuallyNoticed`, `BacksOffToMax`,
`StopFreesSlot`, `Recovers`), since liveness under fairness is out of the prover's reach.

## 5. Not modelled, and the plan

Left out for good: message texts and prompts (`planner.py`, the skills), the layout of pages and the
fallback selectors of `browser.py`, SMTP and the mails' wording, the installer, read-only views and
logs, the persona and tone set-up, tests and their harness. In the browser also the launch mode,
`react_to_post` and the reactions inside `browse_forever`, screenshots and `download_resume`: each is
a single click or a read on a page the model already has. Of the MCP server the planner's settings, the
append-only logs, the reports and the mail about a meeting. `set_scheduler_kind` and
`upsert_per_prospect` have no caller in the program.

What is left to do, in this order:

1. an abstract specification of the regression slot, and one of the custom routines as the operator
   sees them, with their refinements;
2. the MCP server's remaining files: the planner's settings and the meeting's mail;
3. `react_to_post` and `browse_forever` as further tools of SharedBrowser;
4. the run-now click without the bound of one per routine, and the dashboard's other settings.
