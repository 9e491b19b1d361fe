-------------------------------- MODULE JobQueue --------------------------------
(***************************************************************************)
(* The queue workers: each takes the job of highest priority off           *)
(* queue/pending.json, carries it out in the browser, saves the file of    *)
(* the prospect and files the job under completed.json or failed.json.     *)
(* Nothing keeps a second worker from being started, by hand or after a    *)
(* `make stop' that returns while the old one finishes its job.  The files *)
(* are written in place (truncate, then write), while an MCP session and   *)
(* the operator replace pending.json as a whole, from a copy they read     *)
(* before.  A file is a set of jobs, or torn.                              *)
(*                                                                         *)
(* What the browser did a worker knows only from its answer.  `asked',     *)
(* `acted', `said' and `hit' are history: the jobs that should be in the   *)
(* system, how often the browser was asked to carry out each, the jobs it  *)
(* said it did, and the jobs whose entry was lost or brought back by a     *)
(* write from a stale copy, by two workers writing one file or by a killed *)
(* worker.  What a handler saves is in Pipeline.                           *)
(***************************************************************************)
EXTENDS Naturals

CONSTANTS Jobs, NoJob, Workers,
          First,     \* the jobs in the queue at the start
          Rank,      \* their priority: the lowest number first
          Contents,  \* what a handler may load of a prospect
          MaxStarts, \* bound: how often a worker is started
          MaxEdits   \* bound: how often another process changes the queue

ASSUME JobAssumption == /\ NoJob \notin Jobs /\ First \subseteq Jobs
                        /\ Rank \in [Jobs -> Nat]
ASSUME QueueBounds   == MaxStarts \in Nat /\ MaxEdits \in Nat

VARIABLES pending, completed, failed, \* the jobs in the three files
          torn,    \* the files that do not parse
          due,     \* the jobs whose run_after has passed
          worker, starts,
          edit, edits, \* a process between reading pending.json and replacing it
          asked, acted, said, hit

queueVars == <<pending, completed, failed, torn, due, worker, starts, edit, edits,
               asked, acted, said, hit>>

\* A job is in the hands of a worker there, and when it is just writing pending.json.
Working == {"load", "act", "saveOpen", "saveWrite", "record", "recordOpen", "recordWrite"}

\* rest: the copy of the file it is about to write.  copy: the prospect's file.  mine: the
\* file it has opened still has its name.
WorkerType == [pc : {"off", "poll", "popOpen", "popWrite"} \cup Working,
               job : Jobs \cup {NoJob}, rest : SUBSET Jobs, copy : Contents \cup {"none"},
               good : BOOLEAN, mine : BOOLEAN]

Off == [pc |-> "off", job |-> NoJob, rest |-> {}, copy |-> "none", good |-> FALSE,
        mine |-> FALSE]
Polling == [Off EXCEPT !.pc = "poll"]

QueueTypeOK ==
  /\ pending \in SUBSET Jobs /\ completed \in SUBSET Jobs /\ failed \in SUBSET Jobs
  /\ torn \in SUBSET {"pending", "completed", "failed"}
  /\ due \in SUBSET Jobs /\ asked \in SUBSET Jobs /\ hit \in SUBSET Jobs
  /\ acted \in [Jobs -> 0..2] /\ said \in SUBSET Jobs
  /\ worker \in [Workers -> WorkerType]
  /\ \A w \in Workers : worker[w].pc \notin {"off", "poll"} => worker[w].job \in Jobs
  /\ edit \in [busy : BOOLEAN, copy : SUBSET Jobs]
  /\ starts \in 0..MaxStarts /\ edits \in 0..MaxEdits

QueueInit ==
  /\ pending = First /\ completed = {} /\ failed = {} /\ torn = {}
  /\ due = First
  /\ worker = [w \in Workers |-> Off] /\ starts = 0
  /\ edit = [busy |-> FALSE, copy |-> {}] /\ edits = 0
  /\ asked = First /\ acted = [j \in Jobs |-> 0] /\ said = {} /\ hit = {}

Becomes(w, k) == worker' = [worker EXCEPT ![w] = k]

\* What pending.json is meant to hold, also while workers are writing it.
Writers == {w \in Workers : worker[w].pc = "popWrite" /\ worker[w].mine}
Queue   == pending \cup UNION {worker[w].rest : w \in Writers}

\* The jobs whose entry changed between S and T.
Differ(S, T) == (S \ T) \cup (T \ S)

-----------------------------------------------------------------------------
(* The operator and the other processes. *)

\* No lock and no look at worker.pid: any number of workers.
Start(w) ==
  /\ worker[w].pc = "off" /\ starts < MaxStarts
  /\ Becomes(w, Polling) /\ starts' = starts + 1
  /\ UNCHANGED <<pending, completed, failed, torn, due, edit, edits, asked, acted, said, hit>>

\* SIGTERM or SIGINT: the main loop sees the flag between two jobs.
Stop(w) ==
  /\ worker[w].pc = "poll"
  /\ Becomes(w, Off)
  /\ UNCHANGED <<pending, completed, failed, torn, due, starts, edit, edits, asked, acted, said, hit>>

BecomesDue(j) ==
  /\ j \notin due
  /\ due' = due \cup {j}
  /\ UNCHANGED <<pending, completed, failed, torn, worker, starts, edit, edits, asked, acted, said, hit>>

EditLoad ==
  /\ ~edit.busy /\ edits < MaxEdits /\ "pending" \notin torn
  /\ edit' = [busy |-> TRUE, copy |-> pending] /\ edits' = edits + 1
  /\ UNCHANGED <<pending, completed, failed, torn, due, worker, starts, asked, acted, said, hit>>

\* pending.json is replaced by S: what a worker is just writing to it goes to a file
\* without a name, and what changed since the copy was read is undone.
Replace(S) ==
  /\ edit.busy
  /\ pending' = S
  /\ torn' = torn \ {"pending"}
  /\ edit' = [busy |-> FALSE, copy |-> {}]
  /\ hit' = hit \cup Differ(edit.copy, Queue)
  /\ worker' = [w \in Workers |-> IF worker[w].pc = "popWrite" THEN [worker[w] EXCEPT !.mine = FALSE]
                                                              ELSE worker[w]]
  /\ UNCHANGED <<completed, failed, due, starts, edits, acted, said>>

\* remove_pending_queue_entry: every job of one prospect.
RemoveJobs(S) ==
  /\ edit.copy \cap S # {}
  /\ Replace(edit.copy \ S)
  /\ asked' = asked \ (edit.copy \cap S)

\* "You can add new jobs at runtime simply by editing pending.json."
AddJob(j) ==
  /\ j \notin edit.copy /\ j \notin asked \cup completed \cup failed /\ acted[j] = 0
  /\ Replace(edit.copy \cup {j})
  /\ asked' = asked \cup {j}

\* Nothing to do: the file is left as it is.
EditDrop ==
  /\ edit.busy
  /\ edit' = [busy |-> FALSE, copy |-> {}]
  /\ UNCHANGED <<pending, completed, failed, torn, due, worker, starts, edits, asked, acted, said, hit>>

-----------------------------------------------------------------------------
(* pop_next_job. *)

Ready == pending \cap due

\* Outside the try of the main loop: a file that does not parse ends the worker.
PopLoad(w) ==
  /\ worker[w].pc = "poll"
  /\ \/ "pending" \in torn /\ Becomes(w, Off)
     \/ /\ "pending" \notin torn
        /\ \E j \in Ready :
             /\ \A i \in Ready : Rank[j] <= Rank[i]
             /\ Becomes(w, [worker[w] EXCEPT !.pc = "popOpen", !.job = j, !.rest = pending \ {j}])
  /\ UNCHANGED <<pending, completed, failed, torn, due, starts, edit, edits, asked, acted, said, hit>>

\* What changed since the list was read is undone; of two workers that write it at once
\* either, or a mixture of both, may be left.
PopOpen(w) ==
  LET list == worker[w].rest \cup {worker[w].job}
  IN /\ worker[w].pc = "popOpen"
     /\ pending' = {} /\ torn' = torn \cup {"pending"}
     /\ Becomes(w, [worker[w] EXCEPT !.pc = "popWrite", !.mine = TRUE])
     /\ hit' = hit \cup IF Writers = {} THEN Differ(list, pending) ELSE list \cup Queue
     /\ UNCHANGED <<completed, failed, due, starts, edit, edits, asked, acted, said>>

Popped(w) == [worker[w] EXCEPT !.pc = "load", !.rest = {}, !.mine = FALSE]

\* Mutant: the job is not taken out of the list before it is saved.
PopWriteWithJob(w) ==
  /\ worker[w].pc = "popWrite"
  /\ IF worker[w].mine THEN /\ pending' = worker[w].rest \cup {worker[w].job}
                            /\ torn' = torn \ {"pending"}
                       ELSE UNCHANGED <<pending, torn>>
  /\ Becomes(w, Popped(w))
  /\ UNCHANGED <<completed, failed, due, starts, edit, edits, asked, acted, said, hit>>

\* When the file parses again, another worker has written it since.
PopWrite(w) ==
  /\ worker[w].pc = "popWrite"
  /\ \/ worker[w].mine /\ pending' = worker[w].rest /\ torn' = torn \ {"pending"}
     \/ worker[w].mine /\ "pending" \notin torn /\ pending' = {} /\ torn' = torn \cup {"pending"}
     \/ ~worker[w].mine /\ UNCHANGED <<pending, torn>>
  /\ Becomes(w, Popped(w))
  /\ UNCHANGED <<completed, failed, due, starts, edit, edits, asked, acted, said, hit>>

-----------------------------------------------------------------------------
(* The handlers and record_result. *)

\* The rest of the job's files is as it was.
Proceeds(w, k) ==
  /\ Becomes(w, k)
  /\ UNCHANGED <<pending, completed, failed, torn, due, starts, edit, edits, asked, hit>>

Verdict(w, good) == [worker[w] EXCEPT !.pc = "record", !.good = good, !.copy = "none"]

\* The files are read and the message is planned; a file that is missing or torn, an
\* unknown action or a planner that fails end the job.
HandlerLoad(w, readable, content) ==
  /\ worker[w].pc = "load"
  /\ UNCHANGED <<acted, said>>
  /\ \/ readable /\ Proceeds(w, [worker[w] EXCEPT !.pc = "act", !.copy = content])
     \/ Proceeds(w, Verdict(w, FALSE))

Asks(j) == acted' = [acted EXCEPT ![j] = IF @ < 2 THEN @ + 1 ELSE @]

\* Mutant: what the browser answers is not looked at.
ActUnasked(w) ==
  /\ worker[w].pc = "act"
  /\ Asks(worker[w].job)
  /\ \E ok \in BOOLEAN : said' = IF ok THEN said \cup {worker[w].job} ELSE said
  /\ Proceeds(w, [worker[w] EXCEPT !.pc = "saveOpen"])

\* The await of the browser: it says that it did, that it did not, or raises.  Whether
\* LinkedIn took the click the worker does not learn either way.
Act(w) ==
  /\ worker[w].pc = "act"
  /\ Asks(worker[w].job)
  /\ \/ said' = said \cup {worker[w].job} /\ Proceeds(w, [worker[w] EXCEPT !.pc = "saveOpen"])
     \/ said' = said /\ Proceeds(w, Verdict(w, FALSE))

\* The copy is put into shape and the file truncated; a conversation without a list of
\* messages raises here, after the browser did its part.
SaveOpen(w, shaped) ==
  /\ worker[w].pc = "saveOpen"
  /\ UNCHANGED <<acted, said>>
  /\ Proceeds(w, IF shaped THEN [worker[w] EXCEPT !.pc = "saveWrite", !.mine = TRUE]
                           ELSE Verdict(w, FALSE))

\* The screenshot after the request (a scrape takes none) is part of the handler.
SaveWrite(w, shot) ==
  /\ worker[w].pc = "saveWrite"
  /\ UNCHANGED <<acted, said>>
  /\ \E ok \in BOOLEAN : (shot \/ ok) /\ Proceeds(w, [Verdict(w, ok) EXCEPT !.mine = FALSE])

\* The file of the verdict.
Results(w) == IF worker[w].good THEN "completed" ELSE "failed"
Filed(w)   == IF worker[w].good THEN completed ELSE failed

\* record_result reads the file.  Filing a success is still inside the try: a
\* completed.json that does not parse files the job as failed.  Filing a failure is not:
\* the worker ends.
RecordLoad(w) ==
  /\ worker[w].pc = "record"
  /\ IF Results(w) \notin torn
       THEN /\ Becomes(w, [worker[w] EXCEPT !.pc = "recordOpen", !.rest = Filed(w)])
            /\ UNCHANGED hit
       ELSE IF worker[w].good
         THEN Becomes(w, Verdict(w, FALSE)) /\ UNCHANGED hit
         ELSE Becomes(w, Off) /\ hit' = hit \cup {worker[w].job}
  /\ UNCHANGED <<pending, completed, failed, torn, due, starts, edit, edits, asked, acted, said>>

\* The workers that are just writing the same file.
Beside(w) == {v \in Workers : worker[v].pc = "recordWrite" /\ worker[v].good = worker[w].good}

\* As in pop_next_job; the entries of the jobs that are just filed are at stake too.
RecordOpen(w) ==
  /\ worker[w].pc = "recordOpen"
  /\ torn' = torn \cup {Results(w)}
  /\ hit' = hit \cup IF Beside(w) = {} THEN Differ(worker[w].rest, Filed(w))
                     ELSE worker[w].rest \cup Filed(w) \cup {worker[v].job : v \in Beside(w) \cup {w}}
  /\ Becomes(w, [worker[w] EXCEPT !.pc = "recordWrite"])
  /\ UNCHANGED <<pending, completed, failed, due, starts, edit, edits, asked, acted, said>>

\* Mutant: a job that failed is put back into the queue.
RecordWriteRequeue(w) ==
  LET list == worker[w].rest \cup {worker[w].job}
  IN /\ worker[w].pc = "recordWrite"
     /\ torn' = torn \ {Results(w)}
     /\ IF worker[w].good
          THEN completed' = list /\ UNCHANGED pending
          ELSE pending' = pending \cup {worker[w].job} /\ UNCHANGED completed
     /\ Becomes(w, Polling)
     /\ UNCHANGED <<failed, due, starts, edit, edits, asked, acted, said, hit>>

RecordWrite(w) ==
  LET list == worker[w].rest \cup {worker[w].job}
  IN /\ worker[w].pc = "recordWrite"
     /\ \/ /\ torn' = torn \ {Results(w)}
           /\ completed' = IF worker[w].good THEN list ELSE completed
           /\ failed'    = IF worker[w].good THEN failed ELSE list
        \/ /\ Results(w) \notin torn /\ torn' = torn \cup {Results(w)}
           /\ UNCHANGED <<completed, failed>>
     /\ Becomes(w, Polling)
     /\ UNCHANGED <<pending, due, starts, edit, edits, asked, acted, said, hit>>

\* A worker is killed.  The job in its hands is in no file; a file it was writing is lost
\* with all its jobs.
Kill(w) ==
  LET k == worker[w]
  IN /\ k.pc # "off"
     /\ Becomes(w, Off)
     /\ hit' = hit \cup (IF k.pc \in Working \cup {"popWrite"} THEN {k.job} ELSE {})
                   \cup (IF k.pc = "popWrite" /\ k.mine THEN k.rest ELSE {})
                   \cup (IF k.pc = "recordWrite" THEN Filed(w) ELSE {})
     /\ UNCHANGED <<pending, completed, failed, torn, due, starts, edit, edits, asked, acted, said>>

\* What a worker does without the files of a prospect.
WorkerAlone(w) == \/ PopLoad(w) \/ PopOpen(w) \/ PopWrite(w) \/ Act(w)
                  \/ RecordLoad(w) \/ RecordOpen(w) \/ RecordWrite(w)

OthersAlone == \/ \E w \in Workers : Start(w) \/ Stop(w)
               \/ EditLoad \/ EditDrop
               \/ \E j \in Jobs : BecomesDue(j) \/ AddJob(j)

-----------------------------------------------------------------------------
(* Properties. *)

\* The places a job can be in: a file, the hands of a worker.
Holders(j) == {w \in Workers : /\ worker[w].job = j
                               /\ worker[w].pc \in Working \cup {"popWrite"}}
FilesOf(j) == {f \in {"pending", "completed", "failed"} :
                 CASE f = "pending"   -> j \in Queue
                   [] f = "completed" -> j \in completed
                   [] f = "failed"    -> j \in failed}
Places(j)  == {<<"file", f>> : f \in FilesOf(j)} \cup {<<"hand", w>> : w \in Holders(j)}

\* However many workers there are, a job that no stale copy, no kill and no two writers of
\* a file have hit is in exactly one place until it is removed: waiting, in the hands of
\* one worker, completed or failed.  One that was removed is nowhere.
JobsAccounted ==
  \A j \in Jobs \ hit : IF j \in asked THEN \E p \in Places(j) : Places(j) = {p}
                                       ELSE Places(j) = {}

\* However often workers are stopped, killed and started, beside each other too: of such a
\* job the browser is asked at most once, and it is filed as completed only when the
\* browser said that it had carried it out.
DoneOnce ==
  \A j \in Jobs \ hit : acted[j] <= 1 /\ (j \in completed => j \in said)
=============================================================================
