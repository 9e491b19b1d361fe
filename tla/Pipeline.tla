-------------------------------- MODULE Pipeline --------------------------------
(***************************************************************************)
(* The queue workers and the MCP sessions on the same files.  The handlers *)
(* load a prospect's conversation (for a scrape: the prospect's own file), *)
(* await the browser and write their copy back in place; meanwhile a       *)
(* session may end the conversation, put another one there, or remove the  *)
(* prospect's jobs from the queue.                                         *)
(***************************************************************************)
EXTENDS JobQueue, ConversationEnd

CONSTANTS PersonOf, \* the prospect of a job
          KindOf    \* its handler: "message" (request or follow-up) or "scrape"

ASSUME JobsOfPeople == /\ PersonOf \in [Jobs -> People]
                       /\ KindOf \in [Jobs -> {"message", "scrape"}]
                       /\ Contents = {"open", "ended", "blank"}

vars == <<queueVars, endVars>>

TypeOK == QueueTypeOK /\ EndTypeOK

Init == QueueInit /\ EndInit

Scrapes(j) == KindOf[j] = "scrape"

\* Mutant: a file that does not parse is taken for what it is.
ReadableAlways(j) == TRUE

\* The file a handler saves, and whether it can read all it loads.
Content(j)  == IF Scrapes(j) THEN prospect[PersonOf[j]] ELSE conv[PersonOf[j]]
Readable(j) == /\ prospect[PersonOf[j]] # "torn"
               /\ Scrapes(j) \/ conv[PersonOf[j]] # "torn"

Holds(j, x) ==
  IF Scrapes(j) THEN prospect' = [prospect EXCEPT ![PersonOf[j]] = x] /\ UNCHANGED conv
                ELSE conv' = [conv EXCEPT ![PersonOf[j]] = x] /\ UNCHANGED prospect

-----------------------------------------------------------------------------
(* The handler's part of a job. *)

JobLoads(w) == /\ HandlerLoad(w, Readable(worker[w].job), Content(worker[w].job))
               /\ UNCHANGED endVars

JobTears(w) ==
  LET k == worker[w]
      p == PersonOf[k.job]
  IN /\ SaveOpen(w, k.copy # "blank")
     /\ IF k.copy = "blank"
          THEN UNCHANGED endVars
          ELSE /\ Holds(k.job, "torn")
               /\ Wrong(p, When(Content(k.job) # k.copy, "again"))
               /\ UNCHANGED <<row, session, calls, told>>

\* A file that was replaced meanwhile keeps what it was replaced with.  One that parses
\* again was written by another worker since: it may hold either copy then, or a mixture.
JobSaves(w) ==
  LET k == worker[w]
  IN /\ SaveWrite(w, ~Scrapes(k.job))
     /\ \/ k.mine /\ Holds(k.job, k.copy)
        \/ k.mine /\ Content(k.job) # "torn" /\ Holds(k.job, "torn")
        \/ ~(k.mine /\ Content(k.job) = "torn") /\ UNCHANGED <<conv, prospect>>
     /\ UNCHANGED <<row, session, calls, told, fault>>

Killed(w) ==
  /\ Kill(w)
  /\ IF worker[w].pc = "saveWrite" THEN Wrong(PersonOf[worker[w].job], {"short"})
                                   ELSE UNCHANGED fault
  /\ UNCHANGED <<conv, prospect, row, session, calls, told>>

-----------------------------------------------------------------------------
(* The sessions' part. *)

\* A session that replaces the file a worker has truncated cuts the worker off from it.
CutOff(w) == /\ worker[w].pc = "saveWrite"
             /\ LET p == PersonOf[worker[w].job]
                IN IF Scrapes(worker[w].job) THEN prospect'[p] # prospect[p] ELSE conv'[p] # conv[p]

SessionStep(s) ==
  /\ ReplacesConv(s) \/ ReplacesProspect(s) \/ ReplacesNeither(s)
  /\ worker' = [w \in Workers |-> IF CutOff(w) THEN [worker[w] EXCEPT !.mine = FALSE] ELSE worker[w]]
  /\ UNCHANGED <<pending, completed, failed, torn, due, starts, edit, edits, asked, acted, said, hit>>

RemovePendingEntry(p) == RemoveJobs({j \in Jobs : PersonOf[j] = p}) /\ UNCHANGED endVars

WorkerStep(w) == \/ WorkerAlone(w) /\ UNCHANGED endVars
                 \/ JobLoads(w) \/ JobTears(w) \/ JobSaves(w)

Next == \/ \E w \in Workers : WorkerStep(w) \/ Killed(w)
        \/ OthersAlone /\ UNCHANGED endVars
        \/ \E p \in People : RemovePendingEntry(p)
        \/ \E s \in Sessions : SessionStep(s)

Spec == Init /\ [][Next]_vars

-----------------------------------------------------------------------------
(* Properties. *)

Saving(p) == \E w \in Workers : worker[w].pc = "saveWrite" /\ PersonOf[worker[w].job] = p

\* When nothing has gone wrong and nobody is at it, a conversation that has ended has an
\* ended row and an ended prospect, and the operator was told exactly once; and of one
\* that has not ended nobody was told.
EndIsComplete ==
  \A p \in People : (Quiet(p) /\ ~Saving(p) /\ fault[p] = {}) =>
    IF conv[p] = "ended" THEN row[p] = "ended" /\ prospect[p] = "ended" /\ told[p] = 1
                         ELSE row[p] # "ended" /\ told[p] = 0

\* The operator is told twice of one end only when the conversation was reopened, two
\* calls raced, or its file could not be read or was written from a stale copy.
ToldOnce ==
  \A p \in People : told[p] > 1 => "again" \in fault[p]

-----------------------------------------------------------------------------
(* The abstract specification of the queue (JobLife). *)

\* The point of its life a job has come to: where it is, and what the browser said of it.
Life(j) ==
  IF j \in hit THEN "astray"
  ELSE IF j \notin asked THEN IF Places(j) = {} THEN "out" ELSE "back"
  ELSE IF Places(j) = {<<"file", "pending">>}   THEN "waiting"
  ELSE IF Places(j) = {<<"file", "completed">>} THEN "completed"
  ELSE IF Places(j) = {<<"file", "failed">>}    THEN "failed"
  ELSE IF ~\E w \in Workers : Places(j) = {<<"hand", w>>} THEN "lost"
  ELSE IF acted[j] = 0 THEN "taken"
  ELSE IF acted[j] > 1 THEN "repeated"
  ELSE IF j \in said THEN "done" ELSE "refused"

Promise == INSTANCE JobLife WITH life <- [j \in Jobs |-> Life(j)]

\* Three files written in place, workers that are stopped, killed and started beside each
\* other, and processes that replace the queue amount to one life per job: it goes
\* forward only, through the hands of one worker, and ends completed or failed.
ImplementsJobLife == Promise!Spec

-----------------------------------------------------------------------------
(* The abstract specification of the end of a conversation (EndLife). *)

\* The workers that have truncated the file of p's conversation, or of the prospect, and are
\* going to write it.
ConvSavers(p) == {w \in Workers :
  /\ worker[w].pc = "saveWrite" /\ worker[w].mine
  /\ ~Scrapes(worker[w].job) /\ PersonOf[worker[w].job] = p}
ProspectSavers(p) == {w \in Workers :
  /\ worker[w].pc = "saveWrite" /\ worker[w].mine
  /\ Scrapes(worker[w].job) /\ PersonOf[worker[w].job] = p}

\* What a file holds, or is about to hold again when W are writing it (of two that do,
\* whichever: the second has recorded a fault).
Due(W, now)   == IF W = {} THEN now ELSE worker[CHOOSE w \in W : TRUE].copy
ConvOf(p)     == Due(ConvSavers(p), conv[p])
ProspectOf(p) == Due(ProspectSavers(p), prospect[p])

DoneOf(p) ==
  IF fault[p] # {} THEN {}
  ELSE {part \in {"conversation", "row", "prospect", "mail", "second mail"} :
          \/ part = "conversation" /\ ConvOf(p) = "ended"
          \/ part = "row"          /\ row[p] = "ended"
          \/ part = "prospect"     /\ ProspectOf(p) = "ended"
          \/ part = "mail"         /\ told[p] > 0
          \/ part = "second mail"  /\ told[p] > 1}

End == INSTANCE EndLife WITH done   <- [p \in People |-> DoneOf(p)],
                             astray <- {p \in People : fault[p] # {}}

\* Tool calls that interleave at every file, and handlers that write back what they have
\* loaded, amount to one end per person: part by part, each once, the mail last, and a
\* fault of one person's end leaves the others alone.
ImplementsEndLife == End!Spec
=============================================================================
