---------------------------- MODULE Pipeline_proofs ----------------------------
(***************************************************************************)
(* Proofs about Pipeline for any number of jobs, workers, prospects and    *)
(* sessions: the queue loses no job and repeats none, an end is complete   *)
(* and told once, but for the causes the history variables name; the       *)
(* queue, the workers and everyone who edits its files implement JobLife;  *)
(* the calls and the handlers on a prospect's files implement EndLife.     *)
(***************************************************************************)
EXTENDS Pipeline, TLAPS

(* The queue. *)

Held(w, j) == worker[w].job = j /\ worker[w].pc \in Working \cup {"popWrite"}
InHand(j)  == \E w \in Workers : Held(w, j)

\* Where a job that nothing has hit may be ...
Place(j) ==
  /\ IF j \in asked
       THEN /\ j \in Queue \/ InHand(j) \/ j \in completed \/ j \in failed
            /\ j \in Queue => ~InHand(j) /\ j \notin completed /\ j \notin failed
            /\ InHand(j) => j \notin completed /\ j \notin failed
            /\ j \in completed => j \notin failed
       ELSE j \notin Queue /\ ~InHand(j) /\ j \notin completed /\ j \notin failed
  /\ \A v, w \in Workers : Held(v, j) /\ Held(w, j) => v = w

\* ... and what the browser was asked and said of it by then.
Stage(w, j) ==
  /\ worker[w].pc \in {"popWrite", "load", "act"} => acted[j] = 0
  /\ worker[w].pc \in {"saveOpen", "saveWrite"} => acted[j] = 1 /\ j \in said
  /\ worker[w].pc \in {"record", "recordOpen", "recordWrite"} /\ worker[w].good =>
       acted[j] = 1 /\ j \in said

Progress(j) ==
  /\ acted[j] <= 1
  /\ acted[j] = 0 => j \notin said
  /\ j \in Queue => acted[j] = 0
  /\ j \in completed => j \in said
  /\ \A w \in Workers : Held(w, j) => Stage(w, j)

\* A worker's own copies.
CopyOK(w) ==
  /\ worker[w].pc = "popOpen" => worker[w].job \notin worker[w].rest
  /\ worker[w].pc \in {"act", "saveOpen"} => worker[w].copy \in Contents
  /\ worker[w].pc = "saveWrite" => worker[w].copy \in Stages

\* Who writes pending.json is alone with it, or all he writes is hit.
PopOK(w) ==
  w \in Writers =>
    /\ worker[w].job \notin worker[w].rest /\ pending \subseteq hit
    /\ ("pending" \in torn /\ Writers = {w}) \/ worker[w].rest \subseteq hit

\* The same of the file of the results: what changed in it since it was read is hit.
FileOK(w) ==
  worker[w].pc = "recordWrite" =>
    \/ /\ Results(w) \in torn /\ Beside(w) = {w}
       /\ Differ(worker[w].rest, Filed(w)) \subseteq hit
    \/ worker[w].rest \cup Filed(w) \cup {worker[w].job} \subseteq hit

Hands == \A w \in Workers : CopyOK(w) /\ PopOK(w) /\ FileOK(w)

QueueInv == QueueTypeOK /\ Hands /\ \A j \in Jobs \ hit : Place(j) /\ Progress(j)

(* The conversations. *)

\* A file a worker is writing is torn and nobody else is writing it, or a fault is recorded.
Truncated == \A p \in People : "again" \notin fault[p] =>
  /\ \A w \in ConvSavers(p) : conv[p] = "torn" /\ ConvSavers(p) = {w}
  /\ \A w \in ProspectSavers(p) : prospect[p] = "torn" /\ ProspectSavers(p) = {w}

\* A call that is ending p's conversation, and one that will tell.
Ends(k, p)  == k.who = p /\ k.pc \in {"mark", "sync", "tell"}
Tells(k, p) == Ends(k, p) /\ k.prior # "ended"

Priors == \A s \in Sessions : /\ session[s].pc = "tell" => session[s].prior # "ended"
                              /\ session[s].pc = "meet" => session[s].prior # "torn"

\* At most one call tells, once.
OneTells(p) ==
  "again" \notin fault[p] =>
    /\ told[p] <= 1
    /\ ConvOf(p) = "open" => told[p] = 0 /\ \A s \in Sessions : ~Ends(session[s], p)
    /\ \A s, t \in Sessions : Tells(session[s], p) /\ Tells(session[t], p) => s = t
    /\ told[p] = 1 => \A s \in Sessions : ~Tells(session[s], p)

\* The one that tells has done, or will do, the rest.
RestDone(p) ==
  fault[p] = {} =>
    /\ ConvOf(p) \in Stages
    /\ ConvOf(p) = "open" => row[p] = "open"
    /\ ConvOf(p) = "ended" => told[p] = 1 \/ \E s \in Sessions : Tells(session[s], p)
    /\ told[p] = 1 => row[p] = "ended" /\ ProspectOf(p) = "ended"
    /\ \A s \in Sessions : Tells(session[s], p) =>
         /\ session[s].pc # "mark" => row[p] = "ended"
         /\ session[s].pc = "tell" => ProspectOf(p) = "ended"

EndInv == /\ EndTypeOK /\ Truncated /\ Priors
          /\ \A p \in People : OneTells(p) /\ RestDone(p)

IInv == QueueInv /\ EndInv

-----------------------------------------------------------------------------
(* The queue: how a worker's step leaves the rest. *)

\* Worker w has become k and the others are as they were.
Moved(w, k) ==
  /\ worker' \in [Workers -> WorkerType] /\ worker'[w] = k
  /\ \A v \in Workers \ {w} : worker'[v] = worker[v]
  /\ \A v \in Workers : worker'[v].pc \notin {"off", "poll"} => worker'[v].job \in Jobs

Writing(k) == k.pc = "popWrite" /\ k.mine

LEMMA WorkerFields ==
  ASSUME QueueTypeOK, NEW w \in Workers
  PROVE  worker[w] \in WorkerType /\ (worker[w].pc \notin {"off", "poll"} => worker[w].job \in Jobs)
BY DEF QueueTypeOK

LEMMA Moves ==
  ASSUME QueueTypeOK, NEW w \in Workers, NEW k \in WorkerType, Becomes(w, k),
         k.pc \notin {"off", "poll"} => k.job \in Jobs
  PROVE  Moved(w, k)
<1>1. worker \in [Workers -> WorkerType] /\ worker' = [worker EXCEPT ![w] = k]
  BY DEF QueueTypeOK, Becomes
<1>2. /\ worker' \in [Workers -> WorkerType] /\ worker'[w] = k
      /\ \A v \in Workers \ {w} : worker'[v] = worker[v]
  BY <1>1
<1>3. \A v \in Workers : worker'[v].pc \notin {"off", "poll"} => worker'[v].job \in Jobs
  BY <1>2 DEF QueueTypeOK
<1>4. QED
  BY <1>2, <1>3 DEF Moved

LEMMA QueueKept ==
  ASSUME NEW w \in Workers, NEW k, Moved(w, k), pending' = pending, w \notin Writers, ~Writing(k)
  PROVE  Queue' = Queue /\ Writers' = Writers
<1>1. \A v \in Workers \ {w} : worker'[v] = worker[v]
  BY DEF Moved
<1>2. Writers' = Writers
  BY <1>1 DEF Moved, Writers, Writing
<1>3. \A v \in Writers : worker'[v].rest = worker[v].rest
  BY <1>1 DEF Writers
<1>4. Queue' = Queue
  BY <1>2, <1>3 DEF Queue
<1>5. QED
  BY <1>2, <1>4

LEMMA PopKept ==
  ASSUME Hands, NEW w \in Workers, NEW k, Moved(w, k), ~Writing(k), pending' = pending,
         "pending" \in torn => "pending" \in torn', hit \subseteq hit'
  PROVE  \A v \in Workers : PopOK(v)'
<1>1. ASSUME NEW v \in Workers, v \in Writers' PROVE PopOK(v)'
  <2>1. v # w /\ worker'[v] = worker[v]
    BY <1>1 DEF Moved, Writers, Writing
  <2>2. v \in Writers /\ PopOK(v)
    BY <1>1, <2>1 DEF Writers, Hands
  <2>3. Writers' \subseteq Writers
    BY DEF Moved, Writers, Writing
  <2>4. Writers = {v} => Writers' = {v}
    BY <1>1, <2>3
  <2>5. QED
    BY <2>1, <2>2, <2>4 DEF PopOK
<1>2. QED
  BY <1>1 DEF PopOK

LEMMA FileKept ==
  ASSUME Hands, NEW w \in Workers, NEW k, Moved(w, k), k.pc # "recordWrite",
         UNCHANGED <<completed, failed>>, \A f \in {"completed", "failed"} : f \in torn => f \in torn',
         hit \subseteq hit'
  PROVE  \A v \in Workers : FileOK(v)'
<1>1. ASSUME NEW v \in Workers, worker'[v].pc = "recordWrite" PROVE FileOK(v)'
  <2>1. v # w /\ worker'[v] = worker[v]
    BY <1>1 DEF Moved
  <2>2. worker[v].pc = "recordWrite" /\ FileOK(v)
    BY <1>1, <2>1 DEF Hands
  <2>3. Filed(v)' = Filed(v) /\ Results(v)' = Results(v) /\ Results(v) \in {"completed", "failed"}
    BY <2>1 DEF Filed, Results
  <2>4. Beside(v)' \subseteq Beside(v) /\ v \in Beside(v)'
    BY <1>1, <2>1 DEF Moved, Beside
  <2>5. Beside(v) = {v} => Beside(v)' = {v}
    BY <2>4
  <2>6. QED
    BY <2>1, <2>2, <2>3, <2>5 DEF FileOK
<1>2. QED
  BY <1>1 DEF FileOK

LEMMA HandsStep ==
  ASSUME Hands, NEW w \in Workers, NEW k, Moved(w, k), CopyOK(w)',
         \A v \in Workers : PopOK(v)', \A v \in Workers : FileOK(v)'
  PROVE  Hands'
<1>1. ASSUME NEW v \in Workers PROVE CopyOK(v)'
  <2>1. CASE v = w
    BY <2>1
  <2>2. CASE v # w
    <3>1. worker'[v] = worker[v] /\ CopyOK(v)
      BY <2>2 DEF Moved, Hands
    <3>2. QED
      BY <3>1 DEF CopyOK
  <2>3. QED
    BY <2>1, <2>2
<1>2. QED
  BY <1>1 DEF Hands

\* The job keeps its place but for its holder's progress.
LEMMA JobKept ==
  ASSUME NEW w \in Workers, NEW k, Moved(w, k), NEW j \in Jobs, Place(j), Progress(j),
         asked' = asked, j \in Queue' <=> j \in Queue,
         j \in completed' <=> j \in completed, j \in failed' <=> j \in failed,
         Held(w, j)' <=> Held(w, j),
         ~Held(w, j) => acted'[j] = acted[j] /\ (j \in said' <=> j \in said),
         Held(w, j) => Stage(w, j)' /\ acted'[j] <= 1 /\ (acted'[j] = 0 => j \notin said')
  PROVE  Place(j)' /\ Progress(j)'
<1>1. \A v \in Workers \ {w} : worker'[v] = worker[v] /\ (Held(v, j)' <=> Held(v, j))
  BY DEF Moved, Held
<1>2. \A v \in Workers : Held(v, j)' <=> Held(v, j)
  BY <1>1
<1>3. InHand(j)' <=> InHand(j)
  BY <1>2 DEF InHand
<1>4. Place(j)'
  BY <1>2, <1>3 DEF Place
<1>5. CASE Held(w, j)
  <2>1. j \notin Queue /\ j \notin completed /\ \A v \in Workers \ {w} : ~Held(v, j)
    BY <1>5 DEF Place, InHand
  <2>2. ASSUME NEW v \in Workers, Held(v, j)' PROVE Stage(v, j)'
    BY <1>1, <1>5, <2>1, <2>2
  <2>3. QED
    BY <1>4, <1>5, <2>1, <2>2 DEF Progress
<1>6. CASE ~Held(w, j)
  <2>1. ASSUME NEW v \in Workers, Held(v, j)' PROVE Stage(v, j)'
    <3>1. v # w /\ worker'[v] = worker[v] /\ Held(v, j)
      BY <1>1, <1>6, <2>1
    <3>2. Stage(v, j)
      BY <3>1 DEF Progress
    <3>3. QED
      BY <1>6, <3>1, <3>2 DEF Stage
  <2>2. QED
    BY <1>4, <1>6, <2>1 DEF Progress
<1>7. QED
  BY <1>5, <1>6

\* A step that writes no file of the queue.
LEMMA PlainStep ==
  ASSUME QueueInv, NEW w \in Workers, NEW k \in WorkerType, Becomes(w, k),
         k.pc \notin {"off", "poll"} => k.job \in Jobs,
         UNCHANGED <<pending, completed, failed, torn, due, edit, edits, asked>>,
         starts' \in 0..MaxStarts, hit' \in SUBSET Jobs, hit \subseteq hit',
         acted' \in [Jobs -> 0..2], said' \in SUBSET Jobs,
         w \notin Writers, ~Writing(k), k.pc # "recordWrite", CopyOK(w)',
         \A j \in Jobs \ hit' :
           /\ Held(w, j)' <=> Held(w, j)
           /\ ~Held(w, j) => acted'[j] = acted[j] /\ (j \in said' <=> j \in said)
           /\ Held(w, j) => Stage(w, j)' /\ acted'[j] <= 1 /\ (acted'[j] = 0 => j \notin said')
  PROVE  QueueInv'
<1>1. Moved(w, k) /\ QueueTypeOK /\ Hands
  BY Moves DEF QueueInv
<1>2. QueueTypeOK'
  BY <1>1 DEF QueueTypeOK, Moved
<1>3. Queue' = Queue
  BY <1>1, QueueKept
<1>4. Hands'
  <2>1. \A v \in Workers : PopOK(v)'
    BY <1>1, PopKept
  <2>2. \A v \in Workers : FileOK(v)'
    BY <1>1, FileKept
  <2>3. QED
    BY <1>1, <2>1, <2>2, HandsStep
<1>5. ASSUME NEW j \in Jobs \ hit' PROVE Place(j)' /\ Progress(j)'
  <2>1. Place(j) /\ Progress(j)
    BY DEF QueueInv
  <2>2. QED
    BY <1>1, <1>3, <2>1, JobKept
<1>6. QED
  BY <1>2, <1>4, <1>5 DEF QueueInv

-----------------------------------------------------------------------------
(* The queue: the operator, and what leaves the workers alone. *)

LEMMA PollingType == /\ Off \in WorkerType /\ Off.pc = "off"
                     /\ Polling \in WorkerType /\ Polling.pc = "poll"
BY DEF Off, Polling, WorkerType

\* Nobody who has nothing in hand gets a job by going to k.
LEMMA HandlessStep ==
  ASSUME QueueInv, NEW w \in Workers, NEW k \in WorkerType, Becomes(w, k),
         k.pc \notin {"off", "poll"} => k.job \in Jobs,
         UNCHANGED <<pending, completed, failed, torn, due, edit, edits, asked, acted, said, hit>>,
         starts' \in 0..MaxStarts,
         worker[w].pc \in {"off", "poll"}, k.pc \in {"off", "poll", "popOpen"},
         k.pc = "popOpen" => k.job \notin k.rest
  PROVE  QueueInv'
<1>1. Moved(w, k) /\ QueueTypeOK
  BY Moves DEF QueueInv
<1>2. CopyOK(w)'
  BY <1>1 DEF Moved, CopyOK
<1>3. w \notin Writers /\ ~Writing(k) /\ k.pc # "recordWrite"
  BY DEF Writers, Writing
<1>4. ASSUME NEW j \in Jobs PROVE ~Held(w, j) /\ ~Held(w, j)'
  BY <1>1 DEF Moved, Held, Working
<1>5. hit' \in SUBSET Jobs /\ acted' \in [Jobs -> 0..2] /\ said' \in SUBSET Jobs
  BY <1>1 DEF QueueTypeOK
<1>6. QED
  BY <1>2, <1>3, <1>4, <1>5, PlainStep

LEMMA StartStep ==
  ASSUME QueueInv, NEW w \in Workers, Start(w) PROVE QueueInv'
<1>1. starts' \in 0..MaxStarts
  BY QueueBounds DEF Start, QueueInv, QueueTypeOK
<1>2. QED
  BY <1>1, PollingType, HandlessStep DEF Start

LEMMA StopStep ==
  ASSUME QueueInv, NEW w \in Workers, Stop(w) PROVE QueueInv'
<1>1. starts' \in 0..MaxStarts
  BY DEF Stop, QueueInv, QueueTypeOK
<1>2. QED
  BY <1>1, PollingType, HandlessStep DEF Stop

LEMMA PopLoadStep ==
  ASSUME QueueInv, NEW w \in Workers, PopLoad(w) PROVE QueueInv'
<1>1. starts' \in 0..MaxStarts /\ worker[w] \in WorkerType /\ worker[w].pc = "poll"
  BY DEF PopLoad, QueueInv, QueueTypeOK
<1>2. CASE Becomes(w, Off)
  BY <1>1, <1>2, PollingType, HandlessStep DEF PopLoad
<1>3. ASSUME NEW j \in Ready,
             Becomes(w, [worker[w] EXCEPT !.pc = "popOpen", !.job = j, !.rest = pending \ {j}])
      PROVE  QueueInv'
  <2>1. j \in Jobs /\ pending \ {j} \in SUBSET Jobs
    BY DEF Ready, QueueInv, QueueTypeOK
  <2>2. PICK k \in WorkerType : Becomes(w, k) /\ k.pc = "popOpen" /\ k.job = j /\ k.rest = pending \ {j}
    <3> DEFINE m == [worker[w] EXCEPT !.pc = "popOpen", !.job = j, !.rest = pending \ {j}]
    <3>1. m \in WorkerType /\ m.pc = "popOpen" /\ m.job = j /\ m.rest = pending \ {j}
      BY <1>1, <2>1 DEF WorkerType
    <3>2. QED
      BY <1>3, <3>1
  <2>3. QED
    BY <1>1, <2>1, <2>2, HandlessStep DEF PopLoad
<1>4. QED
  BY <1>2, <1>3 DEF PopLoad

\* No worker moves and no file changes.
LEMMA StillStep ==
  ASSUME QueueInv, QueueTypeOK',
         UNCHANGED <<pending, completed, failed, torn, worker, asked, acted, said, hit>>
  PROVE  QueueInv'
<1>1. Queue' = Queue /\ Writers' = Writers
  BY DEF Queue, Writers
<1>2. Hands'
  BY <1>1 DEF QueueInv, Hands, CopyOK, PopOK, FileOK, Results, Filed, Beside
<1>3. \A j \in Jobs : Place(j)' <=> Place(j)
  BY <1>1 DEF Place, InHand, Held
<1>4. \A j \in Jobs : Progress(j)' <=> Progress(j)
  BY <1>1 DEF Progress, Stage, Held
<1>5. QED
  BY <1>2, <1>3, <1>4 DEF QueueInv

LEMMA BecomesDueStep ==
  ASSUME QueueInv, NEW i \in Jobs, BecomesDue(i) PROVE QueueInv'
<1>1. QueueTypeOK'
  BY DEF BecomesDue, QueueInv, QueueTypeOK
<1>2. QED
  BY <1>1, StillStep DEF BecomesDue

LEMMA EditLoadStep ==
  ASSUME QueueInv, EditLoad PROVE QueueInv'
<1>1. edit' \in [busy : BOOLEAN, copy : SUBSET Jobs] /\ edits' \in 0..MaxEdits
  BY QueueBounds DEF EditLoad, QueueInv, QueueTypeOK
<1>2. QueueTypeOK'
  BY <1>1 DEF EditLoad, QueueInv, QueueTypeOK
<1>3. QED
  BY <1>2, StillStep DEF EditLoad

LEMMA EditDropStep ==
  ASSUME QueueInv, EditDrop PROVE QueueInv'
<1>1. edit' \in [busy : BOOLEAN, copy : SUBSET Jobs]
  BY DEF EditDrop
<1>2. QueueTypeOK'
  BY <1>1 DEF EditDrop, QueueInv, QueueTypeOK
<1>3. QED
  BY <1>2, StillStep DEF EditDrop

-----------------------------------------------------------------------------
(* The queue: who replaces pending.json, and who cuts a worker off from another file. *)

\* The workers are as they were but for whose file still has its name.
Alike == /\ worker' \in [Workers -> WorkerType]
         /\ \A w \in Workers : /\ worker'[w].pc = worker[w].pc     /\ worker'[w].job = worker[w].job
                               /\ worker'[w].rest = worker[w].rest /\ worker'[w].copy = worker[w].copy
                               /\ worker'[w].good = worker[w].good

LEMMA AlikeHands ==
  ASSUME Hands, Alike, UNCHANGED <<completed, failed>>, hit \subseteq hit',
         \A f \in {"completed", "failed"} : f \in torn => f \in torn',
         \A w \in Workers : PopOK(w)'
  PROVE  Hands'
<1>1. ASSUME NEW w \in Workers PROVE CopyOK(w)' /\ FileOK(w)'
  <2>1. /\ worker'[w].pc = worker[w].pc     /\ worker'[w].job = worker[w].job
        /\ worker'[w].rest = worker[w].rest /\ worker'[w].copy = worker[w].copy
        /\ worker'[w].good = worker[w].good /\ CopyOK(w) /\ FileOK(w)
    BY DEF Alike, Hands
  <2>2. Results(w)' = Results(w) /\ Filed(w)' = Filed(w) /\ Results(w) \in {"completed", "failed"}
    BY <2>1 DEF Results, Filed
  <2>3. Beside(w)' = Beside(w)
    BY DEF Beside, Alike
  <2>4. QED
    BY <2>1, <2>2, <2>3 DEF CopyOK, FileOK
<1>2. QED
  BY <1>1 DEF Hands

LEMMA AlikeHeld ==
  ASSUME Alike, NEW j \in Jobs
  PROVE  (InHand(j)' <=> InHand(j)) /\ \A w \in Workers : Held(w, j)' <=> Held(w, j)
BY DEF Alike, InHand, Held

LEMMA AlikeProgress ==
  ASSUME Alike, UNCHANGED <<acted, said, completed>>, NEW j \in Jobs, Progress(j),
         j \in Queue' => acted[j] = 0
  PROVE  Progress(j)'
<1>1. ASSUME NEW w \in Workers, Held(w, j)' PROVE Stage(w, j)'
  <2>1. Stage(w, j)
    BY <1>1, AlikeHeld DEF Progress
  <2>2. QED
    BY <2>1 DEF Stage, Alike
<1>2. QED
  BY <1>1 DEF Progress

\* A session cuts the workers that are saving some file off from it.
LEMMA CutOffStep ==
  ASSUME QueueInv, NEW C \in SUBSET Workers,
         \A w \in C : worker[w].pc = "saveWrite",
         worker' = [w \in Workers |-> IF w \in C THEN [worker[w] EXCEPT !.mine = FALSE] ELSE worker[w]],
         UNCHANGED <<pending, completed, failed, torn, due, starts, edit, edits, asked, acted, said, hit>>
  PROVE  QueueInv'
<1>1. QueueTypeOK /\ Hands
  BY DEF QueueInv
<1>2. ASSUME NEW w \in Workers
      PROVE /\ worker'[w] \in WorkerType
            /\ worker'[w].pc = worker[w].pc     /\ worker'[w].job = worker[w].job
            /\ worker'[w].rest = worker[w].rest /\ worker'[w].copy = worker[w].copy
            /\ worker'[w].good = worker[w].good
            /\ w \notin C => worker'[w] = worker[w]
  BY <1>1 DEF QueueTypeOK, WorkerType
<1>3. Alike
  BY <1>2 DEF Alike
<1>4. QueueTypeOK'
  BY <1>1, <1>3 DEF QueueTypeOK, Alike
<1>5. Writers' = Writers
  BY <1>2 DEF Writers
<1>6. Queue' = Queue
  BY <1>2, <1>5 DEF Queue, Writers
<1>7. \A w \in Workers : PopOK(w)'
  BY <1>1, <1>2, <1>5 DEF Hands, PopOK
<1>8. Hands'
  BY <1>1, <1>3, <1>7, AlikeHands
<1>9. ASSUME NEW j \in Jobs \ hit' PROVE Place(j)' /\ Progress(j)'
  <2>1. Place(j) /\ Progress(j)
    BY DEF QueueInv
  <2>2. Place(j)'
    BY <1>3, <1>6, <2>1, AlikeHeld DEF Place
  <2>3. Progress(j)'
    BY <1>3, <1>6, <2>1, AlikeProgress DEF Progress
  <2>4. QED
    BY <2>2, <2>3
<1>10. QED
  BY <1>4, <1>8, <1>9 DEF QueueInv

\* What replacing pending.json by S does, whatever S is.
LEMMA ReplaceStep ==
  ASSUME QueueInv, NEW S \in SUBSET Jobs, Replace(S), asked' \in SUBSET Jobs
  PROVE  /\ QueueTypeOK' /\ Hands' /\ Alike /\ Queue' = S /\ hit \subseteq hit'
         /\ \A j \in Jobs \ hit' : j \in Queue <=> j \in edit.copy
<1>1. QueueTypeOK /\ Hands
  BY DEF QueueInv
<1>2. Writers \subseteq Workers /\ Queue \in SUBSET Jobs
  BY <1>1 DEF Queue, Writers, QueueTypeOK, WorkerType
<1>3. hit' = hit \cup Differ(edit.copy, Queue) /\ hit' \in SUBSET Jobs
  BY <1>1, <1>2 DEF Replace, Differ, QueueTypeOK
<1>4. ASSUME NEW w \in Workers
      PROVE /\ worker'[w] \in WorkerType
            /\ worker'[w].pc = worker[w].pc     /\ worker'[w].job = worker[w].job
            /\ worker'[w].rest = worker[w].rest /\ worker'[w].copy = worker[w].copy
            /\ worker'[w].good = worker[w].good
            /\ worker[w].pc = "popWrite" => ~worker'[w].mine
  BY <1>1 DEF QueueTypeOK, WorkerType, Replace
<1>5. Alike
  <2>1. worker' \in [Workers -> WorkerType]
    BY <1>4 DEF Replace
  <2>2. QED
    BY <1>4, <2>1 DEF Alike
<1>6. QueueTypeOK'
  <2>1. torn' \in SUBSET {"pending", "completed", "failed"} /\ edit' \in [busy : BOOLEAN, copy : SUBSET Jobs]
    BY <1>1 DEF Replace, QueueTypeOK
  <2>2. QED
    BY <1>1, <1>3, <1>5, <2>1 DEF QueueTypeOK, Alike, Replace
<1>7. Writers' = {}
  BY <1>4 DEF Writers
<1>8. Queue' = S
  BY <1>7 DEF Queue, Replace
<1>9. Hands'
  <2>1. \A w \in Workers : PopOK(w)'
    BY <1>7 DEF PopOK
  <2>2. QED
    BY <1>1, <1>3, <1>5, <2>1, AlikeHands DEF Replace
<1>10. QED
  BY <1>3, <1>5, <1>6, <1>8, <1>9 DEF Differ

LEMMA RemoveJobsStep ==
  ASSUME QueueInv, NEW S, RemoveJobs(S) PROVE QueueInv'
<1>1. edit.copy \in SUBSET Jobs /\ asked \in SUBSET Jobs
  BY DEF QueueInv, QueueTypeOK
<1>2. Replace(edit.copy \ S) /\ asked' = asked \ (edit.copy \cap S)
  BY DEF RemoveJobs
<1>3. /\ QueueTypeOK' /\ Hands' /\ Alike /\ Queue' = edit.copy \ S /\ hit \subseteq hit'
      /\ \A j \in Jobs \ hit' : j \in Queue <=> j \in edit.copy
  BY <1>1, <1>2, ReplaceStep
<1>4. UNCHANGED <<completed, failed, acted, said>>
  BY <1>2 DEF Replace
<1>5. ASSUME NEW j \in Jobs \ hit' PROVE Place(j)' /\ Progress(j)'
  <2>1. Place(j) /\ Progress(j) /\ (j \in Queue <=> j \in edit.copy)
    BY <1>3 DEF QueueInv
  <2>2. Progress(j)'
    BY <1>3, <1>4, <2>1, AlikeProgress DEF Progress
  <2>3. /\ InHand(j)' <=> InHand(j)
        /\ \A w \in Workers : Held(w, j)' <=> Held(w, j)
    BY <1>3, AlikeHeld
  <2>4. CASE j \in edit.copy \cap S
    BY <1>2, <1>3, <1>4, <2>1, <2>2, <2>3, <2>4 DEF Place
  <2>5. CASE j \notin edit.copy \cap S
    BY <1>2, <1>3, <1>4, <2>1, <2>2, <2>3, <2>5 DEF Place
  <2>6. QED
    BY <2>4, <2>5
<1>6. QED
  BY <1>3, <1>5 DEF QueueInv

LEMMA AddJobStep ==
  ASSUME QueueInv, NEW i \in Jobs, AddJob(i) PROVE QueueInv'
<1>1. edit.copy \in SUBSET Jobs /\ asked \in SUBSET Jobs
  BY DEF QueueInv, QueueTypeOK
<1>2. Replace(edit.copy \cup {i}) /\ asked' = asked \cup {i}
  BY DEF AddJob
<1>3. /\ QueueTypeOK' /\ Hands' /\ Alike /\ Queue' = edit.copy \cup {i} /\ hit \subseteq hit'
      /\ \A j \in Jobs \ hit' : j \in Queue <=> j \in edit.copy
  BY <1>1, <1>2, ReplaceStep
<1>4. UNCHANGED <<completed, failed, acted, said>>
  BY <1>2 DEF Replace
<1>5. ASSUME NEW j \in Jobs \ hit' PROVE Place(j)' /\ Progress(j)'
  <2>1. Place(j) /\ Progress(j) /\ (j \in Queue <=> j \in edit.copy)
    BY <1>3 DEF QueueInv
  <2>2. Progress(j)'
    BY <1>3, <1>4, <2>1, AlikeProgress DEF Progress, AddJob
  <2>3. /\ InHand(j)' <=> InHand(j)
        /\ \A w \in Workers : Held(w, j)' <=> Held(w, j)
    BY <1>3, AlikeHeld
  <2>4. CASE j = i
    BY <1>2, <1>3, <1>4, <2>1, <2>2, <2>3, <2>4 DEF Place, AddJob
  <2>5. CASE j # i
    BY <1>2, <1>3, <1>4, <2>1, <2>2, <2>3, <2>5 DEF Place
  <2>6. QED
    BY <2>4, <2>5
<1>6. QED
  BY <1>3, <1>5 DEF QueueInv

-----------------------------------------------------------------------------
(* The queue: pop_next_job. *)

LEMMA PopOpenStep ==
  ASSUME QueueInv, NEW w \in Workers, PopOpen(w) PROVE QueueInv'
<1>1. QueueTypeOK /\ Hands /\ worker[w] \in WorkerType /\ worker[w].pc = "popOpen" /\ worker[w].job \in Jobs
  BY WorkerFields DEF QueueInv, PopOpen
<1>2. PICK i \in Jobs, r \in SUBSET Jobs : i = worker[w].job /\ r = worker[w].rest
  BY <1>1 DEF WorkerType
<1>3. i \notin r
  BY <1>1, <1>2 DEF Hands, CopyOK
<1>4. PICK k \in WorkerType : /\ Becomes(w, k) /\ k.pc = "popWrite" /\ k.job = i /\ k.rest = r /\ k.mine
  <2> DEFINE m == [worker[w] EXCEPT !.pc = "popWrite", !.mine = TRUE]
  <2>1. m \in WorkerType /\ m.pc = "popWrite" /\ m.job = i /\ m.rest = r /\ m.mine
    BY <1>1, <1>2 DEF WorkerType
  <2>2. QED
    BY <2>1 DEF PopOpen
<1>5. Moved(w, k)
  BY <1>1, <1>4, Moves
<1>6. worker'[w] = k /\ \A v \in Workers \ {w} : worker'[v] = worker[v]
  BY <1>5 DEF Moved
<1>7. w \notin Writers /\ Writers \subseteq Workers
  BY <1>1 DEF Writers
<1>8. Writers' = Writers \cup {w}
  BY <1>4, <1>6, <1>7 DEF Writers
<1>9. pending' = {} /\ "pending" \in torn' /\ torn \subseteq torn'
  BY DEF PopOpen
<1>10. Queue \in SUBSET Jobs /\ Queue' = r \cup UNION {worker[v].rest : v \in Writers}
  <2>1. Queue \in SUBSET Jobs
    BY <1>1, <1>7 DEF Queue, QueueTypeOK, WorkerType
  <2>2. Queue' = UNION {worker'[v].rest : v \in Writers \cup {w}}
    BY <1>8, <1>9 DEF Queue
  <2>3. \A v \in Writers : worker'[v].rest = worker[v].rest
    BY <1>6, <1>7
  <2>4. QED
    BY <1>4, <1>6, <2>1, <2>2, <2>3
<1>11. hit' = hit \cup IF Writers = {} THEN Differ(r \cup {i}, pending) ELSE r \cup {i} \cup Queue
  BY <1>2 DEF PopOpen
<1>12. hit' \in SUBSET Jobs /\ hit \subseteq hit'
  BY <1>1, <1>10, <1>11 DEF QueueTypeOK, Differ
<1>13. QueueTypeOK'
  <2>1. torn' \in SUBSET {"pending", "completed", "failed"}
    BY <1>1 DEF PopOpen, QueueTypeOK
  <2>2. QED
    BY <1>1, <1>5, <1>9, <1>12, <2>1 DEF QueueTypeOK, Moved, PopOpen
<1>14. Hands'
  <2>1. \A v \in Workers : FileOK(v)'
    BY <1>1, <1>4, <1>5, <1>9, <1>12, FileKept DEF PopOpen
  <2>2. ASSUME NEW v \in Workers, v \in Writers' PROVE PopOK(v)'
    <3>1. CASE v = w
      <4>1. Writers = {} => Writers' = {w}
        BY <1>8
      <4>2. Writers # {} => r \subseteq hit'
        BY <1>11
      <4>3. QED
        BY <1>3, <1>4, <1>6, <1>9, <3>1, <4>1, <4>2 DEF PopOK
    <3>2. CASE v # w
      <4>1. v \in Writers /\ worker'[v] = worker[v] /\ worker[v].job \notin worker[v].rest
        BY <1>1, <1>6, <1>8, <2>2, <3>2 DEF Hands, PopOK
      <4>2. worker[v].rest \subseteq hit'
        BY <1>11, <4>1 DEF Queue
      <4>3. QED
        BY <1>9, <4>1, <4>2 DEF PopOK
    <3>3. QED
      BY <3>1, <3>2
  <2>3. CopyOK(w)'
    BY <1>4, <1>6 DEF CopyOK
  <2>4. \A v \in Workers : PopOK(v)'
    BY <2>2 DEF PopOK
  <2>5. QED
    BY <1>1, <1>5, <2>1, <2>3, <2>4, HandsStep
<1>15. ASSUME NEW j \in Jobs \ hit' PROVE Place(j)' /\ Progress(j)'
  <2>1. Place(j) /\ Progress(j)
    BY <1>12 DEF QueueInv
  <2>2. ~Held(w, j) /\ (Held(w, j)' <=> j = i)
    BY <1>1, <1>4, <1>6 DEF Held, Working
  <2>3. CASE j = i
    <3>1. Writers = {} /\ j \in pending
      BY <1>11, <2>3 DEF Differ
    <3>2. j \in Queue /\ j \notin Queue'
      BY <1>3, <1>10, <2>3, <3>1 DEF Queue
    <3>3. acted[j] = 0 /\ j \in asked /\ ~InHand(j) /\ j \notin completed /\ j \notin failed
      BY <2>1, <3>2 DEF Place, Progress
    <3>4. \A v \in Workers \ {w} : ~Held(v, j)'
      BY <1>6, <3>3 DEF InHand, Held
    <3>5. UNCHANGED <<asked, completed, failed, acted, said>>
      BY DEF PopOpen
    <3>6. Place(j)'
      BY <2>2, <2>3, <3>2, <3>3, <3>4, <3>5 DEF Place, InHand
    <3>7. Stage(w, j)'
      BY <1>4, <1>6, <3>3, <3>5 DEF Stage
    <3>8. Progress(j)'
      BY <2>1, <3>2, <3>3, <3>4, <3>5, <3>7 DEF Progress
    <3>9. QED
      BY <3>6, <3>8
  <2>4. CASE j # i
    <3>1. j \in Queue' <=> j \in Queue
      <4>1. CASE Writers = {}
        BY <1>10, <1>11, <2>4, <4>1 DEF Queue, Differ
      <4>2. CASE Writers # {}
        BY <1>10, <1>11, <2>4, <4>2 DEF Queue
      <4>3. QED
        BY <4>1, <4>2
    <3>2. QED
      BY <1>5, <2>1, <2>2, <2>4, <3>1, JobKept DEF PopOpen
  <2>5. QED
    BY <2>3, <2>4
<1>16. QED
  BY <1>13, <1>14, <1>15 DEF QueueInv

LEMMA PopWriteStep ==
  ASSUME QueueInv, NEW w \in Workers, PopWrite(w) PROVE QueueInv'
<1>1. QueueTypeOK /\ Hands /\ worker[w] \in WorkerType /\ worker[w].pc = "popWrite" /\ worker[w].job \in Jobs
  BY WorkerFields DEF QueueInv, PopWrite
<1>2. PICK r \in SUBSET Jobs : r = worker[w].rest
  BY <1>1 DEF WorkerType
<1>3. PICK k \in WorkerType : Becomes(w, k) /\ k.pc = "load" /\ k.job = worker[w].job /\ ~k.mine
  <2>1. Popped(w) \in WorkerType /\ Popped(w).pc = "load" /\ Popped(w).job = worker[w].job /\ ~Popped(w).mine
    BY <1>1 DEF WorkerType, Popped, Working
  <2>2. QED
    BY <2>1 DEF PopWrite
<1>4. Moved(w, k)
  BY <1>1, <1>3, Moves
<1>5. worker'[w] = k /\ \A v \in Workers \ {w} : worker'[v] = worker[v]
  BY <1>4 DEF Moved
<1>6. UNCHANGED <<completed, failed, due, starts, edit, edits, asked, acted, said, hit>>
  BY DEF PopWrite
<1>7. Writers' = Writers \ {w} /\ Writers \subseteq Workers /\ (w \in Writers <=> worker[w].mine)
  BY <1>1, <1>3, <1>5 DEF Writers
<1>8. \A v \in Writers \ {w} : worker'[v].rest = worker[v].rest
  BY <1>5, <1>7
<1>9. Queue' = pending' \cup UNION {worker[v].rest : v \in Writers \ {w}}
  BY <1>7, <1>8 DEF Queue
<1>10. ~worker[w].mine => pending' = pending /\ torn' = torn
  BY DEF PopWrite
<1>11. worker[w].mine => /\ pending \subseteq hit /\ pending' \subseteq r
                         /\ \/ Writers = {w} /\ pending' = r
                            \/ r \subseteq hit
  <2> SUFFICES ASSUME worker[w].mine
               PROVE  /\ pending \subseteq hit /\ pending' \subseteq r
                      /\ \/ Writers = {w} /\ pending' = r
                         \/ r \subseteq hit
    OBVIOUS
  <2>1. PopOK(w) /\ w \in Writers
    BY <1>1, <1>7 DEF Hands
  <2>2. \/ pending' = r
        \/ "pending" \notin torn /\ pending' = {}
    BY <1>2 DEF PopWrite
  <2>3. QED
    BY <1>2, <2>1, <2>2 DEF PopOK
<1>12. QueueTypeOK'
  <2>1. torn' \in SUBSET {"pending", "completed", "failed"}
    BY <1>1 DEF PopWrite, QueueTypeOK
  <2>2. pending' \in SUBSET Jobs
    BY <1>1, <1>2, <1>10, <1>11 DEF QueueTypeOK
  <2>3. QED
    BY <1>1, <1>4, <1>6, <2>1, <2>2 DEF QueueTypeOK, Moved
<1>13. \A f \in {"completed", "failed"} : f \in torn => f \in torn'
  BY DEF PopWrite
<1>14. Hands'
  <2>1. \A v \in Workers : FileOK(v)'
    BY <1>1, <1>3, <1>4, <1>6, <1>13, FileKept
  <2>2. ASSUME NEW v \in Workers, v \in Writers' PROVE PopOK(v)'
    <3>1. v \in Writers /\ v # w /\ worker'[v] = worker[v] /\ PopOK(v)
      BY <1>1, <1>5, <1>7, <2>2 DEF Hands
    <3>2. CASE worker[w].mine
      <4>1. Writers # {v} /\ Writers # {w}
        BY <1>7, <3>1, <3>2
      <4>2. worker[v].rest \subseteq hit /\ pending' \subseteq hit
        BY <1>11, <3>1, <3>2, <4>1 DEF PopOK
      <4>3. QED
        BY <1>6, <3>1, <4>2 DEF PopOK
    <3>3. CASE ~worker[w].mine
      <4>1. Writers' = Writers
        BY <1>7, <3>3
      <4>2. QED
        BY <1>6, <1>10, <3>1, <3>3, <4>1 DEF PopOK
    <3>4. QED
      BY <3>2, <3>3
  <2>3. CopyOK(w)'
    BY <1>3, <1>5 DEF CopyOK
  <2>4. \A v \in Workers : PopOK(v)'
    BY <2>2 DEF PopOK
  <2>5. QED
    BY <1>1, <1>4, <2>1, <2>3, <2>4, HandsStep
<1>15. ASSUME NEW j \in Jobs \ hit' PROVE Place(j)' /\ Progress(j)'
  <2>1. Place(j) /\ Progress(j)
    BY <1>6 DEF QueueInv
  <2>2. j \in Queue' <=> j \in Queue
    <3>1. Queue = pending \cup UNION {worker[v].rest : v \in Writers}
      BY DEF Queue
    <3>2. CASE worker[w].mine
      BY <1>2, <1>6, <1>7, <1>9, <1>11, <3>1, <3>2
    <3>3. CASE ~worker[w].mine
      BY <1>7, <1>9, <1>10, <3>1, <3>3
    <3>4. QED
      BY <3>2, <3>3
  <2>3. Held(w, j)' <=> Held(w, j)
    BY <1>1, <1>3, <1>5 DEF Held, Working
  <2>4. Held(w, j) => acted[j] = 0 /\ acted[j] <= 1 /\ j \notin said
    BY <1>1, <2>1 DEF Progress, Stage
  <2>5. Held(w, j) => Stage(w, j)'
    BY <1>3, <1>5, <1>6, <2>4 DEF Stage
  <2>6. QED
    BY <1>4, <1>6, <2>1, <2>2, <2>3, <2>4, <2>5, JobKept
<1>16. QED
  BY <1>12, <1>14, <1>15 DEF QueueInv

-----------------------------------------------------------------------------
(* The queue: the handlers. *)

\* A step between two files of the queue, with a job in hand.
LEMMA WorkingStep ==
  ASSUME QueueInv, NEW w \in Workers, NEW k \in WorkerType, Becomes(w, k),
         worker[w].pc \in Working, k.pc \in Working \ {"recordWrite"}, k.job = worker[w].job,
         UNCHANGED <<pending, completed, failed, torn, due, starts, edit, edits, asked, hit>>,
         acted' \in [Jobs -> 0..2], said' \in SUBSET Jobs,
         \A j \in Jobs \ {k.job} : acted'[j] = acted[j] /\ (j \in said' <=> j \in said),
         k.pc \in {"act", "saveOpen"} => k.copy \in Contents,
         k.pc = "saveWrite" => k.copy \in Stages,
         k.job \notin hit => Stage(w, k.job)' /\ acted'[k.job] <= 1 /\ (acted'[k.job] = 0 => k.job \notin said')
  PROVE  QueueInv'
<1>1. QueueTypeOK /\ k.job \in Jobs
  BY WorkerFields DEF QueueInv, Working
<1>2. Moved(w, k)
  BY <1>1, Moves
<1>3. worker'[w] = k
  BY <1>2 DEF Moved
<1>4. CopyOK(w)' /\ w \notin Writers /\ ~Writing(k)
  BY <1>3 DEF CopyOK, Writers, Writing, Working
<1>5. starts' \in 0..MaxStarts /\ hit' \in SUBSET Jobs /\ hit \subseteq hit'
  BY <1>1 DEF QueueTypeOK
<1>6. ASSUME NEW j \in Jobs
      PROVE (Held(w, j) <=> j = k.job) /\ (Held(w, j)' <=> j = k.job)
  BY <1>3 DEF Held
<1>7. ASSUME NEW j \in Jobs \ hit'
      PROVE  /\ Held(w, j)' <=> Held(w, j)
             /\ ~Held(w, j) => acted'[j] = acted[j] /\ (j \in said' <=> j \in said)
             /\ Held(w, j) => Stage(w, j)' /\ acted'[j] <= 1 /\ (acted'[j] = 0 => j \notin said')
  BY <1>6
<1>8. QED
  BY <1>1, <1>4, <1>5, <1>7, PlainStep

\* What is known of the job in hand.
LEMMA HandJob ==
  ASSUME QueueInv, NEW w \in Workers, worker[w].pc \in Working \cup {"popWrite"}
  PROVE  /\ worker[w].job \in Jobs /\ acted[worker[w].job] \in 0..2
         /\ worker[w].job \notin hit =>
              /\ Held(w, worker[w].job) /\ Stage(w, worker[w].job) /\ acted[worker[w].job] <= 1
              /\ Place(worker[w].job) /\ Progress(worker[w].job)
              /\ (acted[worker[w].job] = 0 => worker[w].job \notin said)
<1>1. worker[w].job \in Jobs /\ acted[worker[w].job] \in 0..2
  BY WorkerFields DEF QueueInv, QueueTypeOK, Working
<1>2. Held(w, worker[w].job)
  BY DEF Held
<1>3. QED
  BY <1>1, <1>2 DEF QueueInv, Progress

LEMMA VerdictIs ==
  ASSUME QueueInv, NEW w \in Workers, NEW good \in BOOLEAN
  PROVE  \E k \in WorkerType : /\ k = Verdict(w, good) /\ k.pc = "record" /\ k.good = good
                               /\ k.job = worker[w].job /\ k.mine = worker[w].mine
<1>1. worker[w] \in WorkerType
  BY WorkerFields DEF QueueInv
<1> DEFINE m == Verdict(w, good)
<1>2. /\ m \in WorkerType /\ m.pc = "record" /\ m.good = good
      /\ m.job = worker[w].job /\ m.mine = worker[w].mine
  BY <1>1 DEF Verdict, WorkerType, Working
<1>3. QED
  BY <1>2

LEMMA HandlerLoadStep ==
  ASSUME QueueInv, NEW w \in Workers, NEW readable, NEW content, readable => content \in Contents,
         HandlerLoad(w, readable, content)
  PROVE  QueueInv'
<1>1. worker[w] \in WorkerType /\ worker[w].pc = "load" /\ worker[w].pc \in Working
  BY WorkerFields DEF QueueInv, HandlerLoad, Working
<1>2. acted' = acted /\ said' = said /\ acted' \in [Jobs -> 0..2] /\ said' \in SUBSET Jobs
  BY DEF HandlerLoad, QueueInv, QueueTypeOK
<1>3. CASE readable /\ Proceeds(w, [worker[w] EXCEPT !.pc = "act", !.copy = content])
  <2>1. PICK k \in WorkerType : Proceeds(w, k) /\ k.pc = "act" /\ k.copy = content /\ k.job = worker[w].job
    <3> DEFINE m == [worker[w] EXCEPT !.pc = "act", !.copy = content]
    <3>1. m \in WorkerType /\ m.pc = "act" /\ m.copy = content /\ m.job = worker[w].job
      BY <1>1, <1>3 DEF WorkerType, Working
    <3>2. QED
      BY <1>3, <3>1
  <2>2. worker'[w] = k
    BY <2>1 DEF Proceeds, Becomes, QueueInv, QueueTypeOK
  <2>3. k.job \notin hit => Stage(w, k.job)' /\ acted'[k.job] <= 1 /\ (acted'[k.job] = 0 => k.job \notin said')
    BY <1>1, <1>2, <2>1, <2>2, HandJob DEF Stage
  <2>4. k.pc \in Working \ {"recordWrite"}
    BY <2>1 DEF Working
  <2>5. QED
    BY <1>1, <1>2, <1>3, <2>1, <2>3, <2>4, WorkingStep DEF Proceeds
<1>4. CASE Proceeds(w, Verdict(w, FALSE))
  <2>1. PICK k \in WorkerType : Proceeds(w, k) /\ k.pc = "record" /\ k.job = worker[w].job /\ ~k.good
    BY <1>4, VerdictIs
  <2>2. worker'[w] = k
    BY <2>1 DEF Proceeds, Becomes, QueueInv, QueueTypeOK
  <2>3. k.job \notin hit => Stage(w, k.job)' /\ acted'[k.job] <= 1 /\ (acted'[k.job] = 0 => k.job \notin said')
    BY <1>1, <1>2, <2>1, <2>2, HandJob DEF Stage
  <2>4. k.pc \in Working \ {"recordWrite"}
    BY <2>1 DEF Working
  <2>5. QED
    BY <1>1, <1>2, <2>1, <2>3, <2>4, WorkingStep DEF Proceeds
<1>5. QED
  BY <1>3, <1>4 DEF HandlerLoad

LEMMA ActStep ==
  ASSUME QueueInv, NEW w \in Workers, Act(w) PROVE QueueInv'
<1>1. worker[w] \in WorkerType /\ worker[w].pc = "act" /\ worker[w].pc \in Working /\ worker[w].job \in Jobs
  BY WorkerFields DEF QueueInv, Act, Working
<1>2. PICK i \in Jobs : i = worker[w].job
  BY <1>1
<1>3. acted \in [Jobs -> 0..2] /\ said \in SUBSET Jobs
  BY DEF QueueInv, QueueTypeOK
<1>4. acted' = [acted EXCEPT ![i] = IF @ < 2 THEN @ + 1 ELSE @]
  BY <1>2 DEF Act, Asks
<1>5. acted' \in [Jobs -> 0..2] /\ \A j \in Jobs \ {i} : acted'[j] = acted[j]
  BY <1>3, <1>4
<1>6. i \notin hit => acted[i] = 0 /\ i \notin said
  BY <1>1, <1>2, HandJob DEF Stage
<1>7. i \notin hit => acted'[i] = 1
  BY <1>3, <1>4, <1>6
<1>8. CASE said' = said \cup {i} /\ Proceeds(w, [worker[w] EXCEPT !.pc = "saveOpen"])
  <2>1. worker[w].copy \in Contents
    BY <1>1 DEF QueueInv, Hands, CopyOK
  <2>2. PICK k \in WorkerType : /\ Proceeds(w, k) /\ k.pc = "saveOpen" /\ k.copy = worker[w].copy
                                /\ k.job = i
    <3> DEFINE m == [worker[w] EXCEPT !.pc = "saveOpen"]
    <3>1. m \in WorkerType /\ m.pc = "saveOpen" /\ m.copy = worker[w].copy /\ m.job = i
      BY <1>1, <1>2 DEF WorkerType, Working
    <3>2. QED
      BY <1>8, <3>1
  <2>3. worker'[w] = k
    BY <2>2 DEF Proceeds, Becomes, QueueInv, QueueTypeOK
  <2>4. k.job \notin hit => Stage(w, k.job)' /\ acted'[k.job] <= 1 /\ (acted'[k.job] = 0 => k.job \notin said')
    BY <1>7, <1>8, <2>2, <2>3 DEF Stage
  <2>5. k.pc \in Working \ {"recordWrite"} /\ said' \in SUBSET Jobs /\ \A j \in Jobs \ {i} : j \in said' <=> j \in said
    BY <1>3, <1>8, <2>2 DEF Working
  <2>6. QED
    BY <1>1, <1>2, <1>5, <2>1, <2>2, <2>4, <2>5, WorkingStep DEF Proceeds
<1>9. CASE said' = said /\ Proceeds(w, Verdict(w, FALSE))
  <2>1. PICK k \in WorkerType : Proceeds(w, k) /\ k.pc = "record" /\ k.job = i /\ ~k.good
    BY <1>2, <1>9, VerdictIs
  <2>2. worker'[w] = k
    BY <2>1 DEF Proceeds, Becomes, QueueInv, QueueTypeOK
  <2>3. k.job \notin hit => Stage(w, k.job)' /\ acted'[k.job] <= 1 /\ (acted'[k.job] = 0 => k.job \notin said')
    BY <1>7, <2>1, <2>2 DEF Stage
  <2>4. k.pc \in Working \ {"recordWrite"} /\ said' \in SUBSET Jobs
    BY <1>3, <1>9, <2>1 DEF Working
  <2>5. QED
    BY <1>1, <1>2, <1>5, <1>9, <2>1, <2>3, <2>4, WorkingStep DEF Proceeds
<1>10. QED
  BY <1>2, <1>8, <1>9 DEF Act

LEMMA SaveOpenStep ==
  ASSUME QueueInv, NEW w \in Workers, NEW shaped, shaped => worker[w].copy # "blank", SaveOpen(w, shaped)
  PROVE  QueueInv'
<1>1. worker[w] \in WorkerType /\ worker[w].pc = "saveOpen" /\ worker[w].pc \in Working
  BY WorkerFields DEF QueueInv, SaveOpen, Working
<1>2. acted' = acted /\ said' = said /\ acted' \in [Jobs -> 0..2] /\ said' \in SUBSET Jobs
  BY DEF SaveOpen, QueueInv, QueueTypeOK
<1>3. worker[w].job \notin hit => acted[worker[w].job] = 1 /\ worker[w].job \in said
  BY <1>1, HandJob DEF Stage
<1>4. CASE shaped
  <2>1. worker[w].copy \in Stages
    BY <1>1, <1>4, JobsOfPeople DEF QueueInv, Hands, CopyOK, Stages
  <2>2. PICK k \in WorkerType : /\ Proceeds(w, k) /\ k.pc = "saveWrite" /\ k.copy = worker[w].copy
                                /\ k.job = worker[w].job
    <3> DEFINE m == [worker[w] EXCEPT !.pc = "saveWrite", !.mine = TRUE]
    <3>1. m \in WorkerType /\ m.pc = "saveWrite" /\ m.copy = worker[w].copy /\ m.job = worker[w].job
      BY <1>1 DEF WorkerType, Working
    <3>2. QED
      BY <1>4, <3>1 DEF SaveOpen
  <2>3. worker'[w] = k
    BY <2>2 DEF Proceeds, Becomes, QueueInv, QueueTypeOK
  <2>4. k.job \notin hit => Stage(w, k.job)' /\ acted'[k.job] <= 1 /\ (acted'[k.job] = 0 => k.job \notin said')
    BY <1>2, <1>3, <2>2, <2>3 DEF Stage
  <2>5. k.pc \in Working \ {"recordWrite"}
    BY <2>2 DEF Working
  <2>6. QED
    BY <1>1, <1>2, <2>1, <2>2, <2>4, <2>5, WorkingStep DEF Proceeds
<1>5. CASE ~shaped
  <2>1. PICK k \in WorkerType : Proceeds(w, k) /\ k.pc = "record" /\ k.job = worker[w].job /\ ~k.good
    BY <1>5, VerdictIs DEF SaveOpen
  <2>2. worker'[w] = k
    BY <2>1 DEF Proceeds, Becomes, QueueInv, QueueTypeOK
  <2>3. k.job \notin hit => Stage(w, k.job)' /\ acted'[k.job] <= 1 /\ (acted'[k.job] = 0 => k.job \notin said')
    BY <1>2, <1>3, <2>1, <2>2 DEF Stage
  <2>4. k.pc \in Working \ {"recordWrite"}
    BY <2>1 DEF Working
  <2>5. QED
    BY <1>1, <1>2, <2>1, <2>3, <2>4, WorkingStep DEF Proceeds
<1>6. QED
  BY <1>4, <1>5

LEMMA SaveWriteStep ==
  ASSUME QueueInv, NEW w \in Workers, NEW shot, SaveWrite(w, shot)
  PROVE  QueueInv'
<1>1. worker[w] \in WorkerType /\ worker[w].pc = "saveWrite" /\ worker[w].pc \in Working
  BY WorkerFields DEF QueueInv, SaveWrite, Working
<1>2. acted' = acted /\ said' = said /\ acted' \in [Jobs -> 0..2] /\ said' \in SUBSET Jobs
  BY DEF SaveWrite, QueueInv, QueueTypeOK
<1>3. worker[w].job \notin hit => acted[worker[w].job] = 1 /\ worker[w].job \in said
  BY <1>1, HandJob DEF Stage
<1>4. PICK ok \in BOOLEAN : Proceeds(w, [Verdict(w, ok) EXCEPT !.mine = FALSE])
  BY DEF SaveWrite
<1>5. PICK k \in WorkerType : Proceeds(w, k) /\ k.pc = "record" /\ k.job = worker[w].job
  <2>1. PICK v \in WorkerType : v = Verdict(w, ok) /\ v.pc = "record" /\ v.job = worker[w].job
    BY VerdictIs
  <2> DEFINE m == [v EXCEPT !.mine = FALSE]
  <2>2. m \in WorkerType /\ m.pc = "record" /\ m.job = worker[w].job
    BY <2>1 DEF WorkerType
  <2>3. QED
    BY <1>4, <2>1, <2>2
<1>6. worker'[w] = k
  BY <1>5 DEF Proceeds, Becomes, QueueInv, QueueTypeOK
<1>7. k.job \notin hit => Stage(w, k.job)' /\ acted'[k.job] <= 1 /\ (acted'[k.job] = 0 => k.job \notin said')
  BY <1>2, <1>3, <1>5, <1>6 DEF Stage
<1>8. k.pc \in Working \ {"recordWrite"}
  BY <1>5 DEF Working
<1>9. QED
  BY <1>1, <1>2, <1>5, <1>7, <1>8, WorkingStep DEF Proceeds

-----------------------------------------------------------------------------
(* The queue: record_result, and a killed worker. *)

LEMMA RecordLoadStep ==
  ASSUME QueueInv, NEW w \in Workers, RecordLoad(w) PROVE QueueInv'
<1>1. worker[w] \in WorkerType /\ worker[w].pc = "record" /\ worker[w].pc \in Working /\ worker[w].job \in Jobs
  BY WorkerFields DEF QueueInv, RecordLoad, Working
<1>2. UNCHANGED <<pending, completed, failed, torn, due, starts, edit, edits, asked, acted, said>>
  BY DEF RecordLoad
<1>3. acted' \in [Jobs -> 0..2] /\ said' \in SUBSET Jobs /\ completed \in SUBSET Jobs /\ failed \in SUBSET Jobs
  BY <1>2 DEF QueueInv, QueueTypeOK
<1>4. CASE Becomes(w, [worker[w] EXCEPT !.pc = "recordOpen", !.rest = Filed(w)]) /\ UNCHANGED hit
  <2>1. Filed(w) \in SUBSET Jobs
    BY <1>3 DEF Filed
  <2>2. PICK k \in WorkerType : /\ Becomes(w, k) /\ k.pc = "recordOpen" /\ k.job = worker[w].job
                                /\ k.good = worker[w].good
    <3> DEFINE m == [worker[w] EXCEPT !.pc = "recordOpen", !.rest = Filed(w)]
    <3>1. m \in WorkerType /\ m.pc = "recordOpen" /\ m.job = worker[w].job /\ m.good = worker[w].good
      BY <1>1, <2>1 DEF WorkerType, Working
    <3>2. QED
      BY <1>4, <3>1
  <2>3. worker'[w] = k
    BY <2>2 DEF Becomes, QueueInv, QueueTypeOK
  <2>4. k.job \notin hit => Stage(w, k.job)' /\ acted'[k.job] <= 1 /\ (acted'[k.job] = 0 => k.job \notin said')
    BY <1>1, <1>2, <2>2, <2>3, HandJob DEF Stage
  <2>5. k.pc \in Working \ {"recordWrite"}
    BY <2>2 DEF Working
  <2>6. QED
    BY <1>1, <1>2, <1>3, <1>4, <2>2, <2>4, <2>5, WorkingStep
<1>5. CASE Becomes(w, Verdict(w, FALSE)) /\ UNCHANGED hit
  <2>1. PICK k \in WorkerType : Becomes(w, k) /\ k.pc = "record" /\ k.job = worker[w].job /\ ~k.good
    BY <1>5, VerdictIs
  <2>2. worker'[w] = k
    BY <2>1 DEF Becomes, QueueInv, QueueTypeOK
  <2>3. k.job \notin hit => Stage(w, k.job)' /\ acted'[k.job] <= 1 /\ (acted'[k.job] = 0 => k.job \notin said')
    BY <1>1, <1>2, <2>1, <2>2, HandJob DEF Stage
  <2>4. k.pc \in Working \ {"recordWrite"}
    BY <2>1 DEF Working
  <2>5. QED
    BY <1>1, <1>2, <1>3, <1>5, <2>1, <2>3, <2>4, WorkingStep
<1>6. CASE Becomes(w, Off) /\ hit' = hit \cup {worker[w].job}
  <2>1. worker'[w] = Off
    BY <1>6 DEF Becomes, QueueInv, QueueTypeOK
  <2>2. CopyOK(w)' /\ w \notin Writers /\ ~Writing(Off) /\ Off.pc # "recordWrite"
    BY <1>1, <2>1, PollingType DEF CopyOK, Writers, Writing
  <2>3. hit' \in SUBSET Jobs /\ hit \subseteq hit' /\ starts' \in 0..MaxStarts
    BY <1>1, <1>2, <1>6 DEF QueueInv, QueueTypeOK
  <2>4. ASSUME NEW j \in Jobs \ hit'
        PROVE  ~Held(w, j) /\ ~Held(w, j)' /\ acted'[j] = acted[j] /\ (j \in said' <=> j \in said)
    BY <1>2, <1>6, <2>1, PollingType DEF Held, Working
  <2>5. QED
    BY <1>2, <1>3, <1>6, <2>2, <2>3, <2>4, PollingType, PlainStep
<1>7. QED
  BY <1>4, <1>5, <1>6 DEF RecordLoad

LEMMA RecordOpenStep ==
  ASSUME QueueInv, NEW w \in Workers, RecordOpen(w) PROVE QueueInv'
<1>1. QueueTypeOK /\ Hands /\ worker[w] \in WorkerType /\ worker[w].pc = "recordOpen" /\ worker[w].job \in Jobs
  BY WorkerFields DEF QueueInv, RecordOpen
<1>2. PICK k \in WorkerType : /\ Becomes(w, k) /\ k.pc = "recordWrite" /\ k.job = worker[w].job
                              /\ k.rest = worker[w].rest /\ k.good = worker[w].good
  <2> DEFINE m == [worker[w] EXCEPT !.pc = "recordWrite"]
  <2>1. /\ m \in WorkerType /\ m.pc = "recordWrite" /\ m.job = worker[w].job
        /\ m.rest = worker[w].rest /\ m.good = worker[w].good
    BY <1>1 DEF WorkerType, Working
  <2>2. QED
    BY <2>1 DEF RecordOpen
<1>3. Moved(w, k)
  BY <1>1, <1>2, Moves
<1>4. worker'[w] = k /\ \A v \in Workers \ {w} : worker'[v] = worker[v]
  BY <1>3 DEF Moved
<1>5. UNCHANGED <<pending, completed, failed, due, starts, edit, edits, asked, acted, said>>
  BY DEF RecordOpen
<1>6. \A v \in Workers : Filed(v)' = Filed(v) /\ Results(v)' = Results(v) /\ Results(v) \in {"completed", "failed"}
  BY <1>2, <1>4, <1>5 DEF Filed, Results
<1>7. torn' = torn \cup {Results(w)}
  BY DEF RecordOpen
<1>8. PICK B \in SUBSET Workers, F \in SUBSET Jobs, r \in SUBSET Jobs :
        B = Beside(w) /\ F = Filed(w) /\ r = worker[w].rest
  BY <1>1 DEF Beside, Filed, WorkerType, QueueTypeOK
<1>9. hit' = hit \cup IF B = {} THEN Differ(r, F) ELSE r \cup F \cup {worker[v].job : v \in B \cup {w}}
  BY <1>8 DEF RecordOpen
<1>10. hit' \in SUBSET Jobs /\ hit \subseteq hit'
  <2>1. \A v \in B : worker[v].job \in Jobs
    BY <1>1, <1>8 DEF Beside, QueueTypeOK
  <2>2. QED
    BY <1>1, <1>8, <1>9, <2>1 DEF Differ, QueueTypeOK
<1>11. QueueTypeOK'
  <2>1. torn' \in SUBSET {"pending", "completed", "failed"}
    BY <1>1, <1>6, <1>7 DEF QueueTypeOK
  <2>2. QED
    BY <1>1, <1>3, <1>5, <1>10, <2>1 DEF QueueTypeOK, Moved
<1>12. ASSUME NEW v \in Workers, worker'[v].pc = "recordWrite" PROVE FileOK(v)'
  <2>1. CASE v = w
    <3>1. Beside(w)' = B \cup {w}
      BY <1>1, <1>2, <1>4, <1>8 DEF Beside
    <3>2. CASE B = {}
      BY <1>2, <1>4, <1>6, <1>7, <1>8, <1>9, <2>1, <3>1, <3>2 DEF FileOK
    <3>3. CASE B # {}
      <4>1. worker[w].job \in hit' /\ r \subseteq hit' /\ F \subseteq hit'
        BY <1>9, <3>3
      <4>2. QED
        BY <1>2, <1>4, <1>6, <1>8, <2>1, <4>1 DEF FileOK
    <3>4. QED
      BY <3>2, <3>3
  <2>2. CASE v # w
    <3>1. worker'[v] = worker[v] /\ worker[v].pc = "recordWrite" /\ FileOK(v)
      BY <1>1, <1>4, <2>2, <1>12 DEF Hands
    <3>2. CASE worker[v].good = worker[w].good
      <4>1. v \in B /\ Filed(v) = F
        BY <1>8, <3>1, <3>2 DEF Beside, Filed
      <4>2. F \subseteq hit' /\ worker[v].job \in hit'
        BY <1>9, <4>1
      <4>3. worker[v].rest \subseteq hit'
        BY <1>10, <3>1, <4>1, <4>2 DEF FileOK, Differ
      <4>4. QED
        BY <1>6, <3>1, <4>1, <4>2, <4>3 DEF FileOK
    <3>3. CASE worker[v].good # worker[w].good
      <4>1. Beside(v)' = Beside(v)
        BY <1>1, <1>2, <1>4, <3>1, <3>3 DEF Beside
      <4>2. QED
        BY <1>6, <1>7, <1>10, <3>1, <4>1 DEF FileOK
    <3>4. QED
      BY <3>2, <3>3
  <2>3. QED
    BY <2>1, <2>2
<1>13. Hands'
  <2>1. \A v \in Workers : FileOK(v)'
    BY <1>12 DEF FileOK
  <2>2. "pending" \in torn => "pending" \in torn'
    BY <1>7
  <2>3. \A v \in Workers : PopOK(v)'
    BY <1>1, <1>2, <1>3, <1>5, <1>10, <2>2, PopKept DEF Writing
  <2>4. CopyOK(w)'
    BY <1>2, <1>4 DEF CopyOK
  <2>5. QED
    BY <1>1, <1>3, <2>1, <2>3, <2>4, HandsStep
<1>14. Queue' = Queue
  BY <1>1, <1>2, <1>3, <1>5, QueueKept DEF Writing, Writers
<1>15. ASSUME NEW j \in Jobs \ hit' PROVE Place(j)' /\ Progress(j)'
  <2>1. Place(j) /\ Progress(j)
    BY <1>10 DEF QueueInv
  <2>2. Held(w, j)' <=> Held(w, j)
    BY <1>1, <1>2, <1>4 DEF Held, Working
  <2>3. Held(w, j) => Stage(w, j)' /\ acted'[j] <= 1 /\ (acted'[j] = 0 => j \notin said')
    BY <1>1, <1>2, <1>4, <1>5, <2>1 DEF Stage, Progress
  <2>4. QED
    BY <1>3, <1>5, <1>14, <2>1, <2>2, <2>3, JobKept
<1>16. QED
  BY <1>11, <1>13, <1>15 DEF QueueInv

LEMMA RecordWriteStep ==
  ASSUME QueueInv, NEW w \in Workers, RecordWrite(w) PROVE QueueInv'
<1>1. QueueTypeOK /\ Hands /\ worker[w] \in WorkerType /\ worker[w].pc = "recordWrite" /\ worker[w].job \in Jobs
  BY WorkerFields DEF QueueInv, RecordWrite
<1>2. Becomes(w, Polling) /\ Moved(w, Polling)
  <2>1. Becomes(w, Polling)
    BY DEF RecordWrite
  <2>2. QED
    BY <1>1, <2>1, Moves, PollingType
<1>3. worker'[w] = Polling /\ \A v \in Workers \ {w} : worker'[v] = worker[v]
  BY <1>2 DEF Moved
<1>4. UNCHANGED <<pending, due, starts, edit, edits, asked, acted, said, hit>>
  BY DEF RecordWrite
<1>5. PICK i \in Jobs, r \in SUBSET Jobs : i = worker[w].job /\ r = worker[w].rest
  BY <1>1 DEF WorkerType
<1>6. FileOK(w) /\ worker[w].good \in BOOLEAN
  BY <1>1 DEF Hands, WorkerType
\* What is written is the list, or the file is unchanged and all of it hit.
<1>7. /\ completed' = IF worker[w].good THEN completed' ELSE completed
      /\ failed'    = IF worker[w].good THEN failed ELSE failed'
      /\ \/ /\ Filed(w) \cup r \cup {i} \subseteq hit
            /\ (IF worker[w].good THEN completed' ELSE failed') \subseteq hit
         \/ /\ Beside(w) = {w} /\ Differ(r, Filed(w)) \subseteq hit
            /\ (IF worker[w].good THEN completed' ELSE failed') = r \cup {i}
  <2>1. CASE Results(w) \notin torn
    BY <1>5, <1>6, <2>1, <1>1 DEF RecordWrite, FileOK, Filed
  <2>2. CASE Results(w) \in torn
    BY <1>5, <1>6, <2>2, <1>1 DEF RecordWrite, FileOK, Filed
  <2>3. QED
    BY <2>1, <2>2
<1>8. completed' \in SUBSET Jobs /\ failed' \in SUBSET Jobs
  BY <1>1, <1>5, <1>6, <1>7 DEF QueueTypeOK
<1>9. /\ torn' \in SUBSET {"pending", "completed", "failed"}
      /\ \A f \in {"pending", "completed", "failed"} \ {Results(w)} : f \in torn => f \in torn'
  BY <1>1, <1>6 DEF RecordWrite, QueueTypeOK, Results
<1>10. QueueTypeOK'
  BY <1>1, <1>2, <1>4, <1>8, <1>9 DEF QueueTypeOK, Moved
<1>11. ASSUME NEW v \in Workers, worker'[v].pc = "recordWrite" PROVE FileOK(v)'
  <2>1. v # w /\ worker'[v] = worker[v] /\ worker[v].pc = "recordWrite" /\ FileOK(v)
    BY <1>1, <1>3, <1>11, PollingType DEF Hands
  <2>2. CASE worker[v].good = worker[w].good
    <3>1. Beside(w) = Beside(v) /\ v \in Beside(v) /\ w \in Beside(v) /\ Filed(v) = Filed(w)
      BY <1>1, <2>1, <2>2 DEF Beside, Filed
    <3>2. Beside(w) # {w} /\ Beside(v) # {v}
      BY <2>1, <3>1
    <3>3. Filed(w) \cup r \cup {i} \subseteq hit /\ worker[v].rest \cup Filed(v) \cup {worker[v].job} \subseteq hit
      BY <1>7, <2>1, <3>2 DEF FileOK
    <3>4. Filed(v)' \subseteq hit
      BY <1>7, <2>1, <2>2, <3>2 DEF Filed
    <3>5. QED
      BY <1>4, <2>1, <3>3, <3>4 DEF FileOK
  <2>3. CASE worker[v].good # worker[w].good
    <3>1. Filed(v)' = Filed(v) /\ Results(v)' = Results(v) /\ Results(v) # Results(w)
      BY <1>1, <1>6, <1>7, <2>1, <2>3 DEF Filed, Results, QueueTypeOK, WorkerType
    <3>2. Results(v) \in torn => Results(v)' \in torn'
      BY <1>9, <3>1 DEF Results
    <3>3. Beside(v)' = Beside(v)
      BY <1>3, <2>1, <2>3, PollingType DEF Beside
    <3>4. QED
      BY <1>4, <2>1, <3>1, <3>2, <3>3 DEF FileOK
  <2>4. QED
    BY <2>2, <2>3
<1>12. Hands'
  <2>1. \A v \in Workers : FileOK(v)'
    BY <1>11 DEF FileOK
  <2>2. "pending" \in torn => "pending" \in torn'
    BY <1>9 DEF Results
  <2>3. ~Writing(Polling)
    BY PollingType DEF Writing
  <2>4. \A v \in Workers : PopOK(v)'
    BY <1>1, <1>2, <1>4, <2>2, <2>3, PopKept
  <2>5. CopyOK(w)'
    BY <1>3, PollingType DEF CopyOK
  <2>6. QED
    BY <1>1, <1>2, <2>1, <2>4, <2>5, HandsStep
<1>13. Queue' = Queue
  <2>1. w \notin Writers /\ ~Writing(Polling)
    BY <1>1, PollingType DEF Writers, Writing
  <2>2. QED
    BY <1>2, <1>4, <2>1, QueueKept
<1>14. ASSUME NEW j \in Jobs \ hit' PROVE Place(j)' /\ Progress(j)'
  <2>1. Place(j) /\ Progress(j) /\ j \notin hit
    BY <1>4 DEF QueueInv
  <2>2. ~Held(w, j)' /\ (Held(w, j) <=> j = i)
    BY <1>1, <1>3, <1>5, PollingType DEF Held, Working
  <2>3. CASE j # i
    <3>1. (j \in completed' <=> j \in completed) /\ (j \in failed' <=> j \in failed)
      BY <1>4, <1>6, <1>7, <2>1, <2>3 DEF Filed, Differ
    <3>2. QED
      BY <1>2, <1>4, <1>13, <2>1, <2>2, <2>3, <3>1, JobKept
  <2>4. CASE j = i
    <3>1. j \in asked /\ j \notin Queue /\ j \notin completed /\ j \notin failed
      BY <2>1, <2>2, <2>4 DEF Place, InHand
    <3>2. \A v \in Workers \ {w} : ~Held(v, j)
      BY <2>1, <2>2, <2>4 DEF Place
    <3>3. \A v \in Workers : ~Held(v, j)'
      BY <1>3, <2>2, <3>2 DEF Held
    <3>4. IF worker[w].good THEN j \in completed' /\ j \notin failed'
                            ELSE j \notin completed' /\ j \in failed'
      BY <1>4, <1>6, <1>7, <2>1, <2>4, <3>1
    <3>5. worker[w].good => j \in said
      BY <1>1, <2>1, <2>2, <2>4 DEF Progress, Stage
    <3>6. Place(j)'
      BY <1>4, <1>13, <3>1, <3>3, <3>4 DEF Place, InHand
    <3>7. Progress(j)'
      BY <1>4, <1>13, <2>1, <3>1, <3>3, <3>4, <3>5 DEF Progress
    <3>8. QED
      BY <3>6, <3>7
  <2>5. QED
    BY <2>3, <2>4
<1>15. QED
  BY <1>10, <1>12, <1>14 DEF QueueInv

LEMMA KillStep ==
  ASSUME QueueInv, NEW w \in Workers, Kill(w) PROVE QueueInv'
<1>1. QueueTypeOK /\ Hands /\ worker[w] \in WorkerType
  BY WorkerFields DEF QueueInv
<1>2. Becomes(w, Off) /\ Moved(w, Off)
  <2>1. Becomes(w, Off)
    BY DEF Kill
  <2>2. QED
    BY <1>1, <2>1, Moves, PollingType
<1>3. worker'[w] = Off /\ \A v \in Workers \ {w} : worker'[v] = worker[v]
  BY <1>2 DEF Moved
<1>4. UNCHANGED <<pending, completed, failed, torn, due, starts, edit, edits, asked, acted, said>>
  BY DEF Kill
<1>5. /\ hit \subseteq hit' /\ hit' \in SUBSET Jobs
      /\ worker[w].pc \in Working \cup {"popWrite"} => worker[w].job \in hit'
      /\ w \in Writers => worker[w].rest \subseteq hit'
  <2>1. worker[w].pc \in Working \cup {"popWrite"} => worker[w].job \in Jobs
    BY <1>1, WorkerFields DEF Working
  <2>2. Filed(w) \in SUBSET Jobs /\ worker[w].rest \in SUBSET Jobs /\ hit \in SUBSET Jobs
    BY <1>1 DEF Filed, QueueTypeOK, WorkerType
  <2>3. QED
    BY <2>1, <2>2 DEF Kill, Writers
<1>6. QueueTypeOK'
  BY <1>1, <1>2, <1>4, <1>5 DEF QueueTypeOK, Moved
<1>7. Hands'
  <2>1. ~Writing(Off) /\ Off.pc # "recordWrite"
    BY PollingType DEF Writing
  <2>2. \A v \in Workers : PopOK(v)'
    BY <1>1, <1>2, <1>4, <1>5, <2>1, PopKept
  <2>3. \A v \in Workers : FileOK(v)'
    BY <1>1, <1>2, <1>4, <1>5, <2>1, FileKept
  <2>4. CopyOK(w)'
    BY <1>3, PollingType DEF CopyOK
  <2>5. QED
    BY <1>1, <1>2, <2>2, <2>3, <2>4, HandsStep
<1>8. ASSUME NEW j \in Jobs \ hit' PROVE Place(j)' /\ Progress(j)'
  <2>1. Place(j) /\ Progress(j)
    BY <1>5 DEF QueueInv
  <2>2. ~Held(w, j) /\ ~Held(w, j)'
    BY <1>3, <1>5, PollingType DEF Held, Working
  <2>3. j \in Queue' <=> j \in Queue
    <3>1. Writers' = Writers \ {w} /\ Writers \subseteq Workers
      BY <1>3, PollingType DEF Writers
    <3>2. \A v \in Writers \ {w} : worker'[v].rest = worker[v].rest
      BY <1>3, <3>1
    <3>3. Queue' = pending \cup UNION {worker[v].rest : v \in Writers \ {w}}
      BY <1>4, <3>1, <3>2 DEF Queue
    <3>4. w \in Writers => j \notin worker[w].rest
      BY <1>5
    <3>5. QED
      BY <3>3, <3>4 DEF Queue
  <2>4. QED
    BY <1>2, <1>4, <2>1, <2>2, <2>3, JobKept
<1>9. QED
  BY <1>6, <1>7, <1>8 DEF QueueInv

-----------------------------------------------------------------------------
(* The conversations: types. *)

SessionType == [pc : {"idle", "put", "mark", "sync", "tell", "meet"},
                who : People \cup {"none"}, stage : Stages,
                prior : Stages \cup {"blank", "torn"}]

LEMMA SessionFields ==
  ASSUME EndTypeOK, NEW s \in Sessions
  PROVE  session[s] \in SessionType /\ (session[s].pc # "idle" => session[s].who \in People)
BY DEF EndTypeOK, SessionType

LEMMA AsleepType == Asleep \in SessionType /\ Asleep.pc = "idle"
BY DEF Asleep, SessionType, Stages

\* A session becomes k; a fault is added for p.
LEMMA GoesType ==
  ASSUME EndTypeOK, NEW s \in Sessions, NEW k \in SessionType, Goes(s, k),
         k.pc # "idle" => k.who \in People
  PROVE  /\ session' \in [Sessions -> SessionType]
         /\ \A t \in Sessions : session'[t].pc # "idle" => session'[t].who \in People
         /\ session'[s] = k /\ \A t \in Sessions : t # s => session'[t] = session[t]
<1>1. session \in [Sessions -> SessionType] /\ session' = [session EXCEPT ![s] = k]
  BY DEF EndTypeOK, SessionType, Goes
<1>2. /\ session' \in [Sessions -> SessionType]
      /\ session'[s] = k /\ \A t \in Sessions : t # s => session'[t] = session[t]
  BY <1>1
<1>3. \A t \in Sessions : session'[t].pc # "idle" => session'[t].who \in People
  BY <1>2 DEF EndTypeOK
<1>4. QED
  BY <1>2, <1>3

LEMMA WrongType ==
  ASSUME EndTypeOK, NEW p \in People, NEW F \in SUBSET Faults, Wrong(p, F)
  PROVE  /\ fault' \in [People -> SUBSET Faults] /\ fault'[p] = fault[p] \cup F
         /\ \A q \in People : q # p => fault'[q] = fault[q]
BY DEF EndTypeOK, Wrong

LEMMA WhenFaults ==
  ASSUME NEW b PROVE When(b, "again") \in SUBSET Faults /\ (b <=> "again" \in When(b, "again"))
                     /\ (When(b, "again") = {} <=> ~b)
BY DEF When, Faults

LEMMA CallingType ==
  ASSUME EndTypeOK, NEW s \in Sessions, Calling(s) PROVE calls' \in 0..MaxCalls
BY MaxCallsAssumption DEF EndTypeOK, Calling

-----------------------------------------------------------------------------
(* The conversations: what a session's step does to what a file is to hold. *)

SessionWorker ==
  worker' = [w \in Workers |-> IF CutOff(w) THEN [worker[w] EXCEPT !.mine = FALSE] ELSE worker[w]]

\* The same workers write the same copies to the same file.
LEMMA DueStays ==
  ASSUME NEW q \in People,
         \A w \in ConvSavers(q) \cup ProspectSavers(q) : worker'[w].copy = worker[w].copy
  PROVE  /\ ConvSavers(q)' = ConvSavers(q) /\ conv'[q] = conv[q] => ConvOf(q)' = ConvOf(q)
         /\ ProspectSavers(q)' = ProspectSavers(q) /\ prospect'[q] = prospect[q] =>
              ProspectOf(q)' = ProspectOf(q)
<1>1. ASSUME NEW W, W # {} PROVE (CHOOSE w \in W : TRUE) \in W
  BY <1>1
<1>2. QED
  BY <1>1 DEF ConvOf, ProspectOf, Due

LEMMA DueOf ==
  ASSUME NEW q \in People
  PROVE  /\ ConvSavers(q) = {} => ConvOf(q) = conv[q]
         /\ ProspectSavers(q) = {} => ProspectOf(q) = prospect[q]
         /\ \A w : ConvSavers(q) = {w} => ConvOf(q) = worker[w].copy
         /\ \A w : ProspectSavers(q) = {w} => ProspectOf(q) = worker[w].copy
<1>1. \A w : (CHOOSE v \in {w} : TRUE) = w
  OBVIOUS
<1>2. QED
  BY <1>1 DEF ConvOf, ProspectOf, Due

LEMMA SessionView ==
  ASSUME QueueInv, SessionWorker, NEW q \in People
  PROVE  /\ ConvOf(q)' = IF conv'[q] = conv[q] THEN ConvOf(q) ELSE conv'[q]
         /\ ProspectOf(q)' = IF prospect'[q] = prospect[q] THEN ProspectOf(q) ELSE prospect'[q]
         /\ ConvSavers(q)' = IF conv'[q] = conv[q] THEN ConvSavers(q) ELSE {}
         /\ ProspectSavers(q)' = IF prospect'[q] = prospect[q] THEN ProspectSavers(q) ELSE {}
<1>1. worker \in [Workers -> WorkerType]
  BY DEF QueueInv, QueueTypeOK
<1>2. ASSUME NEW w \in Workers
      PROVE /\ worker'[w].pc = worker[w].pc /\ worker'[w].job = worker[w].job
            /\ worker'[w].copy = worker[w].copy
            /\ worker'[w].mine <=> worker[w].mine /\ ~CutOff(w)
  <2>1. worker[w] \in WorkerType
    BY <1>1
  <2>2. CASE CutOff(w)
    BY <2>1, <2>2 DEF SessionWorker, WorkerType
  <2>3. CASE ~CutOff(w)
    BY <2>1, <2>3 DEF SessionWorker, WorkerType
  <2>4. QED
    BY <2>2, <2>3
<1>3. ConvSavers(q)' = IF conv'[q] = conv[q] THEN ConvSavers(q) ELSE {}
  <2>1. ASSUME NEW w \in Workers
        PROVE w \in ConvSavers(q)' <=> w \in ConvSavers(q) /\ conv'[q] = conv[q]
    <3>1. worker[w].pc = "saveWrite" /\ KindOf[worker[w].job] # "scrape" /\ PersonOf[worker[w].job] = q =>
            (CutOff(w) <=> conv'[q] # conv[q])
      BY DEF CutOff, Scrapes
    <3>2. QED
      BY <1>2, <3>1 DEF ConvSavers, Scrapes
  <2>2. ConvSavers(q)' \subseteq Workers /\ ConvSavers(q) \subseteq Workers
    BY DEF ConvSavers
  <2>3. QED
    BY <2>1, <2>2
<1>4. ProspectSavers(q)' = IF prospect'[q] = prospect[q] THEN ProspectSavers(q) ELSE {}
  <2>1. ASSUME NEW w \in Workers
        PROVE w \in ProspectSavers(q)' <=> w \in ProspectSavers(q) /\ prospect'[q] = prospect[q]
    <3>1. worker[w].pc = "saveWrite" /\ KindOf[worker[w].job] = "scrape" /\ PersonOf[worker[w].job] = q =>
            (CutOff(w) <=> prospect'[q] # prospect[q])
      BY DEF CutOff, Scrapes
    <3>2. QED
      BY <1>2, <3>1 DEF ProspectSavers, Scrapes
  <2>2. ProspectSavers(q)' \subseteq Workers /\ ProspectSavers(q) \subseteq Workers
    BY DEF ProspectSavers
  <2>3. QED
    BY <2>1, <2>2
<1>5. ConvSavers(q)' = {} => ConvOf(q)' = conv'[q]
  BY DEF ConvOf, Due
<1>6. ProspectSavers(q)' = {} => ProspectOf(q)' = prospect'[q]
  BY DEF ProspectOf, Due
<1>7. \A w \in ConvSavers(q) \cup ProspectSavers(q) : worker'[w].copy = worker[w].copy
  BY <1>2 DEF ConvSavers, ProspectSavers
<1>8. QED
  BY <1>3, <1>4, <1>5, <1>6, <1>7, DueStays

-----------------------------------------------------------------------------
(* The conversations: steps of the sessions. *)

\* Of one whose end raced, or was reopened, nothing more is said.
LEMMA Vacuous ==
  ASSUME NEW q \in People, "again" \in fault'[q] PROVE OneTells(q)' /\ RestDone(q)'
BY DEF OneTells, RestDone

\* Nothing that concerns q has changed.
LEMMA Elsewhere ==
  ASSUME NEW q \in People, OneTells(q), RestDone(q),
         told'[q] = told[q], fault'[q] = fault[q], row'[q] = row[q],
         "again" \notin fault[q] => ConvOf(q)' = ConvOf(q) /\ ProspectOf(q)' = ProspectOf(q),
         \A t \in Sessions :
           Ends(session[t], q) \/ Ends(session'[t], q) => session'[t] = session[t]
  PROVE  OneTells(q)' /\ RestDone(q)'
<1>1. CASE "again" \in fault[q]
  BY <1>1, Vacuous
<1>2. CASE "again" \notin fault[q]
  <2>1. \A t \in Sessions : Ends(session[t], q) <=> Ends(session'[t], q)
    OBVIOUS
  <2>2. \A t \in Sessions : Tells(session[t], q) <=> Tells(session'[t], q)
    BY <2>1 DEF Tells
  <2>3. \A t \in Sessions : Tells(session[t], q) => session'[t] = session[t]
    BY DEF Tells
  <2>4. OneTells(q)'
    BY <1>2, <2>1, <2>2 DEF OneTells
  <2>5. RestDone(q)'
    BY <1>2, <2>2, <2>3 DEF RestDone
  <2>6. QED
    BY <2>4, <2>5
<1>3. QED
  BY <1>1, <1>2

LEMMA SessionElsewhere ==
  ASSUME QueueInv, EndInv, SessionWorker, NEW s \in Sessions, NEW q \in People,
         \A t \in Sessions : t # s => session'[t] = session[t],
         session'[s] = session[s] \/ (~Ends(session[s], q) /\ ~Ends(session'[s], q)),
         told'[q] = told[q], fault'[q] = fault[q], row'[q] = row[q],
         "again" \notin fault[q] => ConvOf(q)' = ConvOf(q) /\ ProspectOf(q)' = ProspectOf(q)
  PROVE  OneTells(q)' /\ RestDone(q)'
<1>1. OneTells(q) /\ RestDone(q)
  BY DEF EndInv
<1>2. QED
  BY <1>1, Elsewhere

\* What remains to be shown of a session's step, p being the person it is about.
LEMMA SessionInv ==
  ASSUME QueueInv, EndInv, SessionWorker, NEW s \in Sessions, NEW p \in People,
         EndTypeOK',
         \A t \in Sessions : t # s => session'[t] = session[t],
         session'[s].pc # "idle" => session'[s].who = p,
         session[s].pc # "idle" => session[s].who = p,
         session'[s].pc = "tell" => session'[s].prior # "ended",
         session'[s].pc = "meet" => session'[s].prior # "torn",
         fault[p] \subseteq fault'[p],
         \A q \in People : q # p =>
           /\ told'[q] = told[q] /\ fault'[q] = fault[q] /\ row'[q] = row[q]
           /\ conv'[q] = conv[q] /\ prospect'[q] = prospect[q],
         OneTells(p)' /\ RestDone(p)'
  PROVE  EndInv'
<1>1. Truncated'
  <2>1. ASSUME NEW q \in People, "again" \notin fault'[q]
        PROVE  /\ \A w \in ConvSavers(q)' : conv'[q] = "torn" /\ ConvSavers(q)' = {w}
               /\ \A w \in ProspectSavers(q)' : prospect'[q] = "torn" /\ ProspectSavers(q)' = {w}
    <3>1. "again" \notin fault[q]
      BY <2>1
    <3>2. /\ ConvSavers(q)' = IF conv'[q] = conv[q] THEN ConvSavers(q) ELSE {}
          /\ ProspectSavers(q)' = IF prospect'[q] = prospect[q] THEN ProspectSavers(q) ELSE {}
      BY SessionView
    <3>3. /\ \A w \in ConvSavers(q) : conv[q] = "torn" /\ ConvSavers(q) = {w}
          /\ \A w \in ProspectSavers(q) : prospect[q] = "torn" /\ ProspectSavers(q) = {w}
      BY <3>1 DEF EndInv, Truncated
    <3>4. QED
      BY <3>2, <3>3
  <2>2. QED
    BY <2>1 DEF Truncated
<1>2. Priors'
  <2>1. ASSUME NEW t \in Sessions
        PROVE  /\ session'[t].pc = "tell" => session'[t].prior # "ended"
               /\ session'[t].pc = "meet" => session'[t].prior # "torn"
    <3>1. CASE t = s
      BY <3>1
    <3>2. CASE t # s
      BY <3>2 DEF EndInv, Priors
    <3>3. QED
      BY <3>1, <3>2
  <2>2. QED
    BY <2>1 DEF Priors
<1>3. ASSUME NEW q \in People PROVE OneTells(q)' /\ RestDone(q)'
  <2>1. CASE q = p
    BY <2>1
  <2>2. CASE q # p
    <3>1. ~Ends(session[s], q) /\ ~Ends(session'[s], q)
      BY <2>2 DEF Ends
    <3>2. ConvOf(q)' = ConvOf(q) /\ ProspectOf(q)' = ProspectOf(q)
      BY <2>2, SessionView DEF EndInv
    <3>3. QED
      BY <2>2, <3>1, <3>2, SessionElsewhere
  <2>3. QED
    BY <2>1, <2>2
<1>4. QED
  BY <1>1, <1>2, <1>3 DEF EndInv

LEMMA UpsertReadStep ==
  ASSUME QueueInv, EndInv, SessionWorker, NEW s \in Sessions, UpsertRead(s)
  PROVE  EndInv'
<1> USE DEF SessionType
<1>1. PICK p \in People, stage \in Stages :
        Goes(s, [pc |-> "put", who |-> p, stage |-> stage, prior |-> conv[p]])
  BY DEF UpsertRead
<1> DEFINE k == [pc |-> "put", who |-> p, stage |-> stage, prior |-> conv[p]]
<1>2. EndTypeOK /\ k \in SessionType /\ session[s].pc = "idle"
  BY DEF EndInv, EndTypeOK, UpsertRead, Calling
<1>3. /\ session' \in [Sessions -> SessionType]
      /\ \A t \in Sessions : session'[t].pc # "idle" => session'[t].who \in People
      /\ session'[s] = k /\ \A t \in Sessions : t # s => session'[t] = session[t]
  BY <1>1, <1>2, GoesType
<1>4. EndTypeOK'
  BY <1>2, <1>3, CallingType DEF UpsertRead, EndTypeOK
<1>5. ~Ends(session[s], p) /\ ~Ends(session'[s], p)
  BY <1>2, <1>3 DEF Ends
<1>6. ConvOf(p)' = ConvOf(p) /\ ProspectOf(p)' = ProspectOf(p)
  BY SessionView DEF EndInv, UpsertRead
<1>7. OneTells(p)' /\ RestDone(p)'
  BY <1>3, <1>5, <1>6, SessionElsewhere DEF UpsertRead
<1>8. QED
  BY <1>2, <1>3, <1>4, <1>7, SessionInv DEF UpsertRead

\* The file was readable: it holds what it is to hold.
LEMMA Plain ==
  ASSUME EndInv, NEW p \in People, "again" \notin fault[p]
  PROVE  /\ conv[p] # "torn" => ConvOf(p) = conv[p]
         /\ prospect[p] # "torn" => ProspectOf(p) = prospect[p]
<1>1. /\ conv[p] # "torn" => ConvSavers(p) = {}
      /\ prospect[p] # "torn" => ProspectSavers(p) = {}
  BY DEF EndInv, Truncated
<1>2. QED
  BY <1>1, DueOf

LEMMA UpsertWriteStep ==
  ASSUME QueueInv, EndInv, SessionWorker, NEW s \in Sessions, UpsertWrite(s)
  PROVE  EndInv'
<1>1. PICK k \in SessionType, p \in People :
        session[s] = k /\ k.who = p /\ k.pc = "put" /\ EndTypeOK
  BY SessionFields DEF EndInv, UpsertWrite
<1> DEFINE again == \/ k.stage # "ended" /\ conv[p] # "open"
                    \/ k.prior # conv[p]
                    \/ k.prior \notin Stages
           next == IF k.stage = "ended" THEN [k EXCEPT !.pc = "mark"] ELSE Asleep
<1>2. /\ prospect' = prospect /\ row' = row /\ calls' = calls /\ told' = told
      /\ \/ conv' = [conv EXCEPT ![p] = k.stage] /\ Goes(s, next) /\ Wrong(p, When(again, "again"))
         \/ conv' = conv /\ Goes(s, Asleep) /\ fault' = fault
  BY <1>1 DEF UpsertWrite
<1> HIDE DEF again
<1>3. CASE conv' = conv /\ Goes(s, Asleep) /\ fault' = fault
  <2>1. /\ session' \in [Sessions -> SessionType]
        /\ \A t \in Sessions : session'[t].pc # "idle" => session'[t].who \in People
        /\ session'[s] = Asleep /\ \A t \in Sessions : t # s => session'[t] = session[t]
    BY <1>1, <1>3, AsleepType, GoesType
  <2>2. EndTypeOK'
    BY <1>1, <1>2, <1>3, <2>1 DEF EndTypeOK, SessionType
  <2>3. ~Ends(session[s], p) /\ ~Ends(session'[s], p)
    BY <1>1, <2>1 DEF Ends, Asleep
  <2>4. ConvOf(p)' = ConvOf(p) /\ ProspectOf(p)' = ProspectOf(p)
    BY <1>1, <1>2, <1>3, SessionView DEF EndInv
  <2>5. OneTells(p)' /\ RestDone(p)'
    BY <1>1, <1>2, <1>3, <2>1, <2>3, <2>4, SessionElsewhere
  <2>6. QED
    BY <1>1, <1>2, <1>3, <2>1, <2>2, <2>5, AsleepType, SessionInv
<1>4. CASE conv' = [conv EXCEPT ![p] = k.stage] /\ Goes(s, next) /\ Wrong(p, When(again, "again"))
  <2>1. next \in SessionType /\ (next.pc # "idle" => next.who = p) /\ next.pc \in {"idle", "mark"}
    BY <1>1, AsleepType DEF SessionType
  <2> HIDE DEF next
  <2>2. /\ session' \in [Sessions -> SessionType]
        /\ \A t \in Sessions : session'[t].pc # "idle" => session'[t].who \in People
        /\ session'[s] = next /\ \A t \in Sessions : t # s => session'[t] = session[t]
    BY <1>1, <1>4, <2>1, GoesType
  <2>3. /\ fault' \in [People -> SUBSET Faults] /\ fault'[p] = fault[p] \cup When(again, "again")
        /\ \A q \in People : q # p => fault'[q] = fault[q]
    <3>1. When(again, "again") \in SUBSET Faults
      BY DEF When, Faults
    <3>2. QED
      BY <1>1, <1>4, <3>1, WrongType
  <2>4. k.stage \in Stages /\ conv'[p] = k.stage /\ (\A q \in People : q # p => conv'[q] = conv[q])
    BY <1>1, <1>4 DEF EndTypeOK, SessionType
  <2>5. EndTypeOK'
    BY <1>1, <1>2, <1>4, <2>2, <2>3, <2>4 DEF EndTypeOK, SessionType
  <2>6. "again" \notin fault[p] => ConvOf(p)' = k.stage /\ ProspectOf(p)' = ProspectOf(p)
    BY <1>1, <1>2, <2>4, SessionView, Plain DEF Stages
  <2>7. OneTells(p)' /\ RestDone(p)'
    <3>1. CASE again \/ "again" \in fault[p]
      <4>1. "again" \in fault'[p]
        BY <2>3, <3>1 DEF When
      <4>2. QED
        BY <4>1, Vacuous
    <3>2. CASE ~again /\ "again" \notin fault[p]
      <4>1. fault'[p] = fault[p]
        BY <2>3, <3>2 DEF When
      <4>2. ConvOf(p) = k.prior /\ k.prior \in Stages /\ (k.stage = "ended" \/ k.prior = "open")
        BY <1>1, <3>2, Plain DEF again, Stages
      <4>3. CASE k.stage = "open"
        <5>1. ~Ends(session[s], p) /\ ~Ends(session'[s], p)
          BY <1>1, <2>2, <4>3 DEF Ends, Asleep, next
        <5>2. ConvOf(p)' = ConvOf(p)
          BY <2>6, <3>2, <4>2, <4>3
        <5>3. QED
          BY <1>1, <1>2, <2>2, <2>6, <4>1, <5>1, <5>2, SessionElsewhere
      <4>4. CASE k.stage = "ended"
        <5>1. /\ session'[s].pc = "mark" /\ session'[s].who = p /\ session'[s].prior = k.prior
          BY <1>1, <2>2, <4>4 DEF SessionType, next
        <5>2. Ends(session'[s], p) /\ (Tells(session'[s], p) <=> k.prior = "open")
          BY <4>2, <5>1 DEF Ends, Tells, Stages
        <5>3. ~Ends(session[s], p) /\ OneTells(p) /\ RestDone(p)
          BY <1>1 DEF Ends, EndInv
        <5>4. CASE k.prior = "open"
          <6>1. "again" \notin fault[p] => told[p] = 0 /\ \A t \in Sessions : ~Ends(session[t], p)
            BY <4>2, <5>3, <5>4 DEF OneTells
          <6>2. "again" \notin fault[p] => \A t \in Sessions : Tells(session'[t], p) => t = s
            BY <2>2, <6>1 DEF Tells
          <6>3. OneTells(p)'
            BY <1>2, <2>6, <3>2, <4>1, <4>4, <6>1, <6>2 DEF OneTells
          <6>4. RestDone(p)'
            BY <1>2, <2>6, <3>2, <4>1, <4>4, <5>1, <5>2, <5>4, <6>1, <6>2 DEF RestDone, Stages
          <6>5. QED
            BY <6>3, <6>4
        <5>5. CASE k.prior = "ended"
          <6>1. \A t \in Sessions : Tells(session'[t], p) <=> t # s /\ Tells(session[t], p)
            BY <2>2, <5>2, <5>5
          <6>2. ~Tells(session[s], p)
            BY <5>3 DEF Tells
          <6>3. OneTells(p)'
            BY <1>2, <2>6, <3>2, <4>1, <4>4, <5>3, <6>1 DEF OneTells
          <6>4. RestDone(p)'
            BY <1>2, <2>2, <2>6, <3>2, <4>1, <4>2, <4>4, <5>3, <5>5, <6>1, <6>2 DEF RestDone
          <6>5. QED
            BY <6>3, <6>4
        <5>6. QED
          BY <4>2, <5>4, <5>5 DEF Stages
      <4>5. QED
        BY <2>4, <4>3, <4>4 DEF Stages
    <3>3. QED
      BY <3>1, <3>2
  <2>8. QED
    BY <1>1, <1>2, <2>1, <2>2, <2>3, <2>4, <2>5, <2>7, SessionInv
<1>5. QED
  BY <1>2, <1>3, <1>4

\* A call that steps back to a call of the same kind, or ends.
LEMMA NextType ==
  ASSUME NEW k \in SessionType, NEW pc \in {"sync", "tell"}
  PROVE  /\ [k EXCEPT !.pc = pc] \in SessionType /\ [k EXCEPT !.pc = pc].pc = pc
         /\ [k EXCEPT !.pc = pc].who = k.who /\ [k EXCEPT !.pc = pc].prior = k.prior
BY DEF SessionType

\* A call goes on to its next step, or ends, and leaves a step of the end out: whatever
\* is missing then, nobody is told twice.
LEMMA ShortStep ==
  ASSUME QueueInv, EndInv, SessionWorker, NEW s \in Sessions, NEW p \in People,
         NEW next \in SessionType, Goes(s, next), Wrong(p, {"short"}),
         UNCHANGED <<conv, prospect, row, calls, told>>,
         session[s].pc # "idle", session[s].who = p,
         \/ next.pc = "idle"
         \/ /\ Ends(session[s], p) /\ next.pc \in {"sync", "tell"} /\ next.who = p
            /\ next.prior = session[s].prior /\ (next.pc = "tell" => next.prior # "ended")
  PROVE  EndInv'
<1>1. EndTypeOK /\ OneTells(p)
  BY DEF EndInv
<1>2. /\ session' \in [Sessions -> SessionType]
      /\ \A t \in Sessions : session'[t].pc # "idle" => session'[t].who \in People
      /\ session'[s] = next /\ \A t \in Sessions : t # s => session'[t] = session[t]
  BY <1>1, GoesType
<1>3. /\ fault' \in [People -> SUBSET Faults] /\ fault'[p] = fault[p] \cup {"short"}
      /\ \A q \in People : q # p => fault'[q] = fault[q]
  <2>1. {"short"} \in SUBSET Faults
    BY DEF Faults
  <2>2. QED
    BY <1>1, <2>1, WrongType
<1>4. EndTypeOK'
  BY <1>1, <1>2, <1>3 DEF EndTypeOK, SessionType
<1>5. ConvOf(p)' = ConvOf(p)
  BY SessionView DEF EndInv
<1>6. Ends(session'[s], p) => Ends(session[s], p)
  BY <1>2 DEF Ends
<1>7. Tells(session'[s], p) => Tells(session[s], p)
  BY <1>2 DEF Ends, Tells
<1>8. \A t \in Sessions : /\ Ends(session'[t], p) => Ends(session[t], p)
                          /\ Tells(session'[t], p) => Tells(session[t], p)
  BY <1>2, <1>6, <1>7
<1>9. OneTells(p)'
  BY <1>1, <1>3, <1>5, <1>8 DEF OneTells
<1>10. RestDone(p)'
  BY <1>3 DEF RestDone
<1>11. QED
  BY <1>2, <1>3, <1>4, <1>9, <1>10, SessionInv

LEMMA MarkRowStep ==
  ASSUME QueueInv, EndInv, SessionWorker, NEW s \in Sessions, MarkRow(s)
  PROVE  EndInv'
<1>1. PICK k \in SessionType, p \in People :
        session[s] = k /\ k.who = p /\ k.pc = "mark" /\ EndTypeOK
  BY SessionFields DEF EndInv, MarkRow
<1> DEFINE sync == [k EXCEPT !.pc = "sync"]
<1>2. sync \in SessionType /\ sync.pc = "sync" /\ sync.who = p /\ sync.prior = k.prior
  BY <1>1, NextType
<1>3. UNCHANGED <<conv, prospect, calls, told>>
  BY DEF MarkRow
<1>4. \/ row' = [row EXCEPT ![p] = "ended"] /\ Goes(s, sync) /\ fault' = fault
      \/ row' = row /\ Goes(s, sync) /\ Wrong(p, {"short"})
      \/ row' = row /\ Goes(s, Asleep) /\ Wrong(p, {"short"})
  BY <1>1 DEF MarkRow
<1> HIDE DEF sync
<1>5. CASE row' = row /\ Goes(s, sync) /\ Wrong(p, {"short"})
  BY <1>1, <1>2, <1>3, <1>5, ShortStep DEF Ends
<1>6. CASE row' = row /\ Goes(s, Asleep) /\ Wrong(p, {"short"})
  BY <1>1, <1>3, <1>6, AsleepType, ShortStep
<1>7. CASE row' = [row EXCEPT ![p] = "ended"] /\ Goes(s, sync) /\ fault' = fault
  <2>1. /\ session' \in [Sessions -> SessionType]
        /\ \A t \in Sessions : session'[t].pc # "idle" => session'[t].who \in People
        /\ session'[s] = sync /\ \A t \in Sessions : t # s => session'[t] = session[t]
    BY <1>1, <1>2, <1>7, GoesType
  <2>2. row'[p] = "ended" /\ \A q \in People : q # p => row'[q] = row[q]
    BY <1>1, <1>7 DEF EndTypeOK
  <2>3. EndTypeOK'
    BY <1>1, <1>3, <1>7, <2>1 DEF EndTypeOK, SessionType, Stages
  <2>4. ConvOf(p)' = ConvOf(p) /\ ProspectOf(p)' = ProspectOf(p)
    BY <1>3, SessionView DEF EndInv
  <2>5. OneTells(p) /\ RestDone(p) /\ Ends(session[s], p) /\ Ends(session'[s], p)
    BY <1>1, <1>2, <2>1 DEF EndInv, Ends
  <2>6. \A t \in Sessions : /\ Ends(session'[t], p) <=> Ends(session[t], p)
                            /\ Tells(session'[t], p) <=> Tells(session[t], p)
    BY <1>1, <1>2, <2>1, <2>5 DEF Tells
  <2>7. OneTells(p)'
    BY <1>3, <1>7, <2>4, <2>5, <2>6 DEF OneTells
  <2>8. fault[p] = {} => ConvOf(p) # "open"
    BY <2>5 DEF OneTells
  <2>9. \A t \in Sessions : session'[t].pc = "tell" => session'[t] = session[t]
    BY <1>2, <2>1
  <2>10. RestDone(p)'
    BY <1>3, <1>7, <2>2, <2>4, <2>5, <2>6, <2>8, <2>9 DEF RestDone
  <2>11. QED
    BY <1>1, <1>2, <1>3, <1>7, <2>1, <2>2, <2>3, <2>7, <2>10, SessionInv
<1>8. QED
  BY <1>4, <1>5, <1>6, <1>7

LEMMA SyncProspectStep ==
  ASSUME QueueInv, EndInv, SessionWorker, NEW s \in Sessions, SyncProspect(s)
  PROVE  EndInv'
<1>1. PICK k \in SessionType, p \in People :
        session[s] = k /\ k.who = p /\ k.pc = "sync" /\ EndTypeOK
  BY SessionFields DEF EndInv, SyncProspect
<1> DEFINE next == IF k.prior = "ended" THEN Asleep ELSE [k EXCEPT !.pc = "tell"]
<1>2. /\ next \in SessionType
      /\ k.prior = "ended" => next.pc = "idle"
      /\ k.prior # "ended" => next.pc = "tell" /\ next.who = p /\ next.prior = k.prior
  BY <1>1, NextType, AsleepType
<1>3. UNCHANGED <<conv, row, calls, told>> /\ Goes(s, next)
  BY <1>1 DEF SyncProspect
<1>4. \/ prospect[p] # "torn" /\ prospect' = [prospect EXCEPT ![p] = "ended"] /\ fault' = fault
      \/ prospect' = prospect /\ Wrong(p, {"short"})
  BY <1>1 DEF SyncProspect
<1> HIDE DEF next
<1>5. CASE prospect' = prospect /\ Wrong(p, {"short"})
  <2>1. Ends(session[s], p)
    BY <1>1 DEF Ends
  <2>2. QED
    BY <1>1, <1>2, <1>3, <1>5, <2>1, ShortStep
<1>6. CASE prospect[p] # "torn" /\ prospect' = [prospect EXCEPT ![p] = "ended"] /\ fault' = fault
  <2>1. /\ session' \in [Sessions -> SessionType]
        /\ \A t \in Sessions : session'[t].pc # "idle" => session'[t].who \in People
        /\ session'[s] = next /\ \A t \in Sessions : t # s => session'[t] = session[t]
    BY <1>1, <1>2, <1>3, GoesType
  <2>2. prospect'[p] = "ended" /\ \A q \in People : q # p => prospect'[q] = prospect[q]
    BY <1>1, <1>6 DEF EndTypeOK
  <2>3. EndTypeOK'
    BY <1>1, <1>3, <1>6, <2>1 DEF EndTypeOK, SessionType, Stages
  <2>4. ConvOf(p)' = ConvOf(p) /\ ("again" \notin fault[p] => ProspectOf(p)' = "ended")
    BY <1>3, <1>6, <2>2, SessionView, Plain
  <2>5. OneTells(p) /\ RestDone(p) /\ Ends(session[s], p)
    BY <1>1 DEF EndInv, Ends
  <2>6. /\ Tells(session'[s], p) <=> Tells(session[s], p)
        /\ Ends(session'[s], p) => Ends(session[s], p)
    BY <1>1, <1>2, <2>1, <2>5 DEF Tells, Ends
  <2>7. \A t \in Sessions : /\ Ends(session'[t], p) => Ends(session[t], p)
                            /\ Tells(session'[t], p) <=> Tells(session[t], p)
    BY <2>1, <2>6
  <2>8. OneTells(p)'
    BY <1>3, <1>6, <2>4, <2>5, <2>7 DEF OneTells
  <2>9. ASSUME fault[p] = {}, NEW t \in Sessions, Tells(session'[t], p), session'[t].pc # "mark"
        PROVE  row[p] = "ended"
    <3>1. Tells(session[t], p) /\ (t # s => session'[t] = session[t])
      BY <2>1, <2>7, <2>9
    <3>2. t = s => session[t].pc # "mark"
      BY <1>1
    <3>3. QED
      BY <2>5, <2>9, <3>1, <3>2 DEF RestDone
  <2>10. RestDone(p)'
    BY <1>3, <1>6, <2>4, <2>5, <2>7, <2>9 DEF RestDone
  <2>11. QED
    BY <1>1, <1>2, <1>3, <1>6, <2>1, <2>2, <2>3, <2>8, <2>10, SessionInv
<1>7. QED
  BY <1>4, <1>5, <1>6

LEMMA NotifyStep ==
  ASSUME QueueInv, EndInv, SessionWorker, NEW s \in Sessions, Notify(s)
  PROVE  EndInv'
<1>1. PICK k \in SessionType, p \in People :
        /\ session[s] = k /\ k.who = p /\ k.pc = "tell" /\ k.prior # "ended" /\ EndTypeOK
  BY SessionFields DEF EndInv, Notify, Priors
<1>2. UNCHANGED <<conv, prospect, row, calls>> /\ Goes(s, Asleep)
  BY DEF Notify
<1>3. \/ told' = [told EXCEPT ![p] = IF @ < 2 THEN @ + 1 ELSE @] /\ fault' = fault
      \/ told' = told /\ Wrong(p, {"short"})
  BY <1>1 DEF Notify, SendEndedMail
<1>4. CASE told' = told /\ Wrong(p, {"short"})
  BY <1>1, <1>2, <1>4, AsleepType, ShortStep
<1>5. CASE told' = [told EXCEPT ![p] = IF @ < 2 THEN @ + 1 ELSE @] /\ fault' = fault
  <2>1. /\ session' \in [Sessions -> SessionType]
        /\ \A t \in Sessions : session'[t].pc # "idle" => session'[t].who \in People
        /\ session'[s] = Asleep /\ \A t \in Sessions : t # s => session'[t] = session[t]
    BY <1>1, <1>2, AsleepType, GoesType
  <2>2. /\ told' \in [People -> 0..2] /\ (told[p] = 0 => told'[p] = 1)
        /\ \A q \in People : q # p => told'[q] = told[q]
    BY <1>1, <1>5 DEF EndTypeOK
  <2>3. EndTypeOK'
    BY <1>1, <1>2, <1>5, <2>1, <2>2 DEF EndTypeOK, SessionType
  <2>4. ConvOf(p)' = ConvOf(p) /\ ProspectOf(p)' = ProspectOf(p)
    BY <1>2, SessionView DEF EndInv
  <2>5. OneTells(p) /\ RestDone(p) /\ Ends(session[s], p) /\ Tells(session[s], p)
    BY <1>1 DEF EndInv, Ends, Tells
  <2>6. ~Ends(session'[s], p) /\ ~Tells(session'[s], p)
    BY <2>1 DEF Ends, Tells, Asleep
  <2>7. ASSUME "again" \notin fault[p]
        PROVE  /\ told[p] = 0 /\ told'[p] = 1 /\ ConvOf(p) # "open"
               /\ \A t \in Sessions : ~Tells(session'[t], p)
    <3>1. told[p] # 1 /\ told[p] <= 1 /\ told[p] \in 0..2 /\ ConvOf(p) # "open"
      BY <1>1, <2>5, <2>7 DEF OneTells, EndTypeOK
    <3>2. \A t \in Sessions : Tells(session[t], p) => t = s
      BY <2>5, <2>7 DEF OneTells
    <3>3. QED
      BY <2>1, <2>2, <2>6, <3>1, <3>2
  <2>8. OneTells(p)'
    BY <1>5, <2>4, <2>7 DEF OneTells
  <2>9. fault[p] = {} => row[p] = "ended" /\ ProspectOf(p) = "ended" /\ ConvOf(p) \in Stages
    BY <1>1, <2>5 DEF RestDone
  <2>10. RestDone(p)'
    BY <1>2, <1>5, <2>4, <2>7, <2>9 DEF RestDone
  <2>11. QED
    BY <1>1, <1>2, <1>5, <2>1, <2>2, <2>3, <2>8, <2>10, AsleepType, SessionInv
<1>6. QED
  BY <1>3, <1>4, <1>5

LEMMA SessionDiesStep ==
  ASSUME QueueInv, EndInv, SessionWorker, NEW s \in Sessions, SessionDies(s)
  PROVE  EndInv'
<1>1. PICK p \in People : session[s].who = p /\ session[s].pc # "idle"
  BY SessionFields DEF EndInv, SessionDies
<1>2. Goes(s, Asleep) /\ Wrong(p, {"short"}) /\ UNCHANGED <<conv, prospect, row, calls, told>>
  BY <1>1 DEF SessionDies
<1>3. QED
  BY <1>1, <1>2, AsleepType, ShortStep

LEMMA MeetReadStep ==
  ASSUME QueueInv, EndInv, SessionWorker, NEW s \in Sessions, MeetRead(s)
  PROVE  EndInv'
<1>1. PICK p \in People :
        Goes(s, [pc |-> "meet", who |-> p, stage |-> "open",
                 prior |-> IF conv[p] = "torn" THEN "blank" ELSE conv[p]])
  BY DEF MeetRead
<1>2. PICK prior : /\ prior \in Stages \cup {"blank"}
                   /\ Goes(s, [pc |-> "meet", who |-> p, stage |-> "open", prior |-> prior])
  BY <1>1 DEF EndInv, EndTypeOK
<1> DEFINE k == [pc |-> "meet", who |-> p, stage |-> "open", prior |-> prior]
<1>3. k \in SessionType /\ k.pc = "meet" /\ k.who = p /\ k.prior # "torn"
  BY <1>2 DEF SessionType, Stages
<1>4. EndTypeOK /\ session[s].pc = "idle"
  BY DEF EndInv, MeetRead, Calling
<1> HIDE DEF k
<1>5. /\ session' \in [Sessions -> SessionType]
      /\ \A t \in Sessions : session'[t].pc # "idle" => session'[t].who \in People
      /\ session'[s] = k /\ \A t \in Sessions : t # s => session'[t] = session[t]
  BY <1>2, <1>3, <1>4, GoesType DEF k
<1>6. EndTypeOK'
  BY <1>4, <1>5, CallingType DEF MeetRead, EndTypeOK, SessionType
<1>7. ~Ends(session[s], p) /\ ~Ends(session'[s], p)
  BY <1>3, <1>4, <1>5 DEF Ends
<1>8. ConvOf(p)' = ConvOf(p) /\ ProspectOf(p)' = ProspectOf(p)
  BY SessionView DEF EndInv, MeetRead
<1>9. OneTells(p)' /\ RestDone(p)'
  BY <1>5, <1>7, <1>8, SessionElsewhere DEF MeetRead
<1>10. QED
  BY <1>3, <1>4, <1>5, <1>6, <1>9, SessionInv DEF MeetRead

LEMMA MeetWriteStep ==
  ASSUME QueueInv, EndInv, SessionWorker, NEW s \in Sessions, MeetWrite(s)
  PROVE  EndInv'
<1>1. PICK k \in SessionType, p \in People :
        session[s] = k /\ k.who = p /\ k.pc = "meet" /\ k.prior # "torn" /\ EndTypeOK
  BY SessionFields DEF EndInv, MeetWrite, Priors
<1>2. /\ UNCHANGED <<prospect, row, calls, told>> /\ Goes(s, Asleep)
      /\ conv' = [conv EXCEPT ![p] = k.prior] /\ Wrong(p, When(k.prior # conv[p], "again"))
  BY <1>1 DEF MeetWrite
<1>3. /\ session' \in [Sessions -> SessionType]
      /\ \A t \in Sessions : session'[t].pc # "idle" => session'[t].who \in People
      /\ session'[s] = Asleep /\ \A t \in Sessions : t # s => session'[t] = session[t]
  BY <1>1, <1>2, AsleepType, GoesType
<1>4. /\ fault' \in [People -> SUBSET Faults]
      /\ fault'[p] = fault[p] \cup When(k.prior # conv[p], "again")
      /\ \A q \in People : q # p => fault'[q] = fault[q]
  <2>1. When(k.prior # conv[p], "again") \in SUBSET Faults
    BY DEF When, Faults
  <2>2. QED
    BY <1>1, <1>2, <2>1, WrongType
<1>5. /\ conv' \in [People -> Stages \cup {"blank", "torn"}]
      /\ conv'[p] = k.prior /\ \A q \in People : q # p => conv'[q] = conv[q]
  BY <1>1, <1>2 DEF EndTypeOK, SessionType
<1>6. EndTypeOK'
  BY <1>1, <1>2, <1>3, <1>4, <1>5 DEF EndTypeOK, SessionType
<1>7. OneTells(p)' /\ RestDone(p)'
  <2>1. CASE k.prior # conv[p]
    BY <1>4, <2>1 DEF When, OneTells, RestDone
  <2>2. CASE k.prior = conv[p]
    <3>1. fault'[p] = fault[p] /\ conv'[p] = conv[p]
      BY <1>4, <1>5, <2>2 DEF When
    <3>2. ConvOf(p)' = ConvOf(p) /\ ProspectOf(p)' = ProspectOf(p)
      BY <1>2, <3>1, SessionView DEF EndInv
    <3>3. ~Ends(session[s], p) /\ ~Ends(session'[s], p)
      BY <1>1, <1>3 DEF Ends, Asleep
    <3>4. QED
      BY <1>2, <1>3, <3>1, <3>2, <3>3, SessionElsewhere
  <2>3. QED
    BY <2>1, <2>2
<1>8. QED
  BY <1>1, <1>2, <1>3, <1>4, <1>5, <1>6, <1>7, AsleepType, SessionInv

\* An ended prospect is put back only with the fault recorded.
LEMMA PutProspectStep ==
  ASSUME QueueInv, EndInv, SessionWorker, NEW s \in Sessions, PutProspect(s)
  PROVE  EndInv'
<1>1. PICK p \in People, stage \in Stages :
        /\ prospect' = [prospect EXCEPT ![p] = stage]
        /\ Wrong(p, When(prospect[p] # "open" /\ stage # "ended", "again"))
  BY DEF PutProspect
<1>2. /\ UNCHANGED <<conv, row, session, told>> /\ EndTypeOK /\ session[s].pc = "idle"
      /\ calls' \in 0..MaxCalls
  BY CallingType DEF PutProspect, EndInv, Calling
<1>3. /\ fault' \in [People -> SUBSET Faults]
      /\ fault'[p] = fault[p] \cup When(prospect[p] # "open" /\ stage # "ended", "again")
      /\ \A q \in People : q # p => fault'[q] = fault[q]
  <2>1. When(prospect[p] # "open" /\ stage # "ended", "again") \in SUBSET Faults
    BY DEF When, Faults
  <2>2. QED
    BY <1>1, <1>2, <2>1, WrongType
<1>4. prospect'[p] = stage /\ \A q \in People : q # p => prospect'[q] = prospect[q]
  BY <1>1, <1>2 DEF EndTypeOK
<1>5. EndTypeOK'
  BY <1>1, <1>2, <1>3 DEF EndTypeOK
<1>6. OneTells(p) /\ RestDone(p)
  BY DEF EndInv
<1>7. ConvOf(p)' = ConvOf(p) /\ (stage = "ended" /\ "again" \notin fault[p] => ProspectOf(p)' = "ended")
  BY <1>2, <1>4, SessionView, Plain
<1>8. OneTells(p)'
  BY <1>2, <1>3, <1>6, <1>7 DEF OneTells
<1>9. RestDone(p)'
  <2>1. CASE stage = "ended"
    BY <1>2, <1>3, <1>6, <1>7, <2>1 DEF RestDone
  <2>2. CASE stage # "ended" /\ prospect[p] # "open"
    BY <1>3, <2>2 DEF When, RestDone
  <2>3. CASE stage # "ended" /\ prospect[p] = "open"
    <3>1. prospect'[p] = prospect[p]
      BY <1>4, <2>3 DEF Stages
    <3>2. ProspectOf(p)' = ProspectOf(p)
      BY <3>1, SessionView DEF EndInv
    <3>3. QED
      BY <1>2, <1>3, <1>6, <1>7, <3>2 DEF RestDone
  <2>4. QED
    BY <2>1, <2>2, <2>3
<1>10. QED
  BY <1>2, <1>3, <1>4, <1>5, <1>8, <1>9, SessionInv

-----------------------------------------------------------------------------
(* The conversations: steps of the workers. *)

\* Nobody goes to or comes from the prospect's files.
Away == \A w \in Workers : \/ worker'[w] = worker[w]
                           \/ worker[w].pc # "saveWrite" /\ worker'[w].pc # "saveWrite"

LEMMA AwayView ==
  ASSUME UNCHANGED <<conv, prospect>>, NEW q \in People, Away
  PROVE  /\ ConvOf(q)' = ConvOf(q) /\ ProspectOf(q)' = ProspectOf(q)
         /\ ConvSavers(q)' = ConvSavers(q) /\ ProspectSavers(q)' = ProspectSavers(q)
<1>1. /\ ConvSavers(q) \subseteq Workers /\ ProspectSavers(q) \subseteq Workers
      /\ ConvSavers(q)' \subseteq Workers /\ ProspectSavers(q)' \subseteq Workers
  BY DEF ConvSavers, ProspectSavers
<1>2. \A w \in Workers : /\ w \in ConvSavers(q)' <=> w \in ConvSavers(q)
                         /\ w \in ProspectSavers(q)' <=> w \in ProspectSavers(q)
  BY DEF Away, ConvSavers, ProspectSavers, Scrapes
<1>3. ConvSavers(q)' = ConvSavers(q) /\ ProspectSavers(q)' = ProspectSavers(q)
  BY <1>1, <1>2
<1>4. \A w \in ConvSavers(q) \cup ProspectSavers(q) : worker'[w].copy = worker[w].copy
  BY DEF Away, ConvSavers, ProspectSavers
<1>5. QED
  BY <1>3, <1>4, DueStays

LEMMA WorkerKeeps ==
  ASSUME EndInv, UNCHANGED endVars, Away
  PROVE  EndInv'
<1>1. EndTypeOK' /\ Priors'
  BY DEF EndInv, EndTypeOK, Priors, endVars
<1>2. ASSUME NEW q \in People
      PROVE  /\ ConvOf(q)' = ConvOf(q) /\ ProspectOf(q)' = ProspectOf(q)
             /\ ConvSavers(q)' = ConvSavers(q) /\ ProspectSavers(q)' = ProspectSavers(q)
  BY AwayView DEF endVars
<1>3. Truncated'
  BY <1>2 DEF EndInv, Truncated, endVars
<1>4. ASSUME NEW q \in People PROVE OneTells(q)' /\ RestDone(q)'
  <2>1. OneTells(q) /\ RestDone(q)
    BY DEF EndInv
  <2>2. QED
    BY <1>2, <2>1, Elsewhere DEF endVars
<1>5. QED
  BY <1>1, <1>3, <1>4 DEF EndInv

\* A worker that goes to a prospect's file, or comes from it.
LEMMA OneSaver ==
  ASSUME NEW w \in Workers, NEW k, Moved(w, k), NEW q \in People
  PROVE  /\ ConvSavers(q)' =
              (ConvSavers(q) \ {w}) \cup
                IF k.pc = "saveWrite" /\ k.mine /\ ~Scrapes(k.job) /\ PersonOf[k.job] = q THEN {w} ELSE {}
         /\ ProspectSavers(q)' =
              (ProspectSavers(q) \ {w}) \cup
                IF k.pc = "saveWrite" /\ k.mine /\ Scrapes(k.job) /\ PersonOf[k.job] = q THEN {w} ELSE {}
<1>1. worker'[w] = k /\ \A v \in Workers \ {w} : worker'[v] = worker[v]
  BY DEF Moved
<1>2. /\ ConvSavers(q) \subseteq Workers /\ ProspectSavers(q) \subseteq Workers
      /\ ConvSavers(q)' \subseteq Workers /\ ProspectSavers(q)' \subseteq Workers
  BY DEF ConvSavers, ProspectSavers
<1>3. \A v \in Workers \ {w} : /\ v \in ConvSavers(q)' <=> v \in ConvSavers(q)
                               /\ v \in ProspectSavers(q)' <=> v \in ProspectSavers(q)
  BY <1>1 DEF ConvSavers, ProspectSavers, Scrapes
<1>4. /\ w \in ConvSavers(q)' <=> k.pc = "saveWrite" /\ k.mine /\ ~Scrapes(k.job) /\ PersonOf[k.job] = q
      /\ w \in ProspectSavers(q)' <=> k.pc = "saveWrite" /\ k.mine /\ Scrapes(k.job) /\ PersonOf[k.job] = q
  BY <1>1 DEF ConvSavers, ProspectSavers, Scrapes
<1>5. QED
  BY <1>2, <1>3, <1>4

\* The others go on with their copies.
LEMMA OtherSavers ==
  ASSUME NEW w \in Workers, NEW k, Moved(w, k), NEW q \in People,
         w \notin ConvSavers(q) \cup ProspectSavers(q)
  PROVE  \A v \in ConvSavers(q) \cup ProspectSavers(q) : worker'[v].copy = worker[v].copy
BY DEF Moved, ConvSavers, ProspectSavers

\* The file that the worker truncates is going to hold its copy, and is no other worker's.
LEMMA TearsView ==
  ASSUME QueueInv, EndInv, NEW w \in Workers, JobTears(w), worker[w].copy # "blank", NEW q \in People,
         "again" \notin fault'[q]
  PROVE  /\ ConvOf(q)' = ConvOf(q) /\ ProspectOf(q)' = ProspectOf(q)
         /\ \A v \in ConvSavers(q)' : conv'[q] = "torn" /\ ConvSavers(q)' = {v}
         /\ \A v \in ProspectSavers(q)' : prospect'[q] = "torn" /\ ProspectSavers(q)' = {v}
<1>1. worker[w] \in WorkerType /\ worker[w].pc = "saveOpen" /\ worker[w].job \in Jobs /\ EndTypeOK
  BY WorkerFields DEF JobTears, SaveOpen, QueueInv, EndInv
<1>2. PICK j \in Jobs, p \in People, c \in {worker[w].copy} : worker[w].job = j /\ PersonOf[j] = p
  BY <1>1, JobsOfPeople
<1>3. c \in Stages
  BY <1>1, <1>2, JobsOfPeople DEF QueueInv, Hands, CopyOK, Stages
<1>4. PICK k \in WorkerType : Becomes(w, k) /\ k.pc = "saveWrite" /\ k.mine /\ k.job = j /\ k.copy = c
  <2> DEFINE m == [worker[w] EXCEPT !.pc = "saveWrite", !.mine = TRUE]
  <2>1. m \in WorkerType /\ m.pc = "saveWrite" /\ m.mine /\ m.job = j /\ m.copy = c
    BY <1>1, <1>2 DEF WorkerType, Working
  <2>2. QED
    BY <2>1 DEF JobTears, SaveOpen, Proceeds
<1>5. Moved(w, k) /\ worker'[w] = k
  <2>1. Moved(w, k)
    BY <1>4, Moves DEF QueueInv
  <2>2. QED
    BY <2>1 DEF Moved
<1>6. Holds(j, "torn") /\ Wrong(p, When(Content(j) # c, "again"))
  BY <1>2 DEF JobTears
<1>7. /\ conv'[q] = (IF q = p /\ ~Scrapes(j) THEN "torn" ELSE conv[q])
      /\ prospect'[q] = (IF q = p /\ Scrapes(j) THEN "torn" ELSE prospect[q])
  BY <1>1, <1>2, <1>6 DEF Holds, EndTypeOK
<1>8. "again" \notin fault[q] /\ (q = p => Content(j) = c)
  <2>1. When(Content(j) # c, "again") \in SUBSET Faults
    BY DEF When, Faults
  <2>2. /\ fault'[p] = fault[p] \cup When(Content(j) # c, "again")
        /\ \A r \in People : r # p => fault'[r] = fault[r]
    BY <1>1, <1>6, <2>1, WrongType
  <2>3. QED
    BY <2>2 DEF When
<1>9. w \notin ConvSavers(q) \cup ProspectSavers(q)
  BY <1>1 DEF ConvSavers, ProspectSavers
<1>10. /\ ConvSavers(q)' = ConvSavers(q) \cup IF q = p /\ ~Scrapes(j) THEN {w} ELSE {}
       /\ ProspectSavers(q)' = ProspectSavers(q) \cup IF q = p /\ Scrapes(j) THEN {w} ELSE {}
  BY <1>2, <1>4, <1>5, <1>9, OneSaver
<1>11. /\ \A v \in ConvSavers(q) : conv[q] = "torn" /\ ConvSavers(q) = {v}
       /\ \A v \in ProspectSavers(q) : prospect[q] = "torn" /\ ProspectSavers(q) = {v}
  BY <1>8 DEF EndInv, Truncated
<1>12. \A v \in ConvSavers(q) \cup ProspectSavers(q) : worker'[v].copy = worker[v].copy
  BY <1>5, <1>9, OtherSavers
<1>13. CASE q = p /\ ~Scrapes(j)
  <2>1. conv[q] = c /\ c # "torn"
    BY <1>2, <1>3, <1>8, <1>13 DEF Content, Stages
  <2>2. ConvSavers(q) = {} /\ ConvOf(q) = c
    BY <1>11, <2>1, DueOf
  <2>3. ConvSavers(q)' = {w} /\ ProspectSavers(q)' = ProspectSavers(q) /\ prospect'[q] = prospect[q] /\ conv'[q] = "torn"
    BY <1>7, <1>10, <1>13, <2>2
  <2>4. ConvOf(q)' = c
    <3>1. (CHOOSE v \in {w} : TRUE) = w
      OBVIOUS
    <3>2. QED
      BY <1>4, <1>5, <2>3, <3>1 DEF ConvOf, Due
  <2>5. QED
    BY <1>11, <1>12, <2>2, <2>3, <2>4, DueStays
<1>14. CASE q = p /\ Scrapes(j)
  <2>1. prospect[q] = c /\ c # "torn"
    BY <1>2, <1>3, <1>8, <1>14 DEF Content, Stages
  <2>2. ProspectSavers(q) = {} /\ ProspectOf(q) = c
    BY <1>11, <2>1, DueOf
  <2>3. ProspectSavers(q)' = {w} /\ ConvSavers(q)' = ConvSavers(q) /\ conv'[q] = conv[q] /\ prospect'[q] = "torn"
    BY <1>7, <1>10, <1>14, <2>2
  <2>4. ProspectOf(q)' = c
    <3>1. (CHOOSE v \in {w} : TRUE) = w
      OBVIOUS
    <3>2. QED
      BY <1>4, <1>5, <2>3, <3>1 DEF ProspectOf, Due
  <2>5. QED
    BY <1>11, <1>12, <2>2, <2>3, <2>4, DueStays
<1>15. CASE q # p
  <2>1. /\ ConvSavers(q)' = ConvSavers(q) /\ ProspectSavers(q)' = ProspectSavers(q)
        /\ conv'[q] = conv[q] /\ prospect'[q] = prospect[q]
    BY <1>7, <1>10, <1>15
  <2>2. QED
    BY <1>11, <1>12, <2>1, DueStays
<1>16. QED
  BY <1>13, <1>14, <1>15

LEMMA JobTearsStep ==
  ASSUME QueueInv, EndInv, NEW w \in Workers, JobTears(w) PROVE EndInv'
<1>1. worker[w] \in WorkerType /\ worker[w].pc = "saveOpen" /\ worker[w].job \in Jobs /\ EndTypeOK
  BY WorkerFields DEF JobTears, SaveOpen, QueueInv, EndInv
<1>2. PICK j \in Jobs, p \in People : worker[w].job = j /\ PersonOf[j] = p
  BY <1>1, JobsOfPeople
<1>3. CASE worker[w].copy = "blank"
  <2>1. Becomes(w, Verdict(w, FALSE)) /\ UNCHANGED endVars
    BY <1>3 DEF JobTears, SaveOpen, Proceeds
  <2>2. PICK k \in WorkerType : k = Verdict(w, FALSE) /\ k.pc = "record" /\ k.job = j
    BY <1>2, VerdictIs
  <2>3. Moved(w, k)
    BY <2>1, <2>2, Moves DEF QueueInv
  <2>4. Away
    BY <1>1, <2>2, <2>3 DEF Away, Moved
  <2>5. QED
    BY <2>1, <2>4, WorkerKeeps
<1>4. CASE worker[w].copy # "blank"
  <2> DEFINE F == When(Content(j) # worker[w].copy, "again")
  <2>1. Holds(j, "torn") /\ Wrong(p, F) /\ UNCHANGED <<row, session, calls, told>>
    BY <1>2, <1>4 DEF JobTears
  <2>2. /\ fault' \in [People -> SUBSET Faults] /\ fault'[p] = fault[p] \cup F
        /\ \A q \in People : q # p => fault'[q] = fault[q]
    <3>1. F \in SUBSET Faults
      BY DEF When, Faults
    <3>2. QED
      BY <1>1, <2>1, <3>1, WrongType
  <2>3. "again" \notin fault'[p] => fault'[p] = fault[p]
    BY <2>2 DEF When
  <2> HIDE DEF F
  <2>4. EndTypeOK'
    BY <1>1, <1>2, <2>1, <2>2 DEF Holds, EndTypeOK
  <2>5. Truncated'
    BY <1>4, TearsView DEF Truncated
  <2>6. Priors'
    BY <2>1 DEF EndInv, Priors
  <2>7. ASSUME NEW q \in People PROVE OneTells(q)' /\ RestDone(q)'
    <3>1. CASE "again" \in fault'[q]
      BY <3>1, Vacuous
    <3>2. CASE "again" \notin fault'[q]
      <4>1. fault'[q] = fault[q]
        BY <2>2, <2>3, <3>2
      <4>2. ConvOf(q)' = ConvOf(q) /\ ProspectOf(q)' = ProspectOf(q)
        BY <1>4, <3>2, TearsView
      <4>3. OneTells(q) /\ RestDone(q) /\ UNCHANGED <<row, session, told>>
        BY <2>1 DEF EndInv
      <4>4. QED
        BY <4>1, <4>2, <4>3, Elsewhere
    <3>3. QED
      BY <3>1, <3>2
  <2>8. QED
    BY <2>4, <2>5, <2>6, <2>7 DEF EndInv
<1>5. QED
  BY <1>3, <1>4

\* The worker's write leaves in the file what the file was going to hold.
LEMMA SavesView ==
  ASSUME QueueInv, EndInv, NEW w \in Workers, JobSaves(w), NEW q \in People, "again" \notin fault[q]
  PROVE  /\ ConvOf(q)' = ConvOf(q) /\ ProspectOf(q)' = ProspectOf(q)
         /\ \A v \in ConvSavers(q)' : conv'[q] = "torn" /\ ConvSavers(q)' = {v}
         /\ \A v \in ProspectSavers(q)' : prospect'[q] = "torn" /\ ProspectSavers(q)' = {v}
<1>1. worker[w] \in WorkerType /\ worker[w].pc = "saveWrite" /\ worker[w].job \in Jobs /\ EndTypeOK
  BY WorkerFields DEF JobSaves, SaveWrite, QueueInv, EndInv
<1>2. PICK j \in Jobs, p \in People, c \in {worker[w].copy} : worker[w].job = j /\ PersonOf[j] = p
  BY <1>1, JobsOfPeople
<1>3. PICK k \in WorkerType : Becomes(w, k) /\ k.pc = "record" /\ k.job = j
  <2>1. PICK ok \in BOOLEAN : Becomes(w, [Verdict(w, ok) EXCEPT !.mine = FALSE])
    BY DEF JobSaves, SaveWrite, Proceeds
  <2>2. PICK v \in WorkerType : v = Verdict(w, ok) /\ v.pc = "record" /\ v.job = j
    BY <1>2, VerdictIs
  <2> DEFINE m == [v EXCEPT !.mine = FALSE]
  <2>3. m \in WorkerType /\ m.pc = "record" /\ m.job = j
    BY <2>2 DEF WorkerType
  <2>4. QED
    BY <2>1, <2>2, <2>3
<1>4. Moved(w, k)
  BY <1>3, Moves DEF QueueInv
<1>5. ConvSavers(q)' = ConvSavers(q) \ {w} /\ ProspectSavers(q)' = ProspectSavers(q) \ {w}
  BY <1>3, <1>4, OneSaver
<1>6. /\ \A v \in ConvSavers(q) : conv[q] = "torn" /\ ConvSavers(q) = {v}
      /\ \A v \in ProspectSavers(q) : prospect[q] = "torn" /\ ProspectSavers(q) = {v}
  BY DEF EndInv, Truncated
<1>7. /\ w \in ConvSavers(q) <=> worker[w].mine /\ q = p /\ ~Scrapes(j)
      /\ w \in ProspectSavers(q) <=> worker[w].mine /\ q = p /\ Scrapes(j)
  BY <1>1, <1>2 DEF ConvSavers, ProspectSavers
<1>8. \/ worker[w].mine /\ Holds(j, c)
      \/ worker[w].mine /\ Content(j) # "torn" /\ Holds(j, "torn")
      \/ ~(worker[w].mine /\ Content(j) = "torn") /\ UNCHANGED <<conv, prospect>>
  BY <1>2 DEF JobSaves
<1>9. CASE w \in ConvSavers(q)
  <2>1. /\ conv[q] = "torn" /\ ConvSavers(q) = {w} /\ q = p /\ ~Scrapes(j) /\ worker[w].mine
        /\ w \notin ProspectSavers(q)
    BY <1>6, <1>7, <1>9
  <2>2. Holds(j, c)
    BY <1>2, <1>8, <2>1 DEF Content
  <2>3. conv'[q] = c /\ prospect'[q] = prospect[q]
    BY <1>1, <1>2, <2>1, <2>2 DEF Holds, EndTypeOK
  <2>4. ConvOf(q) = c
    BY <1>2, <2>1, DueOf
  <2>5. ConvSavers(q)' = {} /\ ProspectSavers(q)' = ProspectSavers(q)
    BY <1>5, <2>1
  <2>6. ConvOf(q)' = c
    BY <2>3, <2>5 DEF ConvOf, Due
  <2>7. ProspectOf(q)' = ProspectOf(q)
    <3>1. ProspectSavers(q)' = {} => ProspectOf(q)' = prospect'[q]
      BY DEF ProspectOf, Due
    <3>2. ASSUME NEW v \in ProspectSavers(q) PROVE ProspectOf(q)' = ProspectOf(q)
      <4>1. v \in Workers /\ v # w /\ worker'[v] = worker[v] /\ ProspectSavers(q) = {v} /\ ProspectSavers(q)' = {v}
        BY <1>4, <1>6, <2>1, <2>5 DEF Moved, ProspectSavers
      <4>2. ProspectOf(q) = worker[v].copy
        BY <4>1, DueOf
      <4>3. (CHOOSE u \in {v} : TRUE) = v
        OBVIOUS
      <4>4. ProspectOf(q)' = worker'[v].copy
        BY <4>1, <4>3 DEF ProspectOf, Due
      <4>5. QED
        BY <4>1, <4>2, <4>4
    <3>3. QED
      BY <2>3, <2>5, <3>1, <3>2, DueOf
  <2>8. QED
    BY <1>6, <2>3, <2>4, <2>5, <2>6, <2>7
<1>10. CASE w \in ProspectSavers(q)
  <2>1. /\ prospect[q] = "torn" /\ ProspectSavers(q) = {w} /\ q = p /\ Scrapes(j) /\ worker[w].mine
        /\ w \notin ConvSavers(q)
    BY <1>6, <1>7, <1>10
  <2>2. Holds(j, c)
    BY <1>2, <1>8, <2>1 DEF Content
  <2>3. prospect'[q] = c /\ conv'[q] = conv[q]
    BY <1>1, <1>2, <2>1, <2>2 DEF Holds, EndTypeOK
  <2>4. ProspectOf(q) = c
    BY <1>2, <2>1, DueOf
  <2>5. ProspectSavers(q)' = {} /\ ConvSavers(q)' = ConvSavers(q)
    BY <1>5, <2>1
  <2>6. ProspectOf(q)' = c
    BY <2>3, <2>5 DEF ProspectOf, Due
  <2>7. ConvOf(q)' = ConvOf(q)
    <3>1. ConvSavers(q)' = {} => ConvOf(q)' = conv'[q]
      BY DEF ConvOf, Due
    <3>2. ASSUME NEW v \in ConvSavers(q) PROVE ConvOf(q)' = ConvOf(q)
      <4>1. v \in Workers /\ v # w /\ worker'[v] = worker[v] /\ ConvSavers(q) = {v} /\ ConvSavers(q)' = {v}
        BY <1>4, <1>6, <2>1, <2>5 DEF Moved, ConvSavers
      <4>2. ConvOf(q) = worker[v].copy
        BY <4>1, DueOf
      <4>3. (CHOOSE u \in {v} : TRUE) = v
        OBVIOUS
      <4>4. ConvOf(q)' = worker'[v].copy
        BY <4>1, <4>3 DEF ConvOf, Due
      <4>5. QED
        BY <4>1, <4>2, <4>4
    <3>3. QED
      BY <2>3, <2>5, <3>1, <3>2, DueOf
  <2>8. QED
    BY <1>6, <2>3, <2>4, <2>5, <2>6, <2>7
<1>11. CASE w \notin ConvSavers(q) \cup ProspectSavers(q)
  <2>1. conv'[q] = conv[q] /\ prospect'[q] = prospect[q]
    BY <1>1, <1>2, <1>7, <1>8, <1>11 DEF Holds, EndTypeOK
  <2>2. ConvSavers(q)' = ConvSavers(q) /\ ProspectSavers(q)' = ProspectSavers(q)
    BY <1>5, <1>11
  <2>3. \A v \in ConvSavers(q) \cup ProspectSavers(q) : worker'[v].copy = worker[v].copy
    BY <1>4, <1>11, OtherSavers
  <2>4. QED
    BY <1>6, <2>1, <2>2, <2>3, DueStays
<1>12. QED
  BY <1>9, <1>10, <1>11

LEMMA JobSavesStep ==
  ASSUME QueueInv, EndInv, NEW w \in Workers, JobSaves(w) PROVE EndInv'
<1>1. worker[w].pc = "saveWrite" /\ worker[w].job \in Jobs
  BY WorkerFields DEF JobSaves, SaveWrite, QueueInv
<1>2. PICK j \in Jobs, p \in People : worker[w].job = j /\ PersonOf[j] = p
  BY <1>1, JobsOfPeople
<1>3. worker[w].copy \in Stages /\ EndTypeOK /\ UNCHANGED <<row, session, calls, told, fault>>
  BY <1>1 DEF JobSaves, QueueInv, Hands, CopyOK, EndInv
<1>4. EndTypeOK'
  <2>1. \/ Holds(j, worker[w].copy)
        \/ Holds(j, "torn")
        \/ UNCHANGED <<conv, prospect>>
    BY <1>2 DEF JobSaves
  <2>2. ASSUME NEW x \in Stages \cup {"torn"}, Holds(j, x) PROVE EndTypeOK'
    BY <1>2, <1>3, <2>2 DEF Holds, EndTypeOK
  <2>3. ASSUME UNCHANGED <<conv, prospect>> PROVE EndTypeOK'
    BY <1>3, <2>3 DEF EndTypeOK
  <2>4. QED
    BY <1>3, <2>1, <2>2, <2>3
<1>5. Truncated'
  BY <1>3, SavesView DEF Truncated
<1>6. Priors'
  BY <1>3 DEF EndInv, Priors
<1>7. ASSUME NEW q \in People PROVE OneTells(q)' /\ RestDone(q)'
  <2>1. "again" \notin fault[q] => ConvOf(q)' = ConvOf(q) /\ ProspectOf(q)' = ProspectOf(q)
    BY SavesView
  <2>2. OneTells(q) /\ RestDone(q)
    BY DEF EndInv
  <2>3. QED
    BY <1>3, <2>1, <2>2, Elsewhere
<1>8. QED
  BY <1>4, <1>5, <1>6, <1>7 DEF EndInv

\* The file the worker was writing stays torn.
LEMMA KilledStep ==
  ASSUME QueueInv, EndInv, NEW w \in Workers, Killed(w) PROVE EndInv'
<1>1. worker[w] \in WorkerType /\ EndTypeOK /\ UNCHANGED <<conv, prospect, row, session, calls, told>>
  BY WorkerFields DEF Killed, QueueInv, EndInv
<1>2. Moved(w, Off)
  BY PollingType, Moves DEF Killed, Kill, QueueInv
<1>3. CASE worker[w].pc # "saveWrite"
  <2>1. Away
    BY <1>2, <1>3, PollingType DEF Away, Moved
  <2>2. UNCHANGED endVars
    BY <1>1, <1>3 DEF Killed, endVars
  <2>3. QED
    BY <2>1, <2>2, WorkerKeeps
<1>4. CASE worker[w].pc = "saveWrite"
  <2>1. PICK j \in Jobs, p \in People : worker[w].job = j /\ PersonOf[j] = p
    BY <1>4, WorkerFields, JobsOfPeople DEF QueueInv
  <2>2. /\ fault' \in [People -> SUBSET Faults] /\ fault'[p] = fault[p] \cup {"short"}
        /\ \A q \in People : q # p => fault'[q] = fault[q]
    <3>1. {"short"} \in SUBSET Faults
      BY DEF Faults
    <3>2. Wrong(p, {"short"})
      BY <1>4, <2>1 DEF Killed
    <3>3. QED
      BY <1>1, <3>1, <3>2, WrongType
  <2>3. \A q \in People : ConvSavers(q)' = ConvSavers(q) \ {w} /\ ProspectSavers(q)' = ProspectSavers(q) \ {w}
    BY <1>2, PollingType, OneSaver
  <2>4. Truncated'
    <3>1. ASSUME NEW q \in People, "again" \notin fault'[q]
          PROVE  /\ \A v \in ConvSavers(q)' : conv'[q] = "torn" /\ ConvSavers(q)' = {v}
                 /\ \A v \in ProspectSavers(q)' : prospect'[q] = "torn" /\ ProspectSavers(q)' = {v}
      <4>1. "again" \notin fault[q]
        BY <2>2, <3>1
      <4>2. /\ \A v \in ConvSavers(q) : conv[q] = "torn" /\ ConvSavers(q) = {v}
            /\ \A v \in ProspectSavers(q) : prospect[q] = "torn" /\ ProspectSavers(q) = {v}
        BY <4>1 DEF EndInv, Truncated
      <4>3. QED
        BY <1>1, <2>3, <4>2
    <3>2. QED
      BY <3>1 DEF Truncated
  <2>5. EndTypeOK' /\ Priors'
    BY <1>1, <2>2 DEF EndTypeOK, EndInv, Priors
  <2>6. ASSUME NEW q \in People PROVE OneTells(q)' /\ RestDone(q)'
    <3>1. OneTells(q) /\ RestDone(q)
      BY DEF EndInv
    <3>2. CASE w \notin ConvSavers(q) \cup ProspectSavers(q)
      <4>1. ConvSavers(q)' = ConvSavers(q) /\ ProspectSavers(q)' = ProspectSavers(q)
        BY <2>3, <3>2
      <4>2. \A v \in ConvSavers(q) \cup ProspectSavers(q) : worker'[v].copy = worker[v].copy
        BY <1>2, <3>2, OtherSavers
      <4>3. ConvOf(q)' = ConvOf(q) /\ ProspectOf(q)' = ProspectOf(q)
        BY <1>1, <4>1, <4>2, DueStays
      <4>4. CASE q # p
        BY <1>1, <2>2, <3>1, <4>3, <4>4, Elsewhere
      <4>5. CASE q = p
        <5>1. OneTells(q)'
          BY <1>1, <2>2, <3>1, <4>3, <4>5 DEF OneTells
        <5>2. RestDone(q)'
          BY <2>2, <4>5 DEF RestDone
        <5>3. QED
          BY <5>1, <5>2
      <4>6. QED
        BY <4>4, <4>5
    <3>3. CASE w \in ConvSavers(q) \cup ProspectSavers(q)
      <4>1. q = p
        BY <2>1, <3>3 DEF ConvSavers, ProspectSavers
      <4>2. RestDone(q)'
        BY <2>2, <4>1 DEF RestDone
      <4>3. CASE "again" \in fault[q]
        BY <2>2, <4>1, <4>3, Vacuous
      <4>4. CASE "again" \notin fault[q]
        <5>1. /\ \A v \in ConvSavers(q) : conv[q] = "torn" /\ ConvSavers(q) = {v}
          BY <4>4 DEF EndInv, Truncated
        <5>2. ConvOf(q)' = "open" => ConvOf(q) = "open"
          <6>1. CASE w \in ConvSavers(q)
            <7>1. ConvSavers(q)' = {} /\ conv'[q] = "torn"
              BY <1>1, <2>3, <5>1, <6>1
            <7>2. ConvOf(q)' = "torn"
              BY <7>1 DEF ConvOf, Due
            <7>3. QED
              BY <7>2
          <6>2. CASE w \notin ConvSavers(q)
            <7>1. ConvSavers(q)' = ConvSavers(q)
              BY <2>3, <6>2
            <7>2. \A v \in ConvSavers(q) : worker'[v].copy = worker[v].copy
              BY <1>2, <6>2 DEF Moved, ConvSavers
            <7>3. \A W : W # {} => (CHOOSE v \in W : TRUE) \in W
              OBVIOUS
            <7>4. ConvOf(q)' = ConvOf(q)
              BY <1>1, <7>1, <7>2, <7>3 DEF ConvOf, Due
            <7>5. QED
              BY <7>4
          <6>3. QED
            BY <6>1, <6>2
        <5>3. OneTells(q)'
          BY <1>1, <2>2, <3>1, <4>1, <5>2 DEF OneTells
        <5>4. QED
          BY <4>2, <5>3
      <4>5. QED
        BY <4>3, <4>4
    <3>4. QED
      BY <3>2, <3>3
  <2>7. QED
    BY <2>4, <2>5, <2>6 DEF EndInv
<1>5. QED
  BY <1>3, <1>4

-----------------------------------------------------------------------------
(* Both together. *)

LEMMA SessionStepInv ==
  ASSUME IInv, NEW s \in Sessions, SessionStep(s) PROVE IInv'
<1>1. QueueInv /\ EndInv /\ SessionWorker
  BY DEF IInv, SessionStep, SessionWorker
<1>2. EndInv'
  BY <1>1, UpsertReadStep, UpsertWriteStep, MarkRowStep, SyncProspectStep, NotifyStep,
     MeetReadStep, MeetWriteStep, PutProspectStep, SessionDiesStep
     DEF SessionStep, ReplacesConv, ReplacesProspect, ReplacesNeither
<1>3. QueueInv'
  <2>1. UNCHANGED <<pending, completed, failed, torn, due, starts, edit, edits, asked, acted, said, hit>>
    BY DEF SessionStep
  <2>2. PICK C \in SUBSET Workers : \A w \in Workers : w \in C <=> CutOff(w)
    <3>1. {w \in Workers : CutOff(w)} \in SUBSET Workers
      OBVIOUS
    <3>2. QED
      BY <3>1
  <2>3. \A w \in C : worker[w].pc = "saveWrite"
    BY <2>2 DEF CutOff
  <2>4. worker' = [w \in Workers |-> IF w \in C THEN [worker[w] EXCEPT !.mine = FALSE] ELSE worker[w]]
    BY <1>1, <2>2 DEF SessionWorker
  <2>5. QED
    BY <1>1, <2>1, <2>3, <2>4, CutOffStep
<1>4. QED
  BY <1>2, <1>3 DEF IInv

\* What the handler loads is what it can put into shape.
LEMMA LoadedIsShaped ==
  ASSUME IInv, NEW j \in Jobs, Readable(j)
  PROVE  Content(j) \in Contents
BY JobsOfPeople DEF IInv, EndInv, EndTypeOK, Readable, Content, Stages

LEMMA AwayByMove ==
  ASSUME QueueInv, NEW w \in Workers, NEW k, Becomes(w, k),
         worker[w].pc # "saveWrite", k.pc # "saveWrite"
  PROVE  Away
<1>1. worker \in [Workers -> WorkerType] /\ worker' = [worker EXCEPT ![w] = k]
  BY DEF QueueInv, QueueTypeOK, Becomes
<1>2. worker'[w] = k /\ \A v \in Workers \ {w} : worker'[v] = worker[v]
  BY <1>1
<1>3. QED
  BY <1>2 DEF Away

\* Only JobTears and JobSaves write a prospect's file; where else a worker is.
LEMMA AwayFromSave ==
  ASSUME QueueInv, NEW w \in Workers, WorkerAlone(w) \/ JobLoads(w)
  PROVE  Away
<1>1. worker[w] \in WorkerType
  BY WorkerFields DEF QueueInv
<1>2. /\ Verdict(w, FALSE).pc = "record" /\ Polling.pc = "poll" /\ Off.pc = "off"
      /\ Popped(w).pc = "load"
  BY <1>1 DEF Verdict, Popped, Polling, Off, WorkerType
<1>3. CASE PopLoad(w)
  <2>1. ASSUME NEW j \in Ready,
               Becomes(w, [worker[w] EXCEPT !.pc = "popOpen", !.job = j, !.rest = pending \ {j}])
        PROVE  Away
    <3>1. [worker[w] EXCEPT !.pc = "popOpen", !.job = j, !.rest = pending \ {j}].pc = "popOpen"
      BY <1>1 DEF WorkerType
    <3>2. QED
      BY <1>3, <2>1, <3>1, AwayByMove DEF PopLoad
  <2>2. QED
    BY <1>2, <1>3, <2>1, AwayByMove DEF PopLoad
<1>4. CASE PopOpen(w)
  <2>1. [worker[w] EXCEPT !.pc = "popWrite", !.mine = TRUE].pc = "popWrite"
    BY <1>1 DEF WorkerType
  <2>2. QED
    BY <1>4, <2>1, AwayByMove DEF PopOpen
<1>5. CASE PopWrite(w)
  BY <1>2, <1>5, AwayByMove DEF PopWrite
<1>6. CASE Act(w)
  <2>1. [worker[w] EXCEPT !.pc = "saveOpen"].pc = "saveOpen"
    BY <1>1 DEF WorkerType
  <2>2. QED
    BY <1>2, <1>6, <2>1, AwayByMove DEF Act, Proceeds
<1>7. CASE RecordLoad(w)
  <2>1. [worker[w] EXCEPT !.pc = "recordOpen", !.rest = Filed(w)].pc = "recordOpen"
    BY <1>1 DEF WorkerType
  <2>2. QED
    BY <1>2, <1>7, <2>1, AwayByMove DEF RecordLoad
<1>8. CASE RecordOpen(w)
  <2>1. [worker[w] EXCEPT !.pc = "recordWrite"].pc = "recordWrite"
    BY <1>1 DEF WorkerType
  <2>2. QED
    BY <1>8, <2>1, AwayByMove DEF RecordOpen
<1>9. CASE RecordWrite(w)
  BY <1>2, <1>9, AwayByMove DEF RecordWrite
<1>10. CASE JobLoads(w)
  <2>1. [worker[w] EXCEPT !.pc = "act", !.copy = Content(worker[w].job)].pc = "act"
    BY <1>1 DEF WorkerType
  <2>2. QED
    BY <1>2, <1>10, <2>1, AwayByMove DEF JobLoads, HandlerLoad, Proceeds
<1>11. QED
  BY <1>3, <1>4, <1>5, <1>6, <1>7, <1>8, <1>9, <1>10 DEF WorkerAlone

LEMMA AwayOthers ==
  ASSUME QueueInv, OthersAlone \/ \E p \in People : RemovePendingEntry(p)
  PROVE  Away
<1>1. ASSUME NEW S, Replace(S) PROVE Away
  <2>1. ASSUME NEW w \in Workers, worker[w].pc = "popWrite" PROVE worker'[w].pc # "saveWrite"
    <3>1. worker[w] \in WorkerType /\ worker'[w] = [worker[w] EXCEPT !.mine = FALSE]
      BY <1>1, <2>1, WorkerFields DEF Replace, QueueInv
    <3>2. QED
      BY <2>1, <3>1 DEF WorkerType
  <2>2. \A w \in Workers : worker[w].pc # "popWrite" => worker'[w] = worker[w]
    BY <1>1 DEF Replace
  <2>3. QED
    BY <2>1, <2>2 DEF Away
<1>2. ASSUME NEW w \in Workers, Start(w) \/ Stop(w) PROVE Away
  BY <1>2, PollingType, AwayByMove DEF Start, Stop
<1>3. ASSUME EditLoad \/ EditDrop \/ \E j \in Jobs : BecomesDue(j) PROVE Away
  BY <1>3 DEF EditLoad, EditDrop, BecomesDue, Away
<1>4. ASSUME \E j \in Jobs : AddJob(j) PROVE Away
  BY <1>1, <1>4 DEF AddJob
<1>5. ASSUME \E p \in People : RemovePendingEntry(p) PROVE Away
  BY <1>1, <1>5 DEF RemovePendingEntry, RemoveJobs
<1>6. QED
  BY <1>2, <1>3, <1>4, <1>5 DEF OthersAlone

LEMMA WorkerStepInv ==
  ASSUME IInv, NEW w \in Workers, WorkerStep(w) PROVE IInv'
<1>1. QueueInv /\ EndInv
  BY DEF IInv
<1>2. CASE WorkerAlone(w) /\ UNCHANGED endVars
  <2>1. QueueInv'
    BY <1>1, <1>2, PopLoadStep, PopOpenStep, PopWriteStep, ActStep, RecordLoadStep, RecordOpenStep,
       RecordWriteStep DEF WorkerAlone
  <2>2. Away
    BY <1>1, <1>2, AwayFromSave
  <2>3. QED
    BY <1>1, <1>2, <2>1, <2>2, WorkerKeeps DEF IInv
<1>3. CASE JobLoads(w)
  <2>1. worker[w].pc = "load" /\ worker[w].job \in Jobs
    BY <1>1, <1>3, WorkerFields DEF JobLoads, HandlerLoad, QueueInv
  <2>2. Readable(worker[w].job) => Content(worker[w].job) \in Contents
    BY <2>1, LoadedIsShaped
  <2>3. QueueInv'
    BY <1>1, <1>3, <2>2, HandlerLoadStep DEF JobLoads
  <2>4. QED
    BY <1>1, <1>3, <2>3, AwayFromSave, WorkerKeeps DEF JobLoads, IInv
<1>4. CASE JobTears(w)
  <2>1. QueueInv'
    BY <1>1, <1>4, SaveOpenStep DEF JobTears
  <2>2. QED
    BY <1>1, <1>4, <2>1, JobTearsStep DEF IInv
<1>5. CASE JobSaves(w)
  BY <1>1, <1>5, SaveWriteStep, JobSavesStep DEF JobSaves, IInv
<1>6. QED
  BY <1>2, <1>3, <1>4, <1>5 DEF WorkerStep

\* The operator and the sessions at the queue: no worker holds a prospect's file anew.
LEMMA OthersStepInv ==
  ASSUME IInv,
         \/ OthersAlone /\ UNCHANGED endVars
         \/ \E p \in People : RemovePendingEntry(p)
  PROVE  IInv'
<1>1. QueueInv /\ EndInv
  BY DEF IInv
<1>2. CASE OthersAlone /\ UNCHANGED endVars
  <2>1. QueueInv'
    BY <1>1, <1>2, StartStep, StopStep, EditLoadStep, EditDropStep, BecomesDueStep, AddJobStep
       DEF OthersAlone
  <2>2. QED
    BY <1>1, <1>2, <2>1, AwayOthers, WorkerKeeps DEF IInv
<1>3. CASE \E p \in People : RemovePendingEntry(p)
  <2>1. PICK p \in People : RemovePendingEntry(p)
    BY <1>3
  <2>2. QueueInv'
    BY <1>1, <2>1, RemoveJobsStep DEF RemovePendingEntry
  <2>3. QED
    BY <1>1, <2>1, <2>2, AwayOthers, WorkerKeeps DEF RemovePendingEntry, IInv
<1>4. QED
  BY <1>2, <1>3

LEMMA KilledStepInv ==
  ASSUME IInv, NEW w \in Workers, Killed(w) PROVE IInv'
BY KillStep, KilledStep DEF IInv, Killed

LEMMA StutterInv ==
  ASSUME IInv, UNCHANGED vars PROVE IInv'
<1>1. QueueInv /\ EndInv /\ UNCHANGED queueVars /\ UNCHANGED endVars
  BY DEF IInv, vars
<1>2. QueueInv'
  <2>1. QueueTypeOK'
    BY <1>1 DEF queueVars, QueueInv, QueueTypeOK
  <2>2. QED
    BY <1>1, <2>1, StillStep DEF queueVars
<1>3. Away
  BY <1>1 DEF queueVars, Away
<1>4. QED
  BY <1>1, <1>2, <1>3, WorkerKeeps DEF IInv

LEMMA InitInv ==
  ASSUME Init PROVE IInv
<1>1. worker \in [Workers -> WorkerType] /\ \A w \in Workers : worker[w].pc = "off" /\ worker[w] = Off
  BY PollingType DEF Init, QueueInit
<1>2. QueueTypeOK
  BY <1>1, JobAssumption, QueueBounds DEF Init, QueueInit, QueueTypeOK
<1>3. Writers = {}
  BY <1>1 DEF Writers
<1>4. Hands
  BY <1>1, <1>3 DEF Hands, CopyOK, PopOK, FileOK
<1>5. Queue = First
  BY <1>3 DEF Queue, Init, QueueInit
<1>6. ASSUME NEW j \in Jobs PROVE Place(j) /\ Progress(j)
  <2>1. \A w \in Workers : ~Held(w, j)
    BY <1>1 DEF Held, Working
  <2>2. Place(j)
    BY <1>5, <2>1 DEF Place, InHand, Init, QueueInit
  <2>3. Progress(j)
    BY <2>1 DEF Progress, Init, QueueInit
  <2>4. QED
    BY <2>2, <2>3
<1>7. EndTypeOK
  BY MaxCallsAssumption DEF Init, EndInit, EndTypeOK, Asleep, Stages, Faults
<1>8. \A q \in People : ConvSavers(q) = {} /\ ProspectSavers(q) = {}
  BY <1>1 DEF ConvSavers, ProspectSavers
<1>9. \A q \in People : ConvOf(q) = "open" /\ ProspectOf(q) = "open"
  BY <1>8, DueOf DEF Init, EndInit
<1>10. Truncated /\ Priors
  BY <1>8 DEF Init, EndInit, Truncated, Priors, Asleep
<1>11. \A q \in People : OneTells(q) /\ RestDone(q)
  BY <1>9 DEF Init, EndInit, OneTells, RestDone, Ends, Tells, Asleep, Stages
<1>12. QED
  BY <1>2, <1>4, <1>6, <1>7, <1>10, <1>11 DEF IInv, QueueInv, EndInv

\* The inductive invariant holds of every behaviour of the workers, the sessions and the
\* operator: every job nothing has hit is in one place with its progress, and every call
\* that is ending a conversation has done what it should have by then.
THEOREM PipelineInvariant == Spec => []IInv
<1>1. Init => IInv
  BY InitInv
<1>2. IInv /\ [Next]_vars => IInv'
  BY SessionStepInv, WorkerStepInv, OthersStepInv, KilledStepInv, StutterInv DEF Next
<1>3. QED
  BY <1>1, <1>2, PTL DEF Spec

-----------------------------------------------------------------------------

\* Every file, the workers and the calls keep their shape (JobQueue, ConversationEnd).
THEOREM PipelineTypeCorrect == Spec => []TypeOK
<1>1. IInv => TypeOK
  BY DEF IInv, QueueInv, EndInv, TypeOK
<1>2. QED
  BY <1>1, PipelineInvariant, PTL

\* The places of a job, as the property counts them.
LEMMA PlacesOf ==
  ASSUME NEW j \in Jobs
  PROVE  /\ \A f : <<"file", f>> \in Places(j) <=> \/ f = "pending" /\ j \in Queue
                                                   \/ f = "completed" /\ j \in completed
                                                   \/ f = "failed" /\ j \in failed
         /\ \A w : <<"hand", w>> \in Places(j) <=> w \in Workers /\ Held(w, j)
         /\ \A p \in Places(j) : \/ \E f \in {"pending", "completed", "failed"} : p = <<"file", f>>
                                 \/ \E w \in Workers : p = <<"hand", w>>
<1>1. \A f : f \in FilesOf(j) <=> \/ f = "pending" /\ j \in Queue
                                  \/ f = "completed" /\ j \in completed
                                  \/ f = "failed" /\ j \in failed
  BY DEF FilesOf
<1>2. \A w : w \in Holders(j) <=> w \in Workers /\ Held(w, j)
  BY DEF Holders, Held
<1>3. \A f : <<"file", f>> \in Places(j) <=> f \in FilesOf(j)
  BY DEF Places
<1>4. \A w : <<"hand", w>> \in Places(j) <=> w \in Holders(j)
  BY DEF Places
<1>5. \A p \in Places(j) : \/ \E f \in FilesOf(j) : p = <<"file", f>>
                           \/ \E w \in Holders(j) : p = <<"hand", w>>
  BY DEF Places
<1>6. FilesOf(j) \subseteq {"pending", "completed", "failed"} /\ Holders(j) \subseteq Workers
  BY DEF FilesOf, Holders
<1>7. QED
  BY <1>1, <1>2, <1>3, <1>4, <1>5, <1>6

\* A job nothing has hit is in the one place that Place knows.
LEMMA OnePlace ==
  ASSUME QueueInv, NEW j \in Jobs \ hit
  PROVE  /\ j \notin asked => Places(j) = {}
         /\ j \in Queue => Places(j) = {<<"file", "pending">>}
         /\ j \in completed => Places(j) = {<<"file", "completed">>}
         /\ j \in failed => Places(j) = {<<"file", "failed">>}
         /\ \A w \in Workers : Held(w, j) => Places(j) = {<<"hand", w>>}
         /\ j \in asked => j \in Queue \/ InHand(j) \/ j \in completed \/ j \in failed
<1>1. Place(j)
  BY DEF QueueInv
<1>2. CASE j \notin asked
  BY <1>1, <1>2, PlacesOf DEF Place, InHand
<1>3. CASE j \in asked
  <2>1. CASE j \in Queue
    <3>1. ~InHand(j) /\ j \notin completed /\ j \notin failed
      BY <1>1, <1>3, <2>1 DEF Place
    <3>2. \A p : p \in Places(j) <=> p = <<"file", "pending">>
      BY <2>1, <3>1, PlacesOf DEF InHand
    <3>3. QED
      BY <1>3, <2>1, <3>1, <3>2 DEF InHand
  <2>2. CASE j \in completed
    <3>1. j \notin Queue /\ ~InHand(j) /\ j \notin failed
      BY <1>1, <1>3, <2>2 DEF Place
    <3>2. \A p : p \in Places(j) <=> p = <<"file", "completed">>
      BY <2>2, <3>1, PlacesOf DEF InHand
    <3>3. QED
      BY <1>3, <2>2, <3>1, <3>2 DEF InHand
  <2>3. CASE j \in failed
    <3>1. j \notin Queue /\ ~InHand(j) /\ j \notin completed
      BY <1>1, <1>3, <2>3 DEF Place
    <3>2. \A p : p \in Places(j) <=> p = <<"file", "failed">>
      BY <2>3, <3>1, PlacesOf DEF InHand
    <3>3. QED
      BY <1>3, <2>3, <3>1, <3>2 DEF InHand
  <2>4. CASE InHand(j)
    <3>1. PICK w \in Workers : Held(w, j)
      BY <2>4 DEF InHand
    <3>2. j \notin Queue /\ j \notin completed /\ j \notin failed /\ \A v \in Workers : Held(v, j) => v = w
      BY <1>1, <1>3, <2>4, <3>1 DEF Place
    <3>3. \A p : p \in Places(j) <=> p = <<"hand", w>>
      BY <3>1, <3>2, PlacesOf
    <3>4. QED
      BY <1>3, <2>4, <3>2, <3>3
  <2>5. QED
    BY <1>1, <1>3, <2>1, <2>2, <2>3, <2>4 DEF Place
<1>4. QED
  BY <1>2, <1>3

\* pop_next_job, remove_pending_queue_entry and record_result, of any number of workers,
\* lose no job and keep none twice, but for the stale copies, the files written by two and
\* the kills that `hit' names.
THEOREM EveryJobAccounted == Spec => []JobsAccounted
<1>1. ASSUME IInv PROVE JobsAccounted
  <2>1. ASSUME NEW j \in Jobs \ hit
        PROVE  IF j \in asked THEN \E p \in Places(j) : Places(j) = {p} ELSE Places(j) = {}
    BY <1>1, OnePlace DEF IInv, InHand
  <2>2. QED
    BY <2>1 DEF JobsAccounted
<1>2. QED
  BY <1>1, PipelineInvariant, PTL

\* However often workers are stopped, killed and started, beside each other too, the browser
\* is asked for such a job at most once, and completed.json holds it only if the browser
\* said yes.
THEOREM EveryJobOnce == Spec => []DoneOnce
<1>1. ASSUME IInv PROVE DoneOnce
  BY <1>1 DEF IInv, QueueInv, Progress, DoneOnce
<1>2. QED
  BY <1>1, PipelineInvariant, PTL

\* When upsert_conversation has come to its end, the row, the prospect and the mail say
\* the same as the conversation, but for the faults `fault' names.
THEOREM EndsComplete == Spec => []EndIsComplete
<1>1. ASSUME IInv PROVE EndIsComplete
  <2>1. ASSUME NEW p \in People, Quiet(p), ~Saving(p), fault[p] = {}
        PROVE  IF conv[p] = "ended" THEN row[p] = "ended" /\ prospect[p] = "ended" /\ told[p] = 1
                                    ELSE row[p] # "ended" /\ told[p] = 0
    <3>1. ConvOf(p) = conv[p] /\ ProspectOf(p) = prospect[p]
      <4>1. ConvSavers(p) = {} /\ ProspectSavers(p) = {}
        BY <2>1 DEF Saving, ConvSavers, ProspectSavers
      <4>2. QED
        BY <4>1, DueOf
    <3>2. \A s \in Sessions : ~Tells(session[s], p)
      BY <2>1 DEF Quiet, Tells, Ends
    <3>3. OneTells(p) /\ RestDone(p)
      BY <1>1 DEF IInv, EndInv
    <3>4. QED
      BY <2>1, <3>1, <3>2, <3>3 DEF OneTells, RestDone, Stages
  <2>2. QED
    BY <2>1 DEF EndIsComplete
<1>2. QED
  BY <1>1, PipelineInvariant, PTL

\* Two mails about one end mean a reopened conversation, two calls that raced, or a
\* stale or unreadable copy.
THEOREM EndsToldOnce == Spec => []ToldOnce
<1>1. ASSUME IInv PROVE ToldOnce
  BY <1>1 DEF IInv, EndInv, EndTypeOK, OneTells, ToldOnce
<1>2. QED
  BY <1>1, PipelineInvariant, PTL

-----------------------------------------------------------------------------
(* The refinement of JobLife. *)

\* For a job that nothing has hit, the cases of Life are the cases of Place.
Point(j) ==
  IF j \in hit THEN "astray"
  ELSE IF j \notin asked THEN "out"
  ELSE IF j \in completed THEN "completed"
  ELSE IF j \in failed THEN "failed"
  ELSE IF ~InHand(j) THEN "waiting"
  ELSE IF acted[j] = 0 THEN "taken"
  ELSE IF j \in said THEN "done" ELSE "refused"

LEMMA LifeIsPoint == QueueInv => \A j \in Jobs : Life(j) = Point(j)
<1>1. SUFFICES ASSUME QueueInv, NEW j \in Jobs, j \notin hit PROVE Life(j) = Point(j)
  BY DEF Life, Point
<1>2. Place(j) /\ Progress(j) /\ acted[j] \in 0..2
  BY <1>1 DEF QueueInv, QueueTypeOK
<1>3. /\ j \notin asked => Places(j) = {}
      /\ j \in Queue => Places(j) = {<<"file", "pending">>}
      /\ j \in completed => Places(j) = {<<"file", "completed">>}
      /\ j \in failed => Places(j) = {<<"file", "failed">>}
      /\ \A w \in Workers : Held(w, j) => Places(j) = {<<"hand", w>>}
  BY <1>1, OnePlace
<1>4. CASE j \notin asked
  BY <1>1, <1>3, <1>4 DEF Life, Point
<1>5. CASE j \in asked /\ j \in Queue
  <2>1. j \notin completed /\ j \notin failed /\ ~InHand(j)
    BY <1>2, <1>5 DEF Place
  <2>2. QED
    BY <1>1, <1>3, <1>5, <2>1 DEF Life, Point
<1>6. CASE j \in asked /\ j \in completed
  <2>1. Places(j) = {<<"file", "completed">>} /\ {<<"file", "completed">>} # {<<"file", "pending">>}
    <3>1. <<"file", "completed">> # <<"file", "pending">>
      OBVIOUS
    <3>2. {<<"file", "completed">>} # {<<"file", "pending">>}
      BY <3>1, Zenon
    <3>3. Places(j) = {<<"file", "completed">>}
      BY <1>3, <1>6
    <3>4. QED
      BY <3>2, <3>3
  <2>2. QED
    BY <1>1, <1>6, <2>1 DEF Life, Point
<1>7. CASE j \in asked /\ j \in failed
  <2>1. /\ Places(j) = {<<"file", "failed">>} /\ {<<"file", "failed">>} # {<<"file", "pending">>}
        /\ {<<"file", "failed">>} # {<<"file", "completed">>} /\ j \notin completed
    <3>1. <<"file", "failed">> # <<"file", "pending">> /\ <<"file", "failed">> # <<"file", "completed">>
      OBVIOUS
    <3>2. Places(j) = {<<"file", "failed">>} /\ j \notin completed
      BY <1>2, <1>3, <1>7 DEF Place
    <3>3. QED
      BY <3>1, <3>2
  <2>2. QED
    BY <1>1, <1>7, <2>1 DEF Life, Point
<1>8. CASE j \in asked /\ InHand(j)
  <2>1. PICK w \in Workers : Held(w, j)
    BY <1>8 DEF InHand
  <2>2. /\ Places(j) = {<<"hand", w>>} /\ {<<"hand", w>>} # {<<"file", "pending">>}
        /\ {<<"hand", w>>} # {<<"file", "completed">>} /\ {<<"hand", w>>} # {<<"file", "failed">>}
    BY <1>3, <2>1
  <2>3. j \notin completed /\ j \notin failed
    BY <1>2, <1>8 DEF Place
  <2>4. acted[j] = 0 \/ acted[j] = 1
    BY <1>2 DEF Progress
  <2>5. QED
    BY <1>1, <1>8, <2>2, <2>3, <2>4 DEF Life, Point
<1>9. QED
  BY <1>2, <1>4, <1>5, <1>6, <1>7, <1>8 DEF Place

LEMMA LifeIsPointNext == QueueInv' => (\A j \in Jobs : Life(j) = Point(j))'
BY LifeIsPoint, PTL

\* A step of the abstract specification, told by where each job is before and after.
LEMMA BecomeByPoint ==
  ASSUME QueueInv, QueueInv', NEW T, NEW to, NEW S,
         \A j \in Jobs : Point(j)' = IF j \in S THEN "astray" ELSE IF j \in T THEN to ELSE Point(j)
  PROVE  Promise!Become(T, to, S)
<1>1. /\ \A j \in Jobs : Life(j) = Point(j)
      /\ \A j \in Jobs : Life(j)' = Point(j)'
  BY LifeIsPoint, LifeIsPointNext
<1>2. QED
  BY <1>1 DEF Promise!Become

LEMMA AreByPoint ==
  ASSUME QueueInv, NEW T \in SUBSET Jobs, NEW from, \A j \in T : Point(j) \in from
  PROVE  Promise!Are(T, from)
BY LifeIsPoint DEF Promise!Are

\* No job goes anywhere.
LEMMA StayByPoint ==
  ASSUME QueueInv, QueueInv', \A j \in Jobs : Point(j)' = Point(j)
  PROVE  UNCHANGED [j \in Jobs |-> Life(j)]
BY LifeIsPoint, LifeIsPointNext

AbstractStep == Promise!Event \/ UNCHANGED [j \in Jobs |-> Life(j)]

\* The steps the abstract specification does not see.
LEMMA HiddenStep ==
  ASSUME QueueInv, QueueInv', UNCHANGED <<hit, asked, completed, failed, acted, said>>,
         \A j \in Jobs : InHand(j)' <=> InHand(j)
  PROVE  AbstractStep
<1>1. \A j \in Jobs : Point(j)' = Point(j)
  BY DEF Point
<1>2. QED
  BY <1>1, StayByPoint DEF AbstractStep

\* When only the history says that jobs were hit, they go astray.
LEMMA AstrayStep ==
  ASSUME QueueInv, QueueInv', hit \subseteq hit', UNCHANGED <<asked, completed, failed, acted, said>>,
         \A j \in Jobs \ hit' : InHand(j)' <=> InHand(j)
  PROVE  AbstractStep
<1>1. PICK S \in SUBSET Jobs : S = hit'
  BY DEF QueueInv, QueueTypeOK
<1>2. \A j \in Jobs : Point(j)' = IF j \in S THEN "astray" ELSE IF j \in {} THEN "astray" ELSE Point(j)
  BY <1>1 DEF Point
<1>3. Promise!GoAstray(S)
  BY <1>2, BecomeByPoint DEF Promise!GoAstray
<1>4. QED
  BY <1>3 DEF AbstractStep, Promise!Event

\* Which job a worker's step takes into its hands, or out of them.
LEMMA HandMoves ==
  ASSUME QueueInv, NEW w \in Workers, NEW k, Becomes(w, k)
  PROVE  /\ worker'[w] = k /\ \A v \in Workers \ {w} : worker'[v] = worker[v]
         /\ \A j \in Jobs : worker[w].job # j /\ k.job # j => (InHand(j)' <=> InHand(j))
         /\ /\ worker[w].pc \in Working \cup {"popWrite"} <=> k.pc \in Working \cup {"popWrite"}
            /\ worker[w].pc \in Working \cup {"popWrite"} => k.job = worker[w].job
            => \A j \in Jobs : InHand(j)' <=> InHand(j)
<1>1. worker \in [Workers -> WorkerType] /\ worker' = [worker EXCEPT ![w] = k]
  BY DEF QueueInv, QueueTypeOK, Becomes
<1>2. worker'[w] = k /\ \A v \in Workers \ {w} : worker'[v] = worker[v]
  BY <1>1
<1>3. \A j \in Jobs : \A v \in Workers \ {w} : Held(v, j)' <=> Held(v, j)
  BY <1>2 DEF Held
<1>4. ASSUME NEW j \in Jobs, Held(w, j)' <=> Held(w, j) PROVE InHand(j)' <=> InHand(j)
  BY <1>3, <1>4 DEF InHand
<1>5. ASSUME NEW j \in Jobs, worker[w].job # j, k.job # j PROVE Held(w, j)' <=> Held(w, j)
  BY <1>2, <1>5 DEF Held
<1>6. ASSUME worker[w].pc \in Working \cup {"popWrite"} <=> k.pc \in Working \cup {"popWrite"},
             worker[w].pc \in Working \cup {"popWrite"} => k.job = worker[w].job, NEW j \in Jobs
      PROVE  Held(w, j)' <=> Held(w, j)
  BY <1>2, <1>6 DEF Held
<1>7. QED
  BY <1>2, <1>4, <1>5, <1>6

LEMMA PopOpenLife ==
  ASSUME QueueInv, QueueInv', NEW w \in Workers, PopOpen(w) PROVE AbstractStep
<1>1. worker[w] \in WorkerType /\ worker[w].pc = "popOpen" /\ worker[w].job \in Jobs
  BY WorkerFields DEF PopOpen, QueueInv
<1>2. PICK i \in Jobs : i = worker[w].job
  BY <1>1
<1>3. PICK k \in WorkerType : Becomes(w, k) /\ k.pc = "popWrite" /\ k.job = i
  <2> DEFINE m == [worker[w] EXCEPT !.pc = "popWrite", !.mine = TRUE]
  <2>1. m \in WorkerType /\ m.pc = "popWrite" /\ m.job = i
    BY <1>1, <1>2 DEF WorkerType
  <2>2. QED
    BY <2>1 DEF PopOpen
<1>4. /\ worker'[w] = k /\ \A v \in Workers \ {w} : worker'[v] = worker[v]
      /\ \A j \in Jobs : j # i => (InHand(j)' <=> InHand(j))
  BY <1>2, <1>3, HandMoves
<1>5. UNCHANGED <<completed, failed, asked, acted, said>> /\ hit \subseteq hit'
  BY DEF PopOpen
<1>6. CASE i \in hit'
  BY <1>4, <1>5, <1>6, AstrayStep
<1>7. CASE i \notin hit'
  <2>1. Held(w, i)' /\ ~Held(w, i)
    BY <1>1, <1>2, <1>3, <1>4 DEF Held, Working
  <2>2. InHand(i)'
    BY <2>1 DEF InHand
  <2>3. Place(i)' /\ Progress(i)'
    BY <1>7 DEF QueueInv
  <2>4. i \in asked /\ i \notin completed /\ i \notin failed
    BY <1>5, <2>2, <2>3 DEF Place
  <2>5. \A v \in Workers \ {w} : ~Held(v, i)'
    BY <2>1, <2>3 DEF Place
  <2>6. \A v \in Workers \ {w} : ~Held(v, i)
    BY <1>4, <2>5 DEF Held
  <2>7. ~InHand(i)
    BY <2>1, <2>6 DEF InHand
  <2>8. acted[i] = 0
    BY <1>3, <1>4, <1>5, <2>1, <2>3 DEF Progress, Stage
  <2>9. Point(i) = "waiting" /\ Point(i)' = "taken"
    BY <1>5, <1>7, <2>2, <2>4, <2>7, <2>8 DEF Point
  <2>10. PICK S \in SUBSET Jobs : S = hit'
    BY DEF QueueInv, QueueTypeOK
  <2>11. \A j \in Jobs : Point(j)' = IF j \in S THEN "astray" ELSE IF j \in {i} THEN "taken" ELSE Point(j)
    BY <1>4, <1>5, <1>7, <2>9, <2>10 DEF Point
  <2>12. Promise!Take(i, S)
    BY <2>9, <2>11, AreByPoint, BecomeByPoint DEF Promise!Take
  <2>13. QED
    BY <2>12 DEF AbstractStep, Promise!Event
<1>8. QED
  BY <1>6, <1>7

LEMMA ActLife ==
  ASSUME QueueInv, QueueInv', NEW w \in Workers, Act(w) PROVE AbstractStep
<1>1. worker[w] \in WorkerType /\ worker[w].pc = "act" /\ worker[w].pc \in Working /\ worker[w].job \in Jobs
  BY WorkerFields DEF Act, QueueInv, Working
<1>2. PICK i \in Jobs : i = worker[w].job
  BY <1>1
<1>3. acted \in [Jobs -> 0..2] /\ acted' = [acted EXCEPT ![i] = IF @ < 2 THEN @ + 1 ELSE @]
  BY <1>2 DEF Act, Asks, QueueInv, QueueTypeOK
<1>4. UNCHANGED <<hit, asked, completed, failed>> /\ (said' = said \cup {i} \/ said' = said)
  BY <1>2 DEF Act, Proceeds
<1>5. \A j \in Jobs : InHand(j)' <=> InHand(j)
  <2>1. PICK k \in WorkerType : Becomes(w, k) /\ k.pc \in Working /\ k.job = i
    <3> DEFINE m == [worker[w] EXCEPT !.pc = "saveOpen"]
    <3>1. m \in WorkerType /\ m.pc \in Working /\ m.job = i
      BY <1>1, <1>2 DEF WorkerType, Working
    <3>2. PICK v \in WorkerType : v = Verdict(w, FALSE) /\ v.pc = "record" /\ v.job = i
      BY <1>2, VerdictIs
    <3>3. QED
      BY <3>1, <3>2 DEF Act, Proceeds, Working
  <2>2. QED
    BY <1>1, <1>2, <2>1, HandMoves
<1>6. CASE i \in hit
  <2>1. \A j \in Jobs : Point(j)' = Point(j)
    BY <1>3, <1>4, <1>5, <1>6 DEF Point
  <2>2. QED
    BY <2>1, StayByPoint DEF AbstractStep
<1>7. CASE i \notin hit
  <2>1. acted[i] = 0 /\ i \notin said /\ Place(i) /\ Held(w, i)
    BY <1>1, <1>2, <1>7, HandJob DEF Stage
  <2>2. InHand(i)
    BY <2>1 DEF InHand
  <2>3. i \in asked /\ i \notin completed /\ i \notin failed
    BY <2>1, <2>2 DEF Place
  <2>4. Point(i) = "taken" /\ acted'[i] = 1
    BY <1>3, <1>7, <2>1, <2>2, <2>3 DEF Point
  <2>5. Promise!Are({i}, {"taken"})
    BY <2>4, AreByPoint
  <2>6. CASE said' = said \cup {i}
    <3>1. \A j \in Jobs : Point(j)' = IF j \in {} THEN "astray" ELSE IF j \in {i} THEN "done" ELSE Point(j)
      BY <1>3, <1>4, <1>5, <1>7, <2>2, <2>3, <2>4, <2>6 DEF Point
    <3>2. Promise!Ask(i)
      BY <2>5, <3>1, BecomeByPoint DEF Promise!Ask
    <3>3. QED
      BY <3>2 DEF AbstractStep, Promise!Event
  <2>7. CASE said' = said
    <3>1. \A j \in Jobs : Point(j)' = IF j \in {} THEN "astray" ELSE IF j \in {i} THEN "refused" ELSE Point(j)
      BY <1>3, <1>4, <1>5, <1>7, <2>1, <2>2, <2>3, <2>4, <2>7 DEF Point
    <3>2. Promise!Ask(i)
      BY <2>5, <3>1, BecomeByPoint DEF Promise!Ask
    <3>3. QED
      BY <3>2 DEF AbstractStep, Promise!Event
  <2>8. QED
    BY <1>4, <2>6, <2>7
<1>8. QED
  BY <1>6, <1>7

LEMMA RecordLoadLife ==
  ASSUME QueueInv, QueueInv', NEW w \in Workers, RecordLoad(w) PROVE AbstractStep
<1>1. worker[w] \in WorkerType /\ worker[w].pc = "record" /\ worker[w].pc \in Working /\ worker[w].job \in Jobs
  BY WorkerFields DEF RecordLoad, QueueInv, Working
<1>2. UNCHANGED <<asked, completed, failed, acted, said>>
  BY DEF RecordLoad
<1>3. CASE Becomes(w, Off) /\ hit' = hit \cup {worker[w].job}
  <2>1. \A j \in Jobs : worker[w].job # j /\ Off.job # j => (InHand(j)' <=> InHand(j))
    BY <1>3, HandMoves
  <2>2. Off.job \notin Jobs
    BY JobAssumption DEF Off
  <2>3. QED
    BY <1>2, <1>3, <2>1, <2>2, AstrayStep
<1>4. ASSUME NEW k, Becomes(w, k), k.pc \in Working, k.job = worker[w].job, hit' = hit PROVE AbstractStep
  <2>1. \A j \in Jobs : InHand(j)' <=> InHand(j)
    BY <1>1, <1>4, HandMoves
  <2>2. QED
    BY <1>2, <1>4, <2>1, HiddenStep
<1>5. CASE Becomes(w, [worker[w] EXCEPT !.pc = "recordOpen", !.rest = Filed(w)]) /\ UNCHANGED hit
  <2> DEFINE m == [worker[w] EXCEPT !.pc = "recordOpen", !.rest = Filed(w)]
  <2>1. m.pc \in Working /\ m.job = worker[w].job
    BY <1>1 DEF WorkerType, Working
  <2>2. QED
    BY <1>4, <1>5, <2>1
<1>6. CASE Becomes(w, Verdict(w, FALSE)) /\ UNCHANGED hit
  <2>1. Verdict(w, FALSE).pc \in Working /\ Verdict(w, FALSE).job = worker[w].job
    BY VerdictIs DEF Working
  <2>2. QED
    BY <1>4, <1>6, <2>1
<1>7. QED
  BY <1>3, <1>5, <1>6 DEF RecordLoad

LEMMA RecordOpenLife ==
  ASSUME QueueInv, QueueInv', NEW w \in Workers, RecordOpen(w) PROVE AbstractStep
<1>1. worker[w] \in WorkerType /\ worker[w].pc = "recordOpen" /\ worker[w].pc \in Working
  BY WorkerFields DEF RecordOpen, QueueInv, Working
<1>2. PICK k : Becomes(w, k) /\ k.pc \in Working /\ k.job = worker[w].job
  <2> DEFINE m == [worker[w] EXCEPT !.pc = "recordWrite"]
  <2>1. m.pc \in Working /\ m.job = worker[w].job
    BY <1>1 DEF WorkerType, Working
  <2>2. QED
    BY <2>1 DEF RecordOpen
<1>3. \A j \in Jobs : InHand(j)' <=> InHand(j)
  BY <1>1, <1>2, HandMoves
<1>4. UNCHANGED <<asked, completed, failed, acted, said>> /\ hit \subseteq hit'
  BY DEF RecordOpen
<1>5. QED
  BY <1>3, <1>4, AstrayStep

LEMMA RecordWriteLife ==
  ASSUME QueueInv, QueueInv', NEW w \in Workers, RecordWrite(w) PROVE AbstractStep
<1>1. /\ worker[w] \in WorkerType /\ worker[w].pc = "recordWrite" /\ worker[w].pc \in Working
      /\ worker[w].job \in Jobs /\ worker[w].good \in BOOLEAN
  BY WorkerFields DEF RecordWrite, QueueInv, Working, WorkerType
<1>2. PICK i \in Jobs : i = worker[w].job
  BY <1>1
<1>3. Becomes(w, Polling) /\ UNCHANGED <<pending, asked, acted, said, hit>>
  BY DEF RecordWrite
<1>4. IF worker[w].good THEN failed' = failed ELSE completed' = completed
  BY <1>1 DEF RecordWrite
<1>5. Polling.job \notin Jobs /\ Polling.pc = "poll"
  BY JobAssumption DEF Polling, Off
<1>6. /\ worker'[w] = Polling /\ \A v \in Workers \ {w} : worker'[v] = worker[v]
      /\ \A j \in Jobs : j # i => (InHand(j)' <=> InHand(j))
  BY <1>2, <1>3, <1>5, HandMoves
<1>7. Queue' = Queue
  <2>1. Moved(w, Polling) /\ w \notin Writers /\ ~Writing(Polling)
    BY <1>1, <1>3, Moves, PollingType DEF Writers, Writing, QueueInv
  <2>2. QED
    BY <1>3, <2>1, QueueKept
<1>8. \A j \in Jobs \ hit : Place(j) /\ Place(j)'
  BY <1>3 DEF QueueInv
<1>9. ASSUME NEW j \in Jobs \ hit, j # i
      PROVE  (j \in completed' <=> j \in completed) /\ (j \in failed' <=> j \in failed)
  <2>1. InHand(j)' <=> InHand(j)
    BY <1>6, <1>9
  <2>2. Place(j) /\ Place(j)'
    BY <1>8
  <2>3. QED
    BY <1>3, <1>4, <1>7, <2>1, <2>2 DEF Place
<1>10. CASE i \in hit
  <2>1. \A j \in Jobs : Point(j)' = Point(j)
    BY <1>3, <1>6, <1>9, <1>10 DEF Point
  <2>2. QED
    BY <2>1, StayByPoint DEF AbstractStep
<1>11. CASE i \notin hit
  <2>1. Held(w, i) /\ Stage(w, i) /\ acted[i] <= 1 /\ acted[i] \in 0..2 /\ Place(i) /\ Place(i)'
    BY <1>1, <1>2, <1>8, <1>11, HandJob
  <2>2. InHand(i) /\ \A v \in Workers \ {w} : ~Held(v, i)
    BY <2>1 DEF InHand, Place
  <2>3. i \in asked /\ i \notin Queue /\ i \notin completed /\ i \notin failed
    BY <2>1, <2>2 DEF Place
  <2>4. ~InHand(i)'
    <3>1. ~Held(w, i)'
      BY <1>5, <1>6 DEF Held, Working
    <3>2. \A v \in Workers \ {w} : ~Held(v, i)'
      BY <1>6, <2>2 DEF Held
    <3>3. QED
      BY <3>1, <3>2 DEF InHand
  <2>5. i \in completed' \/ i \in failed'
    BY <1>3, <1>7, <2>1, <2>3, <2>4 DEF Place
  <2>6. CASE worker[w].good
    <3>1. acted[i] = 1 /\ i \in said
      BY <1>1, <2>1, <2>6 DEF Stage
    <3>2. Point(i) = "done" /\ Point(i)' = "completed"
      BY <1>3, <1>4, <1>11, <2>2, <2>3, <2>5, <2>6, <3>1 DEF Point
    <3>3. \A j \in Jobs : Point(j)' = IF j \in {} THEN "astray" ELSE IF j \in {i} THEN "completed" ELSE Point(j)
      BY <1>3, <1>6, <1>9, <3>2 DEF Point
    <3>4. Promise!Complete(i)
      BY <3>2, <3>3, AreByPoint, BecomeByPoint DEF Promise!Complete
    <3>5. QED
      BY <3>4 DEF AbstractStep, Promise!Event
  <2>7. CASE ~worker[w].good
    <3>1. i \notin completed' /\ i \in failed'
      BY <1>4, <2>3, <2>5, <2>7
    <3>2. Point(i) \in {"taken", "done", "refused"} /\ Point(i)' = "failed"
      BY <1>3, <1>11, <2>2, <2>3, <3>1 DEF Point
    <3>3. \A j \in Jobs : Point(j)' = IF j \in {} THEN "astray" ELSE IF j \in {i} THEN "failed" ELSE Point(j)
      BY <1>3, <1>6, <1>9, <3>2 DEF Point
    <3>4. Promise!Fail(i)
      BY <3>2, <3>3, AreByPoint, BecomeByPoint DEF Promise!Fail
    <3>5. QED
      BY <3>4 DEF AbstractStep, Promise!Event
  <2>8. QED
    BY <1>1, <2>6, <2>7
<1>12. QED
  BY <1>10, <1>11

LEMMA KillLife ==
  ASSUME QueueInv, QueueInv', NEW w \in Workers, Kill(w) PROVE AbstractStep
<1>1. Becomes(w, Off) /\ UNCHANGED <<completed, failed, asked, acted, said>> /\ hit \subseteq hit'
  BY DEF Kill
<1>2. ASSUME NEW j \in Jobs \ hit' PROVE InHand(j)' <=> InHand(j)
  <2>1. worker'[w] = Off /\ \A v \in Workers \ {w} : worker'[v] = worker[v]
    BY <1>1, HandMoves
  <2>2. ~Held(w, j)
    BY <1>2 DEF Held, Kill
  <2>3. ~Held(w, j)'
    BY <2>1, PollingType DEF Held, Working
  <2>4. \A v \in Workers \ {w} : Held(v, j)' <=> Held(v, j)
    BY <2>1 DEF Held
  <2>5. QED
    BY <2>2, <2>3, <2>4 DEF InHand
<1>3. QED
  BY <1>1, <1>2, AstrayStep

LEMMA RemoveJobsLife ==
  ASSUME QueueInv, QueueInv', NEW G \in SUBSET Jobs, RemoveJobs(G) PROVE AbstractStep
<1>1. /\ Replace(edit.copy \ G) /\ asked' = asked \ (edit.copy \cap G)
      /\ edit.copy \ G \in SUBSET Jobs /\ edit.copy \in SUBSET Jobs /\ asked' \in SUBSET Jobs
  BY DEF RemoveJobs, QueueInv, QueueTypeOK
<1>2. PICK C \in SUBSET Jobs : C = edit.copy
  BY <1>1
<1>3. PICK S \in SUBSET Jobs : S = hit'
  BY DEF QueueInv, QueueTypeOK
<1>4. /\ UNCHANGED <<completed, failed, acted, said>> /\ Alike
      /\ \A j \in Jobs \ S : j \notin hit /\ (j \in C <=> j \in Queue)
  BY <1>1, <1>2, <1>3, ReplaceStep DEF Replace
<1>5. \A j \in Jobs : InHand(j)' <=> InHand(j)
  BY <1>4, AlikeHeld
<1>6. PICK T \in SUBSET Jobs : T = (C \cap G) \ S
  OBVIOUS
<1>7. \A j \in T : Point(j) = "waiting"
  <2>1. ASSUME NEW j \in T PROVE j \notin hit /\ j \in Queue /\ Place(j)
    BY <1>4, <1>6, <2>1 DEF QueueInv
  <2>2. QED
    BY <2>1 DEF Place, Point
<1>8. \A j \in Jobs : Point(j)' = IF j \in S THEN "astray" ELSE IF j \in T THEN "out" ELSE Point(j)
  BY <1>1, <1>2, <1>3, <1>4, <1>5, <1>6 DEF Point
<1>9. Promise!Remove(T, S)
  BY <1>7, <1>8, AreByPoint, BecomeByPoint DEF Promise!Remove
<1>10. QED
  BY <1>9 DEF AbstractStep, Promise!Event

LEMMA AddJobLife ==
  ASSUME QueueInv, QueueInv', NEW i \in Jobs, AddJob(i) PROVE AbstractStep
<1>1. /\ Replace(edit.copy \cup {i}) /\ asked' = asked \cup {i} /\ asked' \in SUBSET Jobs
      /\ edit.copy \cup {i} \in SUBSET Jobs /\ i \notin asked
  BY DEF AddJob, QueueInv, QueueTypeOK
<1>2. PICK S \in SUBSET Jobs : S = hit'
  BY DEF QueueInv, QueueTypeOK
<1>3. UNCHANGED <<completed, failed, acted, said>> /\ Alike /\ hit \subseteq hit'
  BY <1>1, ReplaceStep DEF Replace
<1>4. \A j \in Jobs : InHand(j)' <=> InHand(j)
  BY <1>3, AlikeHeld
<1>5. CASE i \in S
  <2>1. \A j \in Jobs : Point(j)' = IF j \in S THEN "astray" ELSE IF j \in {} THEN "astray" ELSE Point(j)
    BY <1>1, <1>2, <1>3, <1>4, <1>5 DEF Point
  <2>2. Promise!GoAstray(S)
    BY <2>1, BecomeByPoint DEF Promise!GoAstray
  <2>3. QED
    BY <2>2 DEF AbstractStep, Promise!Event
<1>6. CASE i \notin S
  <2>1. Point(i) = "out" /\ i \notin hit /\ Place(i)
    BY <1>1, <1>2, <1>3, <1>6 DEF Point, QueueInv
  <2>2. i \notin completed /\ i \notin failed /\ ~InHand(i)
    BY <1>1, <2>1 DEF Place
  <2>3. \A j \in Jobs : Point(j)' = IF j \in S THEN "astray" ELSE IF j \in {i} THEN "waiting" ELSE Point(j)
    BY <1>1, <1>2, <1>3, <1>4, <1>6, <2>2 DEF Point
  <2>4. Promise!Add(i, S)
    BY <2>1, <2>3, AreByPoint, BecomeByPoint DEF Promise!Add
  <2>5. QED
    BY <2>4 DEF AbstractStep, Promise!Event
<1>7. QED
  BY <1>5, <1>6

\* A worker goes on, with the same job in hand or with none.
LEMMA GoesOnLife ==
  ASSUME QueueInv, QueueInv', NEW w \in Workers, NEW k, Becomes(w, k),
         UNCHANGED <<hit, asked, completed, failed, acted, said>>,
         worker[w].pc \in Working \cup {"popWrite"} <=> k.pc \in Working \cup {"popWrite"},
         worker[w].pc \in Working \cup {"popWrite"} => k.job = worker[w].job
  PROVE  AbstractStep
<1>1. \A j \in Jobs : InHand(j)' <=> InHand(j)
  BY HandMoves
<1>2. QED
  BY <1>1, HiddenStep

LEMMA WorkerLife ==
  ASSUME QueueInv, QueueInv', NEW w \in Workers, WorkerStep(w) PROVE AbstractStep
<1>1. worker[w] \in WorkerType
  BY WorkerFields DEF QueueInv
<1>2. CASE PopLoad(w)
  <2>1. worker[w].pc = "poll" /\ UNCHANGED <<hit, asked, completed, failed, acted, said>>
    BY <1>2 DEF PopLoad
  <2>2. \/ Becomes(w, Off)
        \/ \E j \in Ready : Becomes(w, [worker[w] EXCEPT !.pc = "popOpen", !.job = j, !.rest = pending \ {j}])
    BY <1>2 DEF PopLoad
  <2>3. \A j \in Ready : [worker[w] EXCEPT !.pc = "popOpen", !.job = j, !.rest = pending \ {j}].pc = "popOpen"
    BY <1>1 DEF WorkerType
  <2>4. PICK k : Becomes(w, k) /\ k.pc \in {"off", "popOpen"}
    BY <2>2, <2>3, PollingType
  <2>5. QED
    BY <2>1, <2>4, GoesOnLife DEF Working
<1>3. CASE PopWrite(w)
  <2>1. Popped(w).pc = "load" /\ Popped(w).job = worker[w].job
    BY <1>1 DEF Popped, WorkerType
  <2>2. /\ worker[w].pc = "popWrite" /\ Becomes(w, Popped(w))
        /\ UNCHANGED <<hit, asked, completed, failed, acted, said>>
    BY <1>3 DEF PopWrite
  <2>3. QED
    BY <2>1, <2>2, GoesOnLife DEF Working
<1>4. CASE JobLoads(w) \/ JobTears(w) \/ JobSaves(w)
  <2>1. worker[w].pc \in Working /\ UNCHANGED <<hit, asked, completed, failed, acted, said>>
    BY <1>4 DEF JobLoads, JobTears, JobSaves, HandlerLoad, SaveOpen, SaveWrite, Proceeds, Working
  <2>2. ASSUME NEW good \in BOOLEAN
        PROVE  /\ Verdict(w, good).pc = "record" /\ Verdict(w, good).job = worker[w].job
               /\ [Verdict(w, good) EXCEPT !.mine = FALSE].pc = "record"
               /\ [Verdict(w, good) EXCEPT !.mine = FALSE].job = worker[w].job
    BY <1>1 DEF Verdict, WorkerType
  <2>3. /\ [worker[w] EXCEPT !.pc = "act", !.copy = Content(worker[w].job)].pc = "act"
        /\ [worker[w] EXCEPT !.pc = "act", !.copy = Content(worker[w].job)].job = worker[w].job
        /\ [worker[w] EXCEPT !.pc = "saveWrite", !.mine = TRUE].pc = "saveWrite"
        /\ [worker[w] EXCEPT !.pc = "saveWrite", !.mine = TRUE].job = worker[w].job
    BY <1>1 DEF WorkerType
  <2>4. \E k : Becomes(w, k) /\ k.pc \in {"act", "saveWrite", "record"} /\ k.job = worker[w].job
    <3>1. CASE JobLoads(w)
      BY <2>2, <2>3, <3>1 DEF JobLoads, HandlerLoad, Proceeds
    <3>2. CASE JobTears(w)
      BY <2>2, <2>3, <3>2 DEF JobTears, SaveOpen, Proceeds
    <3>3. CASE JobSaves(w)
      BY <2>2, <3>3 DEF JobSaves, SaveWrite, Proceeds
    <3>4. QED
      BY <1>4, <3>1, <3>2, <3>3
  <2>5. QED
    BY <2>1, <2>4, GoesOnLife DEF Working
<1>5. QED
  BY <1>2, <1>3, <1>4, PopOpenLife, ActLife, RecordLoadLife, RecordOpenLife, RecordWriteLife
     DEF WorkerStep, WorkerAlone

LEMMA OthersLife ==
  ASSUME QueueInv, QueueInv', OthersAlone PROVE AbstractStep
<1>1. ASSUME NEW i \in Jobs, AddJob(i) PROVE AbstractStep
  BY <1>1, AddJobLife
<1>2. ASSUME NEW w \in Workers, Start(w) \/ Stop(w) PROVE AbstractStep
  <2>1. UNCHANGED <<hit, asked, completed, failed, acted, said>> /\ worker[w].pc \in {"off", "poll"}
    BY <1>2 DEF Start, Stop
  <2>2. PICK k : Becomes(w, k) /\ k.pc \in {"off", "poll"}
    BY <1>2, PollingType DEF Start, Stop
  <2>3. QED
    BY <2>1, <2>2, GoesOnLife DEF Working
<1>3. CASE EditLoad \/ EditDrop \/ \E j \in Jobs : BecomesDue(j)
  <2>1. UNCHANGED <<worker, hit, asked, completed, failed, acted, said>>
    BY <1>3 DEF EditLoad, EditDrop, BecomesDue
  <2>2. QED
    BY <2>1, HiddenStep DEF InHand, Held
<1>4. QED
  BY <1>1, <1>2, <1>3 DEF OthersAlone

LEMMA StepLife ==
  ASSUME QueueInv, QueueInv', [Next]_vars PROVE AbstractStep
<1>1. ASSUME NEW w \in Workers, WorkerStep(w) PROVE AbstractStep
  BY <1>1, WorkerLife
<1>2. ASSUME NEW w \in Workers, Killed(w) PROVE AbstractStep
  BY <1>2, KillLife DEF Killed
<1>3. CASE OthersAlone /\ UNCHANGED endVars
  BY <1>3, OthersLife
<1>4. ASSUME NEW p \in People, RemovePendingEntry(p) PROVE AbstractStep
  <2>1. PICK G \in SUBSET Jobs : G = {j \in Jobs : PersonOf[j] = p}
    OBVIOUS
  <2>2. RemoveJobs(G)
    BY <1>4, <2>1 DEF RemovePendingEntry
  <2>3. QED
    BY <2>2, RemoveJobsLife
<1>5. ASSUME NEW s \in Sessions, SessionStep(s) PROVE AbstractStep
  <2>1. UNCHANGED <<hit, asked, completed, failed, acted, said>>
    BY <1>5 DEF SessionStep
  <2>2. ASSUME NEW w \in Workers PROVE worker'[w].pc = worker[w].pc /\ worker'[w].job = worker[w].job
    <3>1. worker[w] \in WorkerType
      BY WorkerFields DEF QueueInv
    <3>2. QED
      BY <1>5, <3>1 DEF SessionStep, WorkerType
  <2>3. \A j \in Jobs : InHand(j)' <=> InHand(j)
    BY <2>2 DEF InHand, Held
  <2>4. QED
    BY <2>1, <2>3, HiddenStep
<1>6. CASE UNCHANGED vars
  <2>1. UNCHANGED <<worker, hit, asked, completed, failed, acted, said>>
    BY <1>6 DEF vars, queueVars
  <2>2. QED
    BY <2>1, HiddenStep DEF InHand, Held
<1>7. QED
  BY <1>1, <1>2, <1>3, <1>4, <1>5, <1>6 DEF Next

LEMMA InitLife == Init => Promise!Init
<1>1. SUFFICES ASSUME Init PROVE Promise!Init
  OBVIOUS
<1>2. QueueInv /\ hit = {} /\ asked = First /\ completed = {} /\ failed = {}
  BY <1>1, InitInv DEF IInv, Init, QueueInit
<1>3. \A j \in Jobs : ~InHand(j)
  BY <1>1, PollingType DEF Init, QueueInit, InHand, Held, Working
<1>4. \A j \in Jobs : Point(j) = IF j \in First THEN "waiting" ELSE "out"
  BY <1>2, <1>3 DEF Point
<1>5. QED
  BY <1>2, <1>4, LifeIsPoint DEF Promise!Init

\* The queue workers, their three files and the processes that share them implement JobLife:
\* whatever interleaves and wherever a worker dies, a job nothing has led astray waits, is
\* taken by one worker, the browser is asked for it at most once, and it ends completed, if
\* the browser said yes, or failed.
THEOREM QueueKeepsItsPromise == Spec => ImplementsJobLife
<1>1. Init => Promise!Init
  BY InitLife
<1>2. IInv /\ IInv' /\ [Next]_vars => [Promise!Next]_[j \in Jobs |-> Life(j)]
  BY StepLife DEF IInv, AbstractStep, Promise!Next
<1>3. QED
  BY <1>1, <1>2, PipelineInvariant, PTL DEF Spec, ImplementsJobLife, Promise!Spec

-----------------------------------------------------------------------------
(* The refinement of EndLife. *)

\* Some parts of p's end are done by the step, as EndLife has them, or p goes astray.
EndEvent(p) ==
  \/ End!EndConversation(p) \/ End!EndRow(p) \/ End!EndProspect(p) \/ End!Tell(p)
  \/ End!GoAstray(p)

EndStep == End!Next \/ UNCHANGED <<[p \in People |-> DoneOf(p)], {p \in People : fault[p] # {}}>>

LEMMA EventStep ==
  ASSUME NEW p \in People, EndEvent(p) PROVE EndStep
BY DEF EndEvent, EndStep, End!Next, End!vars

\* What a step leaves alone of q's end, q being not astray.
SameFiles(q) ==
  fault[q] = {} => /\ ConvOf(q)' = "ended" <=> ConvOf(q) = "ended"
                   /\ ProspectOf(q)' = "ended" <=> ProspectOf(q) = "ended"

SameEnd(q) == SameFiles(q) /\ row'[q] = row[q] /\ told'[q] = told[q]

LEMMA SameDone ==
  ASSUME NEW q \in People, fault'[q] = fault[q], SameEnd(q) PROVE DoneOf(q)' = DoneOf(q)
BY DEF DoneOf, SameEnd, SameFiles

\* A step that is about p alone.
AboutOne(p) == \A q \in People : q # p => fault'[q] = fault[q] /\ SameEnd(q)

LEMMA AstrayStays ==
  ASSUME NEW p \in People, AboutOne(p), fault'[p] # {} PROVE EndStep
<1>1. \A q \in People : q # p => DoneOf(q)' = DoneOf(q) /\ (fault'[q] = {} <=> fault[q] = {})
  BY SameDone DEF AboutOne
<1>2. DoneOf(p)' = {}
  BY DEF DoneOf
<1>3. PICK f, g : f = [q \in People |-> DoneOf(q)] /\ g = [q \in People |-> DoneOf(q)']
  OBVIOUS
<1>4. PICK A, B : A = {q \in People : fault[q] # {}} /\ B = {q \in People : fault'[q] # {}}
  OBVIOUS
<1>5. B = A \cup {p}
  BY <1>1, <1>4
<1>6. g = [f EXCEPT ![p] = {}]
  BY <1>1, <1>2, <1>3
<1>7. End!GoAstray(p)
  BY <1>3, <1>4, <1>5, <1>6 DEF End!GoAstray
<1>8. QED
  BY <1>7, EventStep DEF EndEvent

\* A step that does one more part of p's end, or none.
LEMMA PartStep ==
  ASSUME NEW p \in People, AboutOne(p), fault'[p] = fault[p],
         NEW parts \in SUBSET {"conversation", "row", "prospect", "mail"},
         fault[p] = {} => DoneOf(p)' = DoneOf(p) \cup parts,
         \/ parts = {} \/ parts = {"conversation"} \/ parts = {"prospect"}
         \/ parts = {"row"} /\ (fault[p] = {} => "conversation" \in DoneOf(p))
         \/ /\ parts = {"mail"}
            /\ fault[p] = {} => DoneOf(p) = {"conversation", "row", "prospect"}
  PROVE  EndStep
<1>1. \A q \in People : q # p => DoneOf(q)' = DoneOf(q) /\ (fault'[q] = {} <=> fault[q] = {})
  BY SameDone DEF AboutOne
<1>2. PICK A : A = {q \in People : fault[q] # {}} /\ A = {q \in People : fault'[q] # {}}
  BY <1>1
<1>3. PICK f, g : f = [q \in People |-> DoneOf(q)] /\ g = [q \in People |-> DoneOf(q)']
  OBVIOUS
<1>4. CASE fault[p] # {}
  BY <1>4, AstrayStays
<1>5. CASE fault[p] = {} /\ parts = {}
  <2>1. f = g
    BY <1>1, <1>3, <1>5
  <2>2. QED
    BY <1>2, <1>3, <2>1 DEF EndStep
<1>6. CASE fault[p] = {} /\ parts # {}
  <2>1. g = [f EXCEPT ![p] = f[p] \cup parts] /\ f[p] = DoneOf(p) /\ p \notin A
    BY <1>1, <1>2, <1>3, <1>6
  <2>2. CASE parts = {"conversation"}
    BY <1>2, <1>3, <2>1, <2>2, EventStep DEF EndEvent, End!EndConversation, End!Do
  <2>3. CASE parts = {"prospect"}
    BY <1>2, <1>3, <2>1, <2>3, EventStep DEF EndEvent, End!EndProspect, End!Do
  <2>4. CASE parts = {"row"}
    BY <1>2, <1>3, <1>6, <2>1, <2>4, EventStep DEF EndEvent, End!EndRow, End!Do
  <2>5. CASE parts = {"mail"}
    BY <1>2, <1>3, <1>6, <2>1, <2>5, EventStep DEF EndEvent, End!Tell, End!Do
  <2>6. QED
    BY <1>6, <2>2, <2>3, <2>4, <2>5
<1>7. QED
  BY <1>4, <1>5, <1>6

\* A step that does nothing, to nobody.
LEMMA NoPartStep ==
  ASSUME \A q \in People : fault'[q] = fault[q] /\ SameEnd(q) PROVE EndStep
<1>1. \A q \in People : DoneOf(q)' = DoneOf(q) /\ (fault'[q] = {} <=> fault[q] = {})
  BY SameDone
<1>2. QED
  BY <1>1 DEF EndStep

\* What a session's step leaves alone, the file keeps or is going to hold as before.
LEMMA SessionSame ==
  ASSUME QueueInv, EndInv, SessionWorker, NEW q \in People,
         conv'[q] = conv[q], prospect'[q] = prospect[q], row'[q] = row[q], told'[q] = told[q]
  PROVE  SameEnd(q)
<1>1. ConvOf(q)' = ConvOf(q) /\ ProspectOf(q)' = ProspectOf(q)
  BY SessionView
<1>2. QED
  BY <1>1 DEF SameEnd, SameFiles

LEMMA ReadEnd ==
  ASSUME QueueInv, EndInv, SessionWorker, NEW s \in Sessions, UpsertRead(s) \/ MeetRead(s)
  PROVE  EndStep
<1>1. UNCHANGED <<conv, prospect, row, told, fault>>
  BY DEF UpsertRead, MeetRead
<1>2. QED
  BY <1>1, SessionSame, NoPartStep

LEMMA UpsertWriteEnd ==
  ASSUME QueueInv, EndInv, SessionWorker, NEW s \in Sessions, UpsertWrite(s) PROVE EndStep
<1>1. PICK k \in SessionType, p \in People :
        session[s] = k /\ k.who = p /\ k.pc = "put" /\ EndTypeOK
  BY SessionFields DEF EndInv, UpsertWrite
<1> DEFINE again == \/ k.stage # "ended" /\ conv[p] # "open"
                    \/ k.prior # conv[p]
                    \/ k.prior \notin Stages
<1>2. /\ UNCHANGED <<prospect, row, told>>
      /\ \/ conv' = [conv EXCEPT ![p] = k.stage] /\ Wrong(p, When(again, "again"))
         \/ conv' = conv /\ fault' = fault
  BY <1>1 DEF UpsertWrite
<1> HIDE DEF again
<1>3. CASE conv' = conv /\ fault' = fault
  BY <1>2, <1>3, SessionSame, NoPartStep
<1>4. CASE conv' = [conv EXCEPT ![p] = k.stage] /\ Wrong(p, When(again, "again"))
  <2>1. /\ fault'[p] = fault[p] \cup When(again, "again")
        /\ \A q \in People : q # p => fault'[q] = fault[q]
    <3>1. When(again, "again") \in SUBSET Faults
      BY DEF When, Faults
    <3>2. QED
      BY <1>1, <1>4, <3>1, WrongType
  <2>2. conv'[p] = k.stage /\ k.stage \in Stages /\ \A q \in People : q # p => conv'[q] = conv[q]
    BY <1>1, <1>4 DEF EndTypeOK, SessionType
  <2>3. AboutOne(p)
    BY <1>2, <2>1, <2>2, SessionSame DEF AboutOne
  <2>4. CASE again
    BY <2>1, <2>3, <2>4, AstrayStays DEF When
  <2>5. CASE ~again /\ k.stage = "open"
    <3>1. conv'[p] = conv[p] /\ fault'[p] = fault[p]
      BY <2>1, <2>2, <2>5 DEF again, When
    <3>2. SameEnd(p)
      BY <1>2, <3>1, SessionSame
    <3>3. QED
      BY <2>3, <3>1, <3>2, NoPartStep DEF AboutOne
  <2>6. CASE ~again /\ k.stage = "ended"
    <3>1. fault'[p] = fault[p]
      BY <2>1, <2>6 DEF When
    <3>2. fault[p] = {} => ConvOf(p)' = "ended" /\ ProspectOf(p)' = ProspectOf(p)
      <4>1. fault[p] = {} => "again" \notin fault[p]
        OBVIOUS
      <4>2. conv[p] \in Stages
        BY <2>6 DEF again
      <4>3. fault[p] = {} => ConvOf(p) = conv[p]
        BY <4>1, <4>2, Plain DEF Stages
      <4>4. QED
        BY <1>2, <2>2, <2>6, <4>3, SessionView
    <3>3. fault[p] = {} => DoneOf(p)' = DoneOf(p) \cup {"conversation"}
      BY <1>2, <3>1, <3>2 DEF DoneOf
    <3>4. QED
      BY <2>3, <3>1, <3>3, PartStep
  <2>7. QED
    BY <2>2, <2>4, <2>5, <2>6 DEF Stages
<1>5. QED
  BY <1>2, <1>3, <1>4

\* Who leaves out a step of p's end leads p astray.
LEMMA ShortEnd ==
  ASSUME QueueInv, EndInv, SessionWorker, NEW p \in People, Wrong(p, {"short"}),
         UNCHANGED <<conv, prospect, row, told>>
  PROVE  EndStep
<1>1. fault'[p] = fault[p] \cup {"short"} /\ \A q \in People : q # p => fault'[q] = fault[q]
  <2>1. {"short"} \in SUBSET Faults /\ EndTypeOK
    BY DEF Faults, EndInv
  <2>2. QED
    BY <2>1, WrongType
<1>2. AboutOne(p)
  BY <1>1, SessionSame DEF AboutOne
<1>3. QED
  BY <1>1, <1>2, AstrayStays

LEMMA MarkRowEnd ==
  ASSUME QueueInv, EndInv, SessionWorker, NEW s \in Sessions, MarkRow(s) PROVE EndStep
<1>1. PICK p \in People : session[s].who = p /\ session[s].pc = "mark" /\ EndTypeOK
  BY SessionFields DEF EndInv, MarkRow
<1>2. /\ UNCHANGED <<conv, prospect, told>>
      /\ \/ row' = [row EXCEPT ![p] = "ended"] /\ fault' = fault
         \/ row' = row /\ Wrong(p, {"short"})
  BY <1>1 DEF MarkRow
<1>3. CASE row' = row /\ Wrong(p, {"short"})
  BY <1>2, <1>3, ShortEnd
<1>4. CASE row' = [row EXCEPT ![p] = "ended"] /\ fault' = fault
  <2>1. row'[p] = "ended" /\ \A q \in People : q # p => row'[q] = row[q]
    BY <1>1, <1>4 DEF EndTypeOK
  <2>2. AboutOne(p)
    BY <1>2, <1>4, <2>1, SessionSame DEF AboutOne
  <2>3. ConvOf(p)' = ConvOf(p) /\ ProspectOf(p)' = ProspectOf(p)
    BY <1>2, SessionView
  <2>4. fault[p] = {} => ConvOf(p) = "ended"
    BY <1>1 DEF EndInv, OneTells, RestDone, Ends, Stages
  <2>5. fault[p] = {} => "conversation" \in DoneOf(p)
    BY <2>4 DEF DoneOf
  <2>6. fault[p] = {} => DoneOf(p)' = DoneOf(p) \cup {"row"}
    BY <1>2, <1>4, <2>1, <2>3 DEF DoneOf
  <2>7. QED
    BY <1>4, <2>2, <2>5, <2>6, PartStep
<1>5. QED
  BY <1>2, <1>3, <1>4

LEMMA SyncProspectEnd ==
  ASSUME QueueInv, EndInv, SessionWorker, NEW s \in Sessions, SyncProspect(s) PROVE EndStep
<1>1. PICK p \in People : session[s].who = p /\ EndTypeOK
  BY SessionFields DEF EndInv, SyncProspect
<1>2. /\ UNCHANGED <<conv, row, told>>
      /\ \/ prospect[p] # "torn" /\ prospect' = [prospect EXCEPT ![p] = "ended"] /\ fault' = fault
         \/ prospect' = prospect /\ Wrong(p, {"short"})
  BY <1>1 DEF SyncProspect
<1>3. CASE prospect' = prospect /\ Wrong(p, {"short"})
  BY <1>2, <1>3, ShortEnd
<1>4. CASE prospect[p] # "torn" /\ prospect' = [prospect EXCEPT ![p] = "ended"] /\ fault' = fault
  <2>1. prospect'[p] = "ended" /\ \A q \in People : q # p => prospect'[q] = prospect[q]
    BY <1>1, <1>4 DEF EndTypeOK
  <2>2. AboutOne(p)
    BY <1>2, <1>4, <2>1, SessionSame DEF AboutOne
  <2>3. fault[p] = {} => ConvOf(p)' = ConvOf(p) /\ ProspectOf(p)' = "ended"
    <3>1. fault[p] = {} => "again" \notin fault[p]
      OBVIOUS
    <3>2. fault[p] = {} => ProspectOf(p) = prospect[p]
      BY <1>4, <3>1, Plain
    <3>3. QED
      BY <1>2, <2>1, <3>2, SessionView
  <2>4. fault[p] = {} => DoneOf(p)' = DoneOf(p) \cup {"prospect"}
    BY <1>2, <1>4, <2>3 DEF DoneOf
  <2>5. QED
    BY <1>4, <2>2, <2>4, PartStep
<1>5. QED
  BY <1>2, <1>3, <1>4

\* The call that tells has seen to the rest.
LEMMA NotifyEnd ==
  ASSUME QueueInv, EndInv, SessionWorker, NEW s \in Sessions, Notify(s) PROVE EndStep
<1>1. PICK p \in People : session[s].who = p /\ session[s].pc = "tell" /\ EndTypeOK
  BY SessionFields DEF EndInv, Notify
<1>2. /\ UNCHANGED <<conv, prospect, row>>
      /\ \/ told' = [told EXCEPT ![p] = IF told[p] < 2 THEN told[p] + 1 ELSE told[p]] /\ fault' = fault
         \/ told' = told /\ Wrong(p, {"short"})
  BY <1>1 DEF Notify, SendEndedMail
<1>3. CASE told' = told /\ Wrong(p, {"short"})
  BY <1>2, <1>3, ShortEnd
<1>4. CASE /\ told' = [told EXCEPT ![p] = IF told[p] < 2 THEN told[p] + 1 ELSE told[p]]
           /\ fault' = fault
  <2>1. \A q \in People : q # p => told'[q] = told[q]
    BY <1>1, <1>4 DEF EndTypeOK
  <2>2. AboutOne(p)
    BY <1>2, <1>4, <2>1, SessionSame DEF AboutOne
  <2>3. Tells(session[s], p) /\ OneTells(p) /\ RestDone(p)
    BY <1>1 DEF EndInv, Priors, Tells, Ends
  <2>4. fault[p] = {} => told[p] = 0 /\ told'[p] = 1
    <3>1. told[p] \in 0..2 /\ (fault[p] = {} => told[p] <= 1 /\ told[p] # 1)
      BY <1>1, <2>3 DEF OneTells, EndTypeOK
    <3>2. told'[p] = IF told[p] < 2 THEN told[p] + 1 ELSE told[p]
      BY <1>1, <1>4 DEF EndTypeOK
    <3>3. QED
      BY <3>1, <3>2
  <2>5. fault[p] = {} => row[p] = "ended" /\ ConvOf(p) = "ended" /\ ProspectOf(p) = "ended"
    <3>1. fault[p] = {} => row[p] = "ended" /\ ProspectOf(p) = "ended" /\ ConvOf(p) \in Stages
      BY <1>1, <2>3 DEF RestDone
    <3>2. fault[p] = {} => ConvOf(p) # "open"
      BY <2>3 DEF OneTells, Tells
    <3>3. QED
      BY <3>1, <3>2 DEF Stages
  <2>6. ConvOf(p)' = ConvOf(p) /\ ProspectOf(p)' = ProspectOf(p)
    BY <1>2, SessionView
  <2>7. fault[p] = {} => DoneOf(p) = {"conversation", "row", "prospect"}
    <3>1. fault[p] = {} => ~(told[p] > 0) /\ ~(told[p] > 1)
      BY <2>4
    <3>2. QED
      BY <2>5, <3>1 DEF DoneOf
  <2>8. fault[p] = {} => DoneOf(p)' = DoneOf(p) \cup {"mail"}
    <3>1. fault[p] = {} => told'[p] > 0 /\ ~(told'[p] > 1)
      BY <2>4
    <3>2. fault[p] = {} => DoneOf(p)' = {"conversation", "row", "prospect", "mail"}
      BY <1>2, <1>4, <2>5, <2>6, <3>1 DEF DoneOf
    <3>3. QED
      BY <2>7, <3>2
  <2>9. QED
    BY <1>4, <2>2, <2>7, <2>8, PartStep
<1>5. QED
  BY <1>2, <1>3, <1>4

LEMMA MeetWriteEnd ==
  ASSUME QueueInv, EndInv, SessionWorker, NEW s \in Sessions, MeetWrite(s) PROVE EndStep
<1>1. PICK k \in SessionType, p \in People :
        session[s] = k /\ k.who = p /\ k.pc = "meet" /\ EndTypeOK
  BY SessionFields DEF EndInv, MeetWrite
<1>2. /\ UNCHANGED <<prospect, row, told>>
      /\ conv' = [conv EXCEPT ![p] = k.prior] /\ Wrong(p, When(k.prior # conv[p], "again"))
  BY <1>1 DEF MeetWrite
<1>3. /\ fault'[p] = fault[p] \cup When(k.prior # conv[p], "again")
      /\ \A q \in People : q # p => fault'[q] = fault[q]
  <2>1. When(k.prior # conv[p], "again") \in SUBSET Faults
    BY DEF When, Faults
  <2>2. QED
    BY <1>1, <1>2, <2>1, WrongType
<1>4. conv'[p] = k.prior /\ \A q \in People : q # p => conv'[q] = conv[q]
  BY <1>1, <1>2 DEF EndTypeOK
<1>5. AboutOne(p)
  BY <1>2, <1>3, <1>4, SessionSame DEF AboutOne
<1>6. CASE k.prior # conv[p]
  BY <1>3, <1>5, <1>6, AstrayStays DEF When
<1>7. CASE k.prior = conv[p]
  <2>1. fault'[p] = fault[p] /\ SameEnd(p)
    BY <1>2, <1>3, <1>4, <1>7, SessionSame DEF When
  <2>2. QED
    BY <1>5, <2>1, NoPartStep DEF AboutOne
<1>8. QED
  BY <1>6, <1>7

\* What put_prospect makes of an ended prospect.
LEMMA EndedPart ==
  ASSUME EndInv, NEW p \in People, fault[p] = {}, prospect[p] = "ended" PROVE ProspectOf(p) = "ended"
BY Plain

LEMMA PutProspectEnd ==
  ASSUME QueueInv, EndInv, SessionWorker, NEW s \in Sessions, PutProspect(s) PROVE EndStep
<1>1. PICK p \in People, stage \in Stages :
        /\ prospect' = [prospect EXCEPT ![p] = stage]
        /\ Wrong(p, When(prospect[p] # "open" /\ stage # "ended", "again"))
  BY DEF PutProspect
<1>2. UNCHANGED <<conv, row, told>> /\ EndTypeOK
  BY DEF PutProspect, EndInv
<1>3. /\ fault'[p] = fault[p] \cup When(prospect[p] # "open" /\ stage # "ended", "again")
      /\ \A q \in People : q # p => fault'[q] = fault[q]
  <2>1. When(prospect[p] # "open" /\ stage # "ended", "again") \in SUBSET Faults
    BY DEF When, Faults
  <2>2. QED
    BY <1>1, <1>2, <2>1, WrongType
<1>4. prospect'[p] = stage /\ \A q \in People : q # p => prospect'[q] = prospect[q]
  BY <1>1, <1>2 DEF EndTypeOK
<1>5. AboutOne(p)
  BY <1>2, <1>3, <1>4, SessionSame DEF AboutOne
<1>6. CASE stage # "ended" /\ prospect[p] # "open"
  BY <1>3, <1>5, <1>6, AstrayStays DEF When
<1>7. CASE stage # "ended" /\ prospect[p] = "open"
  <2>1. fault'[p] = fault[p] /\ prospect'[p] = prospect[p]
    BY <1>3, <1>4, <1>7 DEF When, Stages
  <2>2. QED
    BY <1>2, <1>5, <2>1, SessionSame, NoPartStep DEF AboutOne
<1>8. CASE stage = "ended"
  <2>1. fault'[p] = fault[p]
    BY <1>3, <1>8 DEF When
  <2>2. fault[p] = {} => ConvOf(p)' = ConvOf(p) /\ ProspectOf(p)' = "ended"
    BY <1>2, <1>4, <1>8, SessionView, EndedPart
  <2>3. fault[p] = {} => DoneOf(p)' = DoneOf(p) \cup {"prospect"}
    BY <1>2, <2>1, <2>2 DEF DoneOf
  <2>4. QED
    BY <1>5, <2>1, <2>3, PartStep
<1>9. QED
  BY <1>6, <1>7, <1>8

LEMMA SessionEnd ==
  ASSUME IInv, NEW s \in Sessions, SessionStep(s) PROVE EndStep
<1>1. QueueInv /\ EndInv /\ SessionWorker
  BY DEF IInv, SessionStep, SessionWorker
<1>2. SessionDies(s) => EndStep
  <2>1. ASSUME SessionDies(s) PROVE EndStep
    <3>1. session[s].who \in People /\ Wrong(session[s].who, {"short"})
      BY <1>1, <2>1, SessionFields DEF SessionDies, EndInv
    <3>2. QED
      BY <1>1, <2>1, <3>1, ShortEnd DEF SessionDies
  <2>2. QED
    BY <2>1
<1>3. QED
  BY <1>1, <1>2, ReadEnd, UpsertWriteEnd, MarkRowEnd, SyncProspectEnd, NotifyEnd, MeetWriteEnd,
     PutProspectEnd DEF SessionStep, ReplacesConv, ReplacesProspect, ReplacesNeither

LEMMA AwayEnd ==
  ASSUME UNCHANGED endVars, Away PROVE EndStep
<1>1. ASSUME NEW q \in People PROVE SameEnd(q)
  BY AwayView DEF endVars, SameEnd, SameFiles
<1>2. QED
  BY <1>1, NoPartStep DEF endVars

LEMMA JobTearsEnd ==
  ASSUME QueueInv, EndInv, NEW w \in Workers, JobTears(w) PROVE EndStep
<1>1. worker[w] \in WorkerType /\ worker[w].pc = "saveOpen" /\ worker[w].job \in Jobs /\ EndTypeOK
  BY WorkerFields DEF JobTears, SaveOpen, QueueInv, EndInv
<1>2. PICK j \in Jobs, p \in People : worker[w].job = j /\ PersonOf[j] = p
  BY <1>1, JobsOfPeople
<1>3. CASE worker[w].copy = "blank"
  <2>1. UNCHANGED endVars /\ Becomes(w, Verdict(w, FALSE))
    BY <1>3 DEF JobTears, SaveOpen, Proceeds
  <2>2. Verdict(w, FALSE).pc = "record"
    BY <1>2, VerdictIs
  <2>3. QED
    BY <1>1, <2>1, <2>2, AwayByMove, AwayEnd
<1>4. CASE worker[w].copy # "blank"
  <2>1. PICK F : F = When(Content(j) # worker[w].copy, "again")
    OBVIOUS
  <2>2. UNCHANGED <<row, told>> /\ Wrong(p, F)
    BY <1>2, <1>4, <2>1 DEF JobTears
  <2>3. fault'[p] = fault[p] \cup F /\ \A q \in People : q # p => fault'[q] = fault[q]
    BY <1>1, <2>1, <2>2, WhenFaults, WrongType
  <2>4. ASSUME NEW q \in People, fault'[q] = fault[q] PROVE SameEnd(q)
    <3>1. fault[q] = {} => "again" \notin fault'[q]
      BY <2>4
    <3>2. QED
      BY <1>4, <2>2, <3>1, TearsView DEF SameEnd, SameFiles
  <2>5. AboutOne(p)
    BY <2>3, <2>4 DEF AboutOne
  <2>6. CASE F = {}
    BY <2>3, <2>4, <2>6, NoPartStep
  <2>7. CASE F # {}
    BY <2>3, <2>5, <2>7, AstrayStays
  <2>8. QED
    BY <2>6, <2>7
<1>5. QED
  BY <1>3, <1>4

LEMMA JobSavesEnd ==
  ASSUME QueueInv, EndInv, NEW w \in Workers, JobSaves(w) PROVE EndStep
<1>1. UNCHANGED <<row, told, fault>>
  BY DEF JobSaves
<1>2. ASSUME NEW q \in People PROVE SameEnd(q)
  <2>1. fault[q] = {} => "again" \notin fault[q]
    OBVIOUS
  <2>2. QED
    BY <1>1, <2>1, SavesView DEF SameEnd, SameFiles
<1>3. QED
  BY <1>1, <1>2, NoPartStep

LEMMA KilledEnd ==
  ASSUME QueueInv, EndInv, NEW w \in Workers, Killed(w) PROVE EndStep
<1>1. worker[w] \in WorkerType /\ EndTypeOK /\ UNCHANGED <<conv, prospect, row, session, calls, told>>
  BY WorkerFields DEF Killed, QueueInv, EndInv
<1>2. Moved(w, Off) /\ Off.pc = "off"
  BY PollingType, Moves DEF Killed, Kill, QueueInv
<1>3. CASE worker[w].pc # "saveWrite"
  <2>1. Away
    BY <1>2, <1>3 DEF Away, Moved
  <2>2. QED
    BY <1>1, <1>3, <2>1, AwayEnd DEF Killed, endVars
<1>4. CASE worker[w].pc = "saveWrite"
  <2>1. worker[w].job \in Jobs
    BY <1>4, WorkerFields DEF QueueInv
  <2>2. PICK p \in People : PersonOf[worker[w].job] = p
    BY <2>1, JobsOfPeople
  <2>3. /\ fault'[p] = fault[p] \cup {"short"}
        /\ \A q \in People : q # p => fault'[q] = fault[q]
    <3>1. {"short"} \in SUBSET Faults /\ Wrong(p, {"short"})
      BY <1>4, <2>2 DEF Faults, Killed
    <3>2. QED
      BY <1>1, <3>1, WrongType
  <2>4. ASSUME NEW q \in People, q # p PROVE SameEnd(q)
    <3>1. w \notin ConvSavers(q) \cup ProspectSavers(q)
      BY <2>2, <2>4 DEF ConvSavers, ProspectSavers
    <3>2. \A v \in ConvSavers(q) \cup ProspectSavers(q) : worker'[v].copy = worker[v].copy
      BY <1>2, <3>1, OtherSavers
    <3>3. ConvSavers(q)' = ConvSavers(q) /\ ProspectSavers(q)' = ProspectSavers(q)
      BY <1>2, <3>1, OneSaver
    <3>4. ConvOf(q)' = ConvOf(q) /\ ProspectOf(q)' = ProspectOf(q)
      BY <1>1, <3>2, <3>3, DueStays
    <3>5. QED
      BY <1>1, <3>4 DEF SameEnd, SameFiles
  <2>5. AboutOne(p)
    BY <2>3, <2>4 DEF AboutOne
  <2>6. QED
    BY <2>3, <2>5, AstrayStays
<1>5. QED
  BY <1>3, <1>4

LEMMA StepEnd ==
  ASSUME IInv, [Next]_vars PROVE EndStep
<1>1. QueueInv /\ EndInv
  BY DEF IInv
<1>2. ASSUME NEW w \in Workers, (WorkerAlone(w) /\ UNCHANGED endVars) \/ JobLoads(w) PROVE EndStep
  <2>1. UNCHANGED endVars
    BY <1>2 DEF JobLoads
  <2>2. QED
    BY <1>1, <1>2, <2>1, AwayFromSave, AwayEnd
<1>3. CASE \/ OthersAlone /\ UNCHANGED endVars
           \/ \E p \in People : RemovePendingEntry(p)
  <2>1. UNCHANGED endVars
    BY <1>3 DEF RemovePendingEntry
  <2>2. QED
    BY <1>1, <1>3, <2>1, AwayOthers, AwayEnd
<1>4. CASE UNCHANGED vars
  <2>1. UNCHANGED endVars /\ Away
    BY <1>4 DEF vars, queueVars, Away
  <2>2. QED
    BY <2>1, AwayEnd
<1>5. ASSUME NEW w \in Workers, WorkerStep(w) PROVE EndStep
  BY <1>1, <1>2, <1>5, JobTearsEnd, JobSavesEnd DEF WorkerStep
<1>6. QED
  BY <1>1, <1>3, <1>4, <1>5, KilledEnd, SessionEnd DEF Next

LEMMA InitEnd == Init => End!Init
<1>1. SUFFICES ASSUME Init PROVE End!Init
  OBVIOUS
<1>2. \A p \in People : ConvSavers(p) = {} /\ ProspectSavers(p) = {}
  BY <1>1, PollingType DEF Init, QueueInit, ConvSavers, ProspectSavers
<1>3. ASSUME NEW p \in People PROVE fault[p] = {} /\ DoneOf(p) = {}
  <2>1. /\ fault[p] = {} /\ conv[p] = "open" /\ prospect[p] = "open" /\ row[p] = "open"
        /\ told[p] = 0
    BY <1>1 DEF Init, EndInit
  <2>2. ~(told[p] > 0) /\ ~(told[p] > 1)
    BY <2>1
  <2>3. ConvOf(p) = "open" /\ ProspectOf(p) = "open"
    BY <1>2, <2>1, DueOf
  <2>4. QED
    BY <2>1, <2>2, <2>3 DEF DoneOf
<1>4. QED
  BY <1>3 DEF End!Init

\* upsert_conversation, schedule_meeting, upsert_prospect and the worker's handlers implement
\* EndLife: an end that no fault has touched is done part by part, each part once and none
\* undone, and the operator is told when the other three are done.
THEOREM EndKeepsItsPromise == Spec => ImplementsEndLife
<1>1. Init => End!Init
  BY InitEnd
<1>2. IInv /\ [Next]_vars => [End!Next]_<<[p \in People |-> DoneOf(p)], {p \in People : fault[p] # {}}>>
  BY StepEnd DEF EndStep
<1>3. QED
  BY <1>1, <1>2, PipelineInvariant, PTL DEF Spec, ImplementsEndLife, End!Spec, End!vars
=============================================================================
