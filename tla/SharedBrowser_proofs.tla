-------------------------- MODULE SharedBrowser_proofs --------------------------
(***************************************************************************)
(* Proofs about SharedBrowser for any callers, tabs, people and wishes: a  *)
(* call whose tab nobody else has touched hits the person it was called    *)
(* for, or the one the page put in that place, and has done what it claims *)
(* to have done; and a call that never went to the inbox closes no tab but *)
(* its own.                                                                *)
(*                                                                         *)
(* Sound(c) says, for every point a call can be at, what its tab must show *)
(* as long as nobody else changed it.  A step of c itself moves from one   *)
(* of these facts to the next; a step of anybody else either leaves c's    *)
(* tab alone or takes the mark `clean' from c (OthersKeep, TabChanged).    *)
(***************************************************************************)
EXTENDS SharedBrowser, TLAPS

Thread(s, q) == s.kind = "thread" /\ s.who = q
Profile(s, p) == s.kind = "profile" /\ s.who = p

\* What the composer shows before and after the text is typed.
Composer(k, s, text) ==
  /\ s.draft = text
  /\ k.tool = "message" => Thread(s, k.row)
  /\ k.tool = "post"    => s.box = "share"
  /\ k.tool = "comment" => s.kind = "post" /\ s.who = k.who /\ s.box = "comment"

\* What a call for p with this tool, its search having opened the thread of row, may end
\* with on an undisturbed tab.
Ended(tool, p, row, answer, what, to, texts) ==
  /\ to \subseteq Targets(tool, p, row)
  /\ texts \subseteq {p}
  /\ answer = "ok" =>
       /\ tool = "connect" => what = "invite"
       /\ tool \in {"message", "post", "comment"} => what = tool /\ texts = {p}
       /\ tool \in {"view", "parse", "pdf"} => what = "read"
       /\ tool \notin {"history", "browse", "probe"} => to # {}

\* The point call k is at agrees with what its tab s shows.
Agrees(k, s) ==
  /\ k.pc = "go" /\ k.tool # "browse" => s.draft = {}
  /\ k.pc = "work" =>
       /\ k.tool \in ProfileTools => Profile(s, k.who)
       /\ k.tool \in InboxTools \cup PostTools => s.draft = {}
       /\ k.tool = "comment" => s.kind = "post" /\ s.who = k.who
  /\ k.pc \in {"click", "menu", "submit", "save"} => Profile(s, k.who)
  /\ k.pc = "submit" => s.box = "invite" /\ s.guest \in {k.who} \cup Suggested[k.who]
  /\ k.pc = "type" => Composer(k, s, {})
  /\ k.pc = "send" => Composer(k, s, {k.who})
  /\ k.pc = "read" /\ k.tool = "history" => Thread(s, k.row)
  /\ k.pc = "crawl" => k.to = {k.who}
  /\ k.pc = "exit" => Ended(k.tool, k.who, k.row, k.answer, k.what, k.to, k.texts)

\* Nothing is answered or sent before the end; only the crawl has read something.
Quiet(k) ==
  /\ k.pc # "exit" => k.answer = "none" /\ k.texts = {}
  /\ k.pc \notin {"crawl", "exit"} => k.to = {}
  /\ k.pc = "crawl" => k.what = "read" /\ k.tool \in {"view", "parse"}

Sound(k, T) == Quiet(k) /\ (k.clean => k.page \in Tabs /\ Agrees(k, T[k.page]))

\* A tab a call owns is the one it opened, unless it went to the inbox.
Owns(c) ==
  call[c].owned => /\ call[c].pc # "attach"
                   /\ call[c].page \in Tabs
                   /\ \/ call[c].opened = call[c].page
                      \/ call[c].tool \in InboxTools
                      \/ c \in Keepers

IInv ==
  /\ TypeOK
  /\ \A c \in Calls : Sound(call[c], tab) /\ Owns(c)

-----------------------------------------------------------------------------
(* What a step does to the calls that do not take it. *)

LEMMA DisturbedType ==
  ASSUME NEW k \in CallState, NEW t
  PROVE  /\ Disturbed(k, t) \in CallState
         /\ Disturbed(k, t).pc = k.pc
         /\ Disturbed(k, t).page = k.page
         /\ Disturbed(k, t).owned = k.owned
         /\ Disturbed(k, t).opened = k.opened
         /\ Disturbed(k, t).tool = k.tool
<1>1. CASE k.page # t
  BY <1>1 DEF Disturbed
<1>2. CASE k.page = t
  <2>1. Disturbed(k, t) = [k EXCEPT !.clean = FALSE]
    BY <1>2 DEF Disturbed
  <2>2. [k EXCEPT !.clean = FALSE] \in CallState
    BY DEF CallState
  <2>3. QED
    BY <2>1, <2>2 DEF CallState
<1>3. QED
  BY <1>1, <1>2

LEMMA DisturbedSound ==
  ASSUME NEW T \in [Tabs -> TabState], NEW k \in CallState, Sound(k, T), NEW t, NEW s
  PROVE  Sound(Disturbed(k, t), [T EXCEPT ![t] = s])
<1>1. CASE k.page = t
  <2>1. Disturbed(k, t).clean = FALSE /\ Quiet(Disturbed(k, t))
    BY <1>1 DEF Disturbed, Sound, Quiet, CallState
  <2>2. QED
    BY <2>1 DEF Sound
<1>2. CASE k.page # t
  <2>1. Disturbed(k, t) = k
    BY <1>2 DEF Disturbed
  <2>2. k.page \in Tabs => [T EXCEPT ![t] = s][k.page] = T[k.page]
    BY <1>2
  <2>3. QED
    BY <2>1, <2>2 DEF Sound
<1>3. QED
  BY <1>1, <1>2

\* What call c itself must bring along when it becomes k and its tab becomes s.
Fits(c, k, T) ==
  /\ k \in CallState
  /\ k.pc \notin {"idle", "attach", "exit"} => k.page \in Tabs
  /\ Sound(k, T)
  /\ k.owned => /\ k.pc # "attach"
                /\ k.page \in Tabs
                /\ k.opened = k.page \/ k.tool \in InboxTools \/ c \in Keepers

LEMMA MovesKeeps ==
  ASSUME IInv, NEW c \in Calls, NEW k, Moves(c, k), Fits(c, k, tab)
  PROVE  IInv'
BY DEF IInv, TypeOK, Owns, Moves, Fits

LEMMA ActsKeeps ==
  ASSUME IInv, NEW c \in Calls, NEW k, NEW t, NEW s \in TabState, Acts(c, k, t, s),
         Fits(c, k, [tab EXCEPT ![t] = s])
  PROVE  IInv'
<1>1. /\ call' = [d \in Calls |-> IF d = c THEN k ELSE Disturbed(call[d], t)]
      /\ tab' = [tab EXCEPT ![t] = s]
      /\ tab \in [Tabs -> TabState]
  BY DEF Acts, IInv, TypeOK
<1>2. tab' \in [Tabs -> TabState]
  BY <1>1
<1>3. ASSUME NEW d \in Calls
      PROVE  /\ call'[d] \in CallState
             /\ call'[d].pc \notin {"idle", "attach", "exit"} => call'[d].page \in Tabs
             /\ Sound(call'[d], tab')
             /\ Owns(d)'
  <2>1. CASE d = c
    BY <1>1, <2>1 DEF Fits, Owns
  <2>2. CASE d # c
    <3>1. call'[d] = Disturbed(call[d], t)
      BY <1>1, <2>2
    <3>2. /\ call[d] \in CallState
          /\ call[d].pc \notin {"idle", "attach", "exit"} => call[d].page \in Tabs
          /\ Sound(call[d], tab)
          /\ Owns(d)
      BY DEF IInv, TypeOK
    <3>3. Sound(call'[d], tab')
      BY <1>1, <3>1, <3>2, DisturbedSound
    <3>4. QED
      BY <3>1, <3>2, <3>3, DisturbedType DEF Owns
  <2>3. QED
    BY <2>1, <2>2
<1>4. QED
  BY <1>1, <1>2, <1>3 DEF IInv, TypeOK

-----------------------------------------------------------------------------
(* The two ways a call changes: it goes on, or it answers. *)

Midway == {"go", "work", "click", "menu", "submit", "type", "send", "read", "save"}

LEMMA AtFields ==
  ASSUME TypeOK, NEW c \in Calls, NEW pc \in Midway \cup {"crawl"}
  PROVE  /\ At(c, pc) \in CallState
         /\ At(c, pc).pc = pc
         /\ At(c, pc).tool = call[c].tool /\ At(c, pc).who = call[c].who
         /\ At(c, pc).row = call[c].row
         /\ At(c, pc).page = call[c].page /\ At(c, pc).clean = call[c].clean
         /\ At(c, pc).owned = call[c].owned /\ At(c, pc).opened = call[c].opened
         /\ At(c, pc).answer = call[c].answer /\ At(c, pc).what = call[c].what
         /\ At(c, pc).to = call[c].to /\ At(c, pc).texts = call[c].texts
<1>1. call[c] \in CallState
  BY DEF TypeOK
<1>2. [call[c] EXCEPT !.pc = pc] \in CallState
  BY <1>1 DEF CallState, Midway
<1>3. QED
  BY <1>1, <1>2 DEF At, CallState

Answers == {"ok", "true", "false", "failed"}
Deeds   == {"none", "read", "invite", "message", "post", "comment"}
Whom    == SUBSET (People \cup {Nobody})

LEMMA AnsweredFields ==
  ASSUME TypeOK, NEW c \in Calls, NEW a \in Answers, NEW w \in Deeds, NEW x \in Whom,
         NEW y \in Whom
  PROVE  LET k == Answered(c, a, w, x, y)
         IN /\ k \in CallState
            /\ k.pc = "exit" /\ k.answer = a /\ k.what = w /\ k.to = x /\ k.texts = y
            /\ k.tool = call[c].tool /\ k.who = call[c].who /\ k.row = call[c].row
            /\ k.page = call[c].page /\ k.clean = call[c].clean
            /\ k.owned = call[c].owned /\ k.opened = call[c].opened
<1> DEFINE k == Answered(c, a, w, x, y)
<1>1. call[c] \in CallState
  BY DEF TypeOK
<1>2. k \in CallState
  BY <1>1 DEF CallState, Answered, Answers, Deeds, Whom
<1>3. k.pc = "exit" /\ k.answer = a /\ k.what = w /\ k.to = x /\ k.texts = y
  BY <1>1 DEF CallState, Answered
<1>4. /\ k.tool = call[c].tool /\ k.who = call[c].who /\ k.row = call[c].row
      /\ k.page = call[c].page /\ k.clean = call[c].clean
      /\ k.owned = call[c].owned /\ k.opened = call[c].opened
  BY <1>1 DEF CallState, Answered
<1>5. QED
  BY <1>2, <1>3, <1>4

LEMMA AtFits ==
  ASSUME IInv, NEW c \in Calls, NEW pc \in Midway, NEW T,
         call[c].pc \in Midway,
         call[c].clean => Agrees(At(c, pc), T[call[c].page])
  PROVE  Fits(c, At(c, pc), T)
<1>1. TypeOK /\ Sound(call[c], tab) /\ Owns(c)
  BY DEF IInv
<1>2. Quiet(call[c]) /\ call[c].page \in Tabs
  BY <1>1 DEF Sound, TypeOK, Midway
<1>3. Quiet(At(c, pc)) /\ At(c, pc).pc # "attach"
  BY <1>1, <1>2, AtFields DEF Quiet, Midway
<1>4. QED
  BY <1>1, <1>2, <1>3, AtFields DEF Fits, Sound, Owns

LEMMA AnsweredFits ==
  ASSUME IInv, NEW c \in Calls, NEW a \in Answers, NEW w \in Deeds, NEW x \in Whom,
         NEW y \in Whom, NEW T,
         call[c].clean => Ended(call[c].tool, call[c].who, call[c].row, a, w, x, y)
  PROVE  Fits(c, Answered(c, a, w, x, y), T)
<1> DEFINE k == Answered(c, a, w, x, y)
<1>1. TypeOK /\ Sound(call[c], tab) /\ Owns(c)
  BY DEF IInv
<1>2. Quiet(k)
  BY <1>1, AnsweredFields DEF Quiet
<1>3. k.clean => k.page \in Tabs /\ Agrees(k, T[k.page])
  BY <1>1, AnsweredFields DEF Sound, Agrees
<1>4. QED
  BY <1>1, <1>2, <1>3, AnsweredFields DEF Fits, Sound, Owns

\* A failure says nothing and sends nothing.
LEMMA FailedFits ==
  ASSUME IInv, NEW c \in Calls, NEW T, NEW a \in Answers,
         a = "failed" \/ (a = "ok" /\ call[c].tool \in {"history", "browse"})
  PROVE  Fits(c, Answered(c, a, "none", {}, {}), T)
<1>1. "none" \in Deeds /\ {} \in Whom
  BY DEF Deeds, Whom
<1>2. Ended(call[c].tool, call[c].who, call[c].row, a, "none", {}, {})
  BY DEF Ended
<1>3. QED
  BY <1>1, <1>2, AnsweredFits

LEMMA AtKeeps ==
  ASSUME IInv, NEW c \in Calls, NEW pc \in Midway, call[c].pc \in Midway
  PROVE  /\ (call[c].clean => Agrees(At(c, pc), Shown(c))) /\ Moves(c, At(c, pc)) => IInv'
         /\ \A s \in TabState :
              /\ call[c].clean => Agrees(At(c, pc), s)
              /\ Acts(c, At(c, pc), call[c].page, s)
              => IInv'
<1>1. call[c].page \in Tabs /\ tab \in [Tabs -> TabState]
  BY DEF IInv, TypeOK, Midway
<1>2. ASSUME call[c].clean => Agrees(At(c, pc), Shown(c)), Moves(c, At(c, pc)) PROVE IInv'
  BY <1>2, AtFits, MovesKeeps DEF Shown
<1>3. ASSUME NEW s \in TabState, call[c].clean => Agrees(At(c, pc), s),
             Acts(c, At(c, pc), call[c].page, s)
      PROVE  IInv'
  <2>1. [tab EXCEPT ![call[c].page] = s][call[c].page] = s
    BY <1>1
  <2>2. Fits(c, At(c, pc), [tab EXCEPT ![call[c].page] = s])
    BY <1>3, <2>1, AtFits
  <2>3. QED
    BY <1>3, <2>2, ActsKeeps
<1>4. QED
  BY <1>2, <1>3

LEMMA AnsweredKeeps ==
  ASSUME IInv, NEW c \in Calls, NEW a \in Answers, NEW w \in Deeds, NEW x \in Whom,
         NEW y \in Whom, call[c].clean => Ended(call[c].tool, call[c].who, call[c].row, a, w, x, y)
  PROVE  /\ Moves(c, Answered(c, a, w, x, y)) => IInv'
         /\ \A s \in TabState : \A t : Acts(c, Answered(c, a, w, x, y), t, s) => IInv'
BY AnsweredFits, MovesKeeps, ActsKeeps

\* What is known of a call that takes a step of its tool.
LEMMA OnFacts ==
  ASSUME IInv, NEW c \in Calls, NEW pc \in Midway, NEW tools, On(c, pc, tools)
  PROVE  /\ call[c].pc = pc /\ call[c].pc \in Midway /\ call[c].tool \in tools
         /\ call[c].page \in Tabs /\ call[c].tool \in Tools
         /\ call[c].who \in People \cup {Nobody}
         /\ Shown(c) \in TabState /\ Shown(c).kind # "closed"
         /\ call[c].clean => Agrees(call[c], Shown(c))
         /\ Quiet(call[c])
         /\ TypeOK
<1>1. call[c] \in CallState /\ tab \in [Tabs -> TabState] /\ Sound(call[c], tab) /\ TypeOK
  BY DEF IInv, TypeOK
<1>2. call[c].tool \in Tools /\ call[c].who \in People \cup {Nobody}
  BY <1>1 DEF CallState
<1>3. QED
  BY <1>1, <1>2 DEF On, Sound, Shown

LEMMA PageFields ==
  ASSUME NEW kind \in Kinds, NEW p \in People \cup {Nobody}
  PROVE  /\ Page(kind, p) \in TabState
         /\ Page(kind, p).kind = kind /\ Page(kind, p).who = p
         /\ Page(kind, p).draft = {}
BY DEF Page, TabState

LEMMA BoxFields ==
  ASSUME NEW s \in TabState, NEW b \in {"none", "menu", "invite", "share", "comment"}
  PROVE  LET r == [s EXCEPT !.box = b]
         IN r \in TabState /\ r.kind = s.kind /\ r.who = s.who /\ r.box = b /\ r.draft = s.draft
BY DEF TabState

LEMMA OpensFields ==
  ASSUME NEW s \in TabState, NEW b \in {"none", "menu", "invite", "share", "comment"},
         NEW q \in People \cup {Nobody}
  PROVE  LET r == Opens(s, b, q)
         IN r \in TabState /\ r.kind = s.kind /\ r.who = s.who /\ r.box = b /\ r.guest = q
BY DEF TabState, Opens

LEMMA DraftFields ==
  ASSUME NEW s \in TabState, NEW x \in Whom
  PROVE  LET r == [s EXCEPT !.draft = x]
         IN r \in TabState /\ r.kind = s.kind /\ r.who = s.who /\ r.box = s.box /\ r.draft = x
BY DEF TabState, Whom

LEMMA KindTypes == {"closed", "blank", "web", "feed", "inbox", "other", "profile", "thread", "post"}
                     \subseteq Kinds
BY DEF Kinds

-----------------------------------------------------------------------------
(* Steps on the way to a page. *)

LEMMA EnsureProfileTabKeeps ==
  ASSUME IInv, NEW c \in Calls, EnsureProfileTab(c) PROVE IInv'
<1> USE DEF ProfileTools, InboxTools, PostTools
<1>1. On(c, "go", ProfileTools) /\ "go" \in Midway /\ "work" \in Midway
  BY DEF EnsureProfileTab, Midway
<1>2. TypeOK /\ call[c].pc \in Midway /\ call[c].tool \in ProfileTools
      /\ call[c].who \in People \cup {Nobody} /\ Shown(c) \in TabState
  BY <1>1, OnFacts
<1>3. ASSUME NEW s \in TabState, Profile(s, call[c].who) PROVE Agrees(At(c, "work"), s)
  BY <1>1, <1>2, <1>3, AtFields DEF Agrees
<1>4. CASE Shown(c).kind = "profile" /\ Shown(c).who = call[c].who
  <2>1. Moves(c, At(c, "work")) /\ Profile(Shown(c), call[c].who)
    BY <1>4 DEF EnsureProfileTab, Profile
  <2>2. QED
    BY <1>1, <1>2, <1>3, <2>1, AtKeeps
<1>5. CASE ~(Shown(c).kind = "profile" /\ Shown(c).who = call[c].who)
  <2>1. Acts(c, At(c, "work"), call[c].page, Page("profile", call[c].who))
    BY <1>5 DEF EnsureProfileTab
  <2>2. /\ Page("profile", call[c].who) \in TabState
        /\ Profile(Page("profile", call[c].who), call[c].who)
    BY <1>2, PageFields, KindTypes DEF Profile
  <2>3. QED
    BY <1>1, <1>2, <1>3, <2>1, <2>2, AtKeeps
<1>6. QED
  BY <1>4, <1>5

LEMMA GotoPostKeeps ==
  ASSUME IInv, NEW c \in Calls, GotoPost(c) PROVE IInv'
<1> DEFINE s == IF call[c].tool = "post" THEN Page("feed", Nobody) ELSE Page("post", call[c].who)
<1>1. /\ On(c, "go", PostTools) /\ "go" \in Midway /\ "work" \in Midway
      /\ Acts(c, At(c, "work"), call[c].page, s)
  BY DEF GotoPost, Midway
<1>2. TypeOK /\ call[c].pc \in Midway /\ call[c].tool \in PostTools
      /\ call[c].who \in People \cup {Nobody}
  BY <1>1, OnFacts
<1>3. /\ s \in TabState /\ s.draft = {}
      /\ call[c].tool = "comment" => s.kind = "post" /\ s.who = call[c].who
  BY <1>2, PageFields, KindTypes
<1>4. Agrees(At(c, "work"), s)
  BY <1>1, <1>2, <1>3, AtFields DEF Agrees, ProfileTools, PostTools, InboxTools
<1>5. QED
  BY <1>1, <1>2, <1>3, <1>4, AtKeeps

LEMMA OpenMessagingHomeKeeps ==
  ASSUME IInv, NEW c \in Calls, OpenMessagingHome(c) PROVE IInv'
<1> USE DEF ProfileTools, InboxTools, PostTools
<1>1. On(c, "go", InboxTools) /\ "go" \in Midway /\ "work" \in Midway
  BY DEF OpenMessagingHome, Midway
<1>2. /\ TypeOK /\ call[c].pc \in Midway /\ call[c].tool \in InboxTools
      /\ Quiet(call[c]) /\ call[c].pc = "go" /\ call[c].page \in Tabs
      /\ call[c].clean => Agrees(call[c], Shown(c))
  BY <1>1, OnFacts
<1>3. CASE \E t \in MessagingTabs :
             Moves(c, [At(c, "work") EXCEPT
                         !.page = t,
                         !.clean = IF t = call[c].page THEN @ ELSE Fresh(tab[t])])
  <2>1. PICK t \in MessagingTabs :
             Moves(c, [At(c, "work") EXCEPT
                         !.page = t,
                         !.clean = IF t = call[c].page THEN @ ELSE Fresh(tab[t])])
    BY <1>3
  <2> DEFINE f == IF t = call[c].page THEN call[c].clean ELSE Fresh(tab[t])
             k == [At(c, "work") EXCEPT !.page = t, !.clean = f]
  <2>2. t \in Tabs /\ f \in BOOLEAN
    BY <1>2, Zenon DEF MessagingTabs, Fresh, TypeOK, CallState
  <2>3. At(c, "work") \in CallState /\ At(c, "work").clean = call[c].clean
    BY <1>1, <1>2, AtFields
  <2>4. /\ k \in CallState
        /\ k.pc = At(c, "work").pc /\ k.tool = At(c, "work").tool /\ k.who = At(c, "work").who
        /\ k.row = At(c, "work").row
        /\ k.page = t /\ k.clean = f
        /\ k.owned = At(c, "work").owned /\ k.opened = At(c, "work").opened
        /\ k.answer = At(c, "work").answer /\ k.what = At(c, "work").what
        /\ k.to = At(c, "work").to /\ k.texts = At(c, "work").texts
    BY <2>2, <2>3 DEF CallState
  <2>5. Moves(c, k)
    BY <2>1, <2>3
  <2>6. f => tab[t].draft = {}
    <3>1. CASE t = call[c].page
      BY <1>2, <3>1 DEF Shown, Agrees
    <3>2. CASE t # call[c].page
      BY <3>2 DEF Fresh
    <3>3. QED
      BY <3>1, <3>2
  <2>7. Quiet(k) /\ (k.clean => Agrees(k, tab[t]))
    BY <1>1, <1>2, <2>4, <2>6, AtFields DEF Quiet, Agrees
  <2>8. Fits(c, k, tab)
    BY <1>1, <1>2, <2>2, <2>4, <2>7, AtFields DEF Fits, Sound
  <2>9. QED
    BY <2>5, <2>8, MovesKeeps
<1>4. CASE Acts(c, At(c, "work"), call[c].page, Page("inbox", Nobody))
  <2>1. /\ Page("inbox", Nobody) \in TabState /\ Page("inbox", Nobody).draft = {}
    BY PageFields, KindTypes
  <2>2. Agrees(At(c, "work"), Page("inbox", Nobody))
    BY <1>1, <1>2, <2>1, AtFields DEF Agrees
  <2>3. QED
    BY <1>1, <1>2, <1>4, <2>1, <2>2, AtKeeps
<1>5. QED
  BY <1>3, <1>4 DEF OpenMessagingHome

-----------------------------------------------------------------------------
(* Steps on a profile. *)

LEMMA FindConnectKeeps ==
  ASSUME IInv, NEW c \in Calls, FindConnect(c) PROVE IInv'
<1> USE DEF ProfileTools, InboxTools, PostTools
<1>1. On(c, "work", {"connect"}) /\ {"work", "click", "menu"} \subseteq Midway
  BY DEF FindConnect, Midway
<1>2. /\ TypeOK /\ call[c].pc = "work" /\ call[c].tool = "connect"
      /\ Shown(c) \in TabState /\ (call[c].clean => Agrees(call[c], Shown(c)))
  BY <1>1, OnFacts
<1>3. call[c].clean => Profile(Shown(c), call[c].who)
  BY <1>2 DEF Agrees
<1> DEFINE s == Opens(Shown(c), "menu", Nobody)
<1>4. s \in TabState /\ s.kind = Shown(c).kind /\ s.who = Shown(c).who
  BY <1>2, OpensFields
<1>5. call[c].clean => Agrees(At(c, "click"), Shown(c)) /\ Agrees(At(c, "menu"), s)
  BY <1>1, <1>2, <1>3, <1>4, AtFields DEF Agrees, Profile
<1>6. CASE Moves(c, At(c, "click"))
  BY <1>1, <1>2, <1>5, <1>6, AtKeeps
<1>7. CASE Acts(c, At(c, "menu"), call[c].page, s)
  BY <1>1, <1>2, <1>4, <1>5, <1>7, AtKeeps
<1>8. CASE Acts(c, Answered(c, "failed", "none", {}, {}), call[c].page, s)
  BY <1>4, <1>8, FailedFits, ActsKeeps DEF Answers
<1>9. QED
  BY <1>6, <1>7, <1>8 DEF FindConnect

LEMMA ClickConnectKeeps ==
  ASSUME IInv, NEW c \in Calls, ClickConnect(c) PROVE IInv'
<1> USE DEF ProfileTools, InboxTools, PostTools
<1>1. /\ On(c, "click", {"connect"}) \/ On(c, "menu", {"connect"})
      /\ {"submit", "click", "menu"} \subseteq Midway
  BY DEF ClickConnect, Midway
<1>2. /\ TypeOK /\ call[c].pc \in {"click", "menu"} /\ call[c].tool = "connect"
      /\ Shown(c) \in TabState /\ (call[c].clean => Agrees(call[c], Shown(c)))
  BY <1>1, OnFacts
<1>3. PICK q \in Invitable(Shown(c)) :
        Acts(c, At(c, "submit"), call[c].page, Opens(Shown(c), "invite", q))
  BY DEF ClickConnect, Invitable
<1> DEFINE s == Opens(Shown(c), "invite", q)
<1>4. /\ Shown(c).kind = "profile" /\ Shown(c).who \in People \cup {Nobody}
      /\ q \in {Shown(c).who} \cup Suggested[Shown(c).who]
  BY <1>2, <1>3 DEF Invitable, Offers, TabState
<1>5. q \in People \cup {Nobody}
  BY <1>4, PeopleAssumption
<1>6. /\ s \in TabState /\ s.kind = Shown(c).kind /\ s.who = Shown(c).who
      /\ s.box = "invite" /\ s.guest = q
  BY <1>2, <1>5, OpensFields
<1>7. call[c].clean => Profile(s, call[c].who) /\ q \in {call[c].who} \cup Suggested[call[c].who]
  BY <1>2, <1>4, <1>6 DEF Agrees, Profile
<1>8. call[c].clean => Agrees(At(c, "submit"), s)
  BY <1>1, <1>2, <1>6, <1>7, AtFields DEF Agrees
<1>9. QED
  BY <1>1, <1>2, <1>3, <1>6, <1>8, AtKeeps

\* The click on Send, whichever of the two tools makes it.
LEMMA ClickSendKeeps ==
  ASSUME IInv, NEW c \in Calls, TypeOK, Shown(c) \in TabState, ClickSend(c),
         call[c].tool \in {"connect", "message"},
         call[c].clean => IF call[c].tool = "connect"
                            THEN /\ Profile(Shown(c), call[c].who) /\ Shown(c).box = "invite"
                                 /\ Shown(c).guest \in {call[c].who} \cup Suggested[call[c].who]
                            ELSE Thread(Shown(c), call[c].row) /\ Shown(c).draft = {call[c].who}
  PROVE  IInv'
<1> DEFINE s == Shown(c)
<1> USE DEF InboxTools, Profile, Thread
<1>1. /\ {s.who} \in Whom /\ {s.guest} \in Whom /\ s.draft \in Whom /\ {} \in Whom
      /\ "ok" \in Answers /\ "invite" \in Deeds /\ "message" \in Deeds /\ "none" \in Deeds
  BY DEF Whom, TabState, Answers, Deeds
<1>2. CASE /\ SendsInvite(s)
           /\ Acts(c, Answered(c, "ok", "invite", {s.guest}, {}), call[c].page,
                   Opens(s, "none", Nobody))
  <2>1. call[c].clean => Ended(call[c].tool, call[c].who, call[c].row, "ok", "invite", {s.guest}, {})
    BY <1>2 DEF Ended, SendsInvite, Targets
  <2>2. Opens(s, "none", Nobody) \in TabState
    BY OpensFields
  <2>3. QED
    BY <1>1, <1>2, <2>1, <2>2, AnsweredKeeps
<1>3. CASE /\ s.kind = "thread"
           /\ Acts(c, Answered(c, "ok", "message", {s.who}, s.draft), call[c].page,
                   [s EXCEPT !.draft = {}])
  <2>1. call[c].clean => Ended(call[c].tool, call[c].who, call[c].row, "ok", "message", {s.who}, s.draft)
    BY <1>3 DEF Ended, Targets
  <2>2. [s EXCEPT !.draft = {}] \in TabState
    BY <1>1, DraftFields
  <2>3. QED
    BY <1>1, <1>3, <2>1, <2>2, AnsweredKeeps
<1>4. CASE /\ s.kind = "thread" /\ s.draft = {}
           /\ Moves(c, Answered(c, "ok", "none", {}, {}))
  <2>1. ~call[c].clean
    BY <1>4
  <2>2. QED
    BY <1>1, <1>4, <2>1, AnsweredKeeps
<1>5. QED
  BY <1>2, <1>3, <1>4 DEF ClickSend

LEMMA SubmitKeeps ==
  ASSUME IInv, NEW c \in Calls, Submit(c) PROVE IInv'
<1>1. On(c, "submit", {"connect"}) /\ "submit" \in Midway /\ ClickSend(c)
  BY DEF Submit, Midway
<1>2. /\ TypeOK /\ call[c].pc = "submit" /\ call[c].tool = "connect"
      /\ Shown(c) \in TabState /\ (call[c].clean => Agrees(call[c], Shown(c)))
  BY <1>1, OnFacts
<1>3. QED
  BY <1>1, <1>2, ClickSendKeeps DEF Agrees

LEMMA SendMessageKeeps ==
  ASSUME IInv, NEW c \in Calls, SendMessage(c) PROVE IInv'
<1>1. On(c, "send", {"message"}) /\ "send" \in Midway /\ ClickSend(c)
  BY DEF SendMessage, Midway
<1>2. /\ TypeOK /\ call[c].pc = "send" /\ call[c].tool = "message"
      /\ Shown(c) \in TabState /\ (call[c].clean => Agrees(call[c], Shown(c)))
  BY <1>1, OnFacts
<1>3. QED
  BY <1>1, <1>2, ClickSendKeeps DEF Agrees, Composer

LEMMA ReadDegreeKeeps ==
  ASSUME IInv, NEW c \in Calls, ReadDegree(c) PROVE IInv'
<1> USE DEF ProfileTools, InboxTools
<1> DEFINE s == Shown(c)
<1>1. On(c, "work", {"probe"}) /\ "work" \in Midway
  BY DEF ReadDegree, Midway
<1>2. /\ TypeOK /\ call[c].pc = "work" /\ call[c].tool = "probe"
      /\ s \in TabState /\ (call[c].clean => Agrees(call[c], s))
  BY <1>1, OnFacts
<1>3. call[c].clean => Profile(s, call[c].who)
  BY <1>2 DEF Agrees
<1>4. /\ {} \in Whom /\ "read" \in Deeds /\ "none" \in Deeds
      /\ "true" \in Answers /\ "false" \in Answers
  BY DEF Whom, Deeds, Answers
<1>5. ASSUME NEW q \in Badges(s),
             Moves(c, Answered(c, IF q \in Friends THEN "true" ELSE "false", "read", {q}, {}))
      PROVE  IInv'
  <2> DEFINE a == IF q \in Friends THEN "true" ELSE "false"
  <2>1. a \in Answers /\ a # "ok"
    BY <1>4
  <2>2. {q} \in Whom
    BY <1>2, PeopleAssumption DEF Badges, TabState, Whom
  <2>3. call[c].clean => Ended(call[c].tool, call[c].who, call[c].row, a, "read", {q}, {})
    BY <1>2, <1>3, <2>1 DEF Ended, Targets, Profile, Badges
  <2>4. QED
    BY <1>4, <1>5, <2>1, <2>2, <2>3, AnsweredKeeps
<1>6. ASSUME NEW a \in {"true", "false"}, Moves(c, Answered(c, a, "none", {}, {}))
      PROVE  IInv'
  <2>1. call[c].clean => Ended(call[c].tool, call[c].who, call[c].row, a, "none", {}, {})
    BY DEF Ended
  <2>2. QED
    BY <1>4, <1>6, <2>1, AnsweredKeeps
<1>7. QED
  BY <1>5, <1>6 DEF ReadDegree

LEMMA ScrapeMainKeeps ==
  ASSUME IInv, NEW c \in Calls, ScrapeMain(c) PROVE IInv'
<1> DEFINE s == Shown(c)
           seen == IF s.kind = "profile" THEN {s.who} ELSE {Nobody}
           m == At(c, "crawl")
           k == [m EXCEPT !.what = "read", !.to = seen]
<1>1. On(c, "work", {"view", "parse"}) /\ "work" \in Midway /\ Moves(c, k)
  BY DEF ScrapeMain, Midway
<1>2. /\ TypeOK /\ call[c].pc = "work" /\ call[c].tool \in {"view", "parse"}
      /\ s \in TabState /\ (call[c].clean => Agrees(call[c], s))
      /\ Quiet(call[c]) /\ call[c].page \in Tabs
  BY <1>1, OnFacts
<1>3. call[c].clean => Profile(s, call[c].who)
  BY <1>2 DEF Agrees, ProfileTools
<1>4. seen \in Whom
  BY <1>2 DEF TabState, Whom
<1>5. m \in CallState
  BY <1>2, AtFields
<1>6. /\ k \in CallState
      /\ k.pc = m.pc /\ k.tool = m.tool /\ k.who = m.who /\ k.row = m.row /\ k.page = m.page
      /\ k.clean = m.clean /\ k.owned = m.owned /\ k.opened = m.opened
      /\ k.answer = m.answer /\ k.texts = m.texts /\ k.what = "read" /\ k.to = seen
  <2> HIDE DEF m, seen
  <2>1. k \in CallState
    BY <1>4, <1>5 DEF CallState, Whom
  <2>2. QED
    BY <1>5, <2>1 DEF CallState
<1>7. Quiet(k)
  BY <1>2, <1>6, AtFields DEF Quiet
<1>8. k.clean => Agrees(k, s)
  BY <1>2, <1>3, <1>6, AtFields DEF Agrees, Profile
<1>9. Fits(c, k, tab)
  BY <1>2, <1>6, <1>7, <1>8, AtFields DEF Fits, Sound, Shown, IInv, Owns
<1>10. QED
  BY <1>1, <1>9, MovesKeeps

LEMMA CrawlKeeps ==
  ASSUME IInv, NEW c \in Calls, Crawl(c) PROVE IInv'
<1> DEFINE done == [call[c] EXCEPT !.pc = "exit", !.answer = "ok"]
<1>1. PICK next \in {done} \cup (IF call[c].tool = "parse" THEN {call[c]} ELSE {}) :
        IF Shown(c).kind = "closed"
          THEN Moves(c, next)
          ELSE Acts(c, next, call[c].page, Page("other", Nobody))
  BY DEF Crawl
<1>2. /\ call[c] \in CallState /\ call[c].pc = "crawl" /\ call[c].page \in Tabs
      /\ Sound(call[c], tab) /\ Owns(c)
  BY DEF IInv, TypeOK, Crawl
<1>3. /\ call[c].tool \in {"view", "parse"} /\ call[c].what = "read" /\ call[c].texts = {}
      /\ call[c].clean => call[c].to = {call[c].who}
  BY <1>2 DEF Sound, Quiet, Agrees
<1>4. /\ done \in CallState /\ done.pc = "exit" /\ done.answer = "ok"
      /\ done.tool = call[c].tool /\ done.who = call[c].who /\ done.row = call[c].row /\ done.page = call[c].page
      /\ done.clean = call[c].clean /\ done.owned = call[c].owned
      /\ done.opened = call[c].opened /\ done.what = call[c].what
      /\ done.to = call[c].to /\ done.texts = call[c].texts
  BY <1>2 DEF CallState
<1>5. ASSUME NEW T PROVE Fits(c, call[c], T) /\ Fits(c, done, T)
  <2>1. Fits(c, call[c], T)
    BY <1>2, <1>3 DEF Fits, Sound, Agrees, Owns
  <2>2. call[c].clean => Ended(done.tool, done.who, done.row, "ok", done.what, done.to, done.texts)
    BY <1>3, <1>4 DEF Ended, Targets, InboxTools
  <2>3. Quiet(done) /\ (done.clean => Agrees(done, T[done.page]))
    BY <1>4, <2>2 DEF Quiet, Agrees
  <2>4. Fits(c, done, T)
    BY <1>2, <1>4, <2>3 DEF Fits, Sound, Owns
  <2>5. QED
    BY <2>1, <2>4
<1>6. Page("other", Nobody) \in TabState
  BY PageFields, KindTypes
<1>7. Fits(c, next, tab) /\ Fits(c, next, [tab EXCEPT ![call[c].page] = Page("other", Nobody)])
  BY <1>1, <1>5
<1>8. QED
  BY <1>1, <1>6, <1>7, MovesKeeps, ActsKeeps

LEMMA OpenMoreKeeps ==
  ASSUME IInv, NEW c \in Calls, OpenMore(c) PROVE IInv'
<1> DEFINE b == IF Shown(c).box = "menu" THEN "none" ELSE "menu"
           s == Opens(Shown(c), b, Nobody)
<1>1. On(c, "work", {"pdf"}) /\ {"work", "save"} \subseteq Midway
  BY DEF OpenMore, Midway
<1>2. /\ TypeOK /\ call[c].pc = "work" /\ call[c].tool = "pdf"
      /\ Shown(c) \in TabState /\ (call[c].clean => Agrees(call[c], Shown(c)))
  BY <1>1, OnFacts
<1>3. b \in {"none", "menu", "invite", "share", "comment"}
  OBVIOUS
<1>4. s \in TabState /\ s.kind = Shown(c).kind /\ s.who = Shown(c).who
  BY <1>3, <1>2, OpensFields
<1>5. call[c].clean => Profile(s, call[c].who)
  BY <1>2, <1>4 DEF Agrees, Profile, ProfileTools
<1>6. call[c].clean => Agrees(At(c, "save"), s)
  BY <1>1, <1>2, <1>5, AtFields DEF Agrees
<1>7. Acts(c, At(c, "save"), call[c].page, s)
  BY <1>2 DEF OpenMore
<1>8. QED
  BY <1>1, <1>2, <1>4, <1>6, <1>7, AtKeeps

LEMMA SavePdfKeeps ==
  ASSUME IInv, NEW c \in Calls, SavePdf(c) PROVE IInv'
<1> DEFINE s == Shown(c)
<1>1. On(c, "save", {"pdf"}) /\ "save" \in Midway
  BY DEF SavePdf, Midway
<1>2. /\ TypeOK /\ call[c].pc = "save" /\ call[c].tool = "pdf"
      /\ s \in TabState /\ (call[c].clean => Agrees(call[c], s))
  BY <1>1, OnFacts
<1>3. call[c].clean => Ended(call[c].tool, call[c].who, call[c].row, "ok", "read", {s.who}, {})
  BY <1>2 DEF Agrees, Profile, Ended, Targets, InboxTools
<1>4. {s.who} \in Whom /\ {} \in Whom /\ "read" \in Deeds /\ "ok" \in Answers
  BY <1>2 DEF TabState, Whom, Deeds, Answers
<1>5. [s EXCEPT !.box = "none"] \in TabState
  BY <1>2, BoxFields
<1>6. QED
  BY <1>3, <1>4, <1>5, AnsweredKeeps DEF SavePdf

-----------------------------------------------------------------------------
(* Steps in the inbox. *)

LEMMA OpenThreadKeeps ==
  ASSUME IInv, NEW c \in Calls, OpenThread(c) PROVE IInv'
<1> DEFINE pc == IF call[c].tool = "history" THEN "read" ELSE "type"
<1>1. On(c, "work", InboxTools) /\ "work" \in Midway /\ pc \in Midway
  BY DEF OpenThread, Midway
<1>2. /\ TypeOK /\ call[c].pc = "work" /\ call[c].tool \in InboxTools
      /\ Shown(c) \in TabState /\ (call[c].clean => Agrees(call[c], Shown(c)))
      /\ Quiet(call[c]) /\ call[c].page \in Tabs /\ Owns(c) /\ tab \in [Tabs -> TabState]
  BY <1>1, OnFacts DEF IInv, TypeOK
<1>3. PICK q \in People :
        IF Shown(c).kind = "thread" /\ Shown(c).who = q
          THEN Moves(c, [At(c, pc) EXCEPT !.row = q])
          ELSE Acts(c, [At(c, pc) EXCEPT !.row = q], call[c].page, Page("thread", q))
  BY DEF OpenThread
<1> DEFINE m == At(c, pc)
           k == [m EXCEPT !.row = q]
<1>4. m \in CallState
  BY <1>1, <1>2, AtFields
<1>5. /\ k \in CallState /\ k.row = q
      /\ k.pc = m.pc /\ k.tool = m.tool /\ k.who = m.who /\ k.page = m.page
      /\ k.clean = m.clean /\ k.owned = m.owned /\ k.opened = m.opened
      /\ k.answer = m.answer /\ k.texts = m.texts /\ k.what = m.what /\ k.to = m.to
  BY <1>4 DEF CallState
<1>6. /\ m.pc = pc /\ m.tool = call[c].tool /\ m.who = call[c].who /\ m.page = call[c].page
      /\ m.clean = call[c].clean /\ m.owned = call[c].owned /\ m.opened = call[c].opened
      /\ m.answer = call[c].answer /\ m.texts = call[c].texts /\ m.to = call[c].to
  BY <1>1, <1>2, AtFields
<1> HIDE DEF k, m
<1>7. ASSUME NEW s \in TabState, s.kind = "thread", s.who = q, call[c].clean => s.draft = {}
      PROVE  k.clean => Agrees(k, s)
  BY <1>1, <1>2, <1>5, <1>6, <1>7 DEF Agrees, Composer, Thread, InboxTools, PostTools
<1>8. Quiet(k)
  BY <1>1, <1>2, <1>5, <1>6 DEF Quiet
<1>9. ASSUME NEW T, k.clean => Agrees(k, T[call[c].page])
      PROVE  Fits(c, k, T)
  BY <1>1, <1>2, <1>5, <1>6, <1>8, <1>9 DEF Fits, Sound, Owns
<1>10. call[c].clean => Shown(c).draft = {}
  BY <1>2 DEF Agrees
<1>11. CASE Shown(c).kind = "thread" /\ Shown(c).who = q
  <2>1. Fits(c, k, tab)
    BY <1>2, <1>7, <1>9, <1>10, <1>11 DEF Shown
  <2>2. QED
    BY <1>3, <1>11, <2>1, MovesKeeps DEF k, m
<1>12. CASE ~(Shown(c).kind = "thread" /\ Shown(c).who = q)
  <2>1. /\ Page("thread", q) \in TabState /\ Page("thread", q).kind = "thread"
        /\ Page("thread", q).who = q /\ Page("thread", q).draft = {}
    BY PageFields, KindTypes
  <2>2. [tab EXCEPT ![call[c].page] = Page("thread", q)][call[c].page] = Page("thread", q)
    BY <1>2
  <2>3. Fits(c, k, [tab EXCEPT ![call[c].page] = Page("thread", q)])
    BY <1>7, <1>9, <2>1, <2>2
  <2>4. QED
    BY <1>3, <1>12, <2>1, <2>3, ActsKeeps DEF k, m
<1>13. QED
  BY <1>11, <1>12

LEMMA SearchElsewhereKeeps ==
  ASSUME IInv, NEW c \in Calls, SearchElsewhere(c) PROVE IInv'
<1> DEFINE a == IF call[c].tool = "history" THEN "ok" ELSE "failed"
<1>1. Acts(c, Answered(c, a, "none", {}, {}), call[c].page, Page("other", Nobody))
  BY DEF SearchElsewhere
<1>2. a \in Answers /\ (a = "failed" \/ (a = "ok" /\ call[c].tool \in {"history", "browse"}))
  BY DEF Answers
<1>3. Page("other", Nobody) \in TabState
  BY PageFields, KindTypes
<1>4. QED
  BY <1>1, <1>2, <1>3, FailedFits, ActsKeeps

LEMMA TypeMessageKeeps ==
  ASSUME IInv, NEW c \in Calls, TypeMessage(c) PROVE IInv'
<1> DEFINE s == [Shown(c) EXCEPT !.draft = Shown(c).draft \cup {call[c].who}]
<1>1. On(c, "type", {"message"}) /\ {"type", "send"} \subseteq Midway
  BY DEF TypeMessage, Midway
<1>2. /\ TypeOK /\ call[c].pc = "type" /\ call[c].tool = "message"
      /\ call[c].who \in People \cup {Nobody}
      /\ Shown(c) \in TabState /\ (call[c].clean => Agrees(call[c], Shown(c)))
  BY <1>1, OnFacts
<1>3. Shown(c).draft \cup {call[c].who} \in Whom
  BY <1>2 DEF TabState, Whom
<1>4. /\ s \in TabState /\ s.kind = Shown(c).kind /\ s.who = Shown(c).who
      /\ s.draft = Shown(c).draft \cup {call[c].who}
  BY <1>2, <1>3, DraftFields
<1>5. call[c].clean => Composer(call[c], Shown(c), {})
  BY <1>2 DEF Agrees
<1>6. call[c].clean => Composer(At(c, "send"), s, {At(c, "send").who})
  BY <1>1, <1>2, <1>4, <1>5, AtFields DEF Composer, Thread
<1>7. call[c].clean => Agrees(At(c, "send"), s)
  BY <1>1, <1>2, <1>6, AtFields DEF Agrees
<1>8. Acts(c, At(c, "send"), call[c].page, s)
  BY <1>2 DEF TypeMessage, TabState
<1>9. QED
  BY <1>1, <1>2, <1>4, <1>7, <1>8, AtKeeps

LEMMA ReadThreadKeeps ==
  ASSUME IInv, NEW c \in Calls, ReadThread(c) PROVE IInv'
<1> DEFINE s == Shown(c)
<1>1. On(c, "read", {"history"}) /\ "read" \in Midway
  BY DEF ReadThread, Midway
<1>2. /\ TypeOK /\ call[c].pc = "read" /\ call[c].tool = "history"
      /\ s \in TabState /\ (call[c].clean => Agrees(call[c], s))
  BY <1>1, OnFacts
<1>3. CASE Moves(c, Answered(c, "ok", "read", {s.who}, {}))
  <2>1. call[c].clean => Ended(call[c].tool, call[c].who, call[c].row, "ok", "read", {s.who}, {})
    BY <1>2 DEF Agrees, Thread, Ended, Targets, InboxTools
  <2>2. {s.who} \in Whom /\ {} \in Whom /\ "read" \in Deeds /\ "ok" \in Answers
    BY <1>2 DEF TabState, Whom, Deeds, Answers
  <2>3. QED
    BY <1>3, <2>1, <2>2, AnsweredKeeps
<1>4. CASE Moves(c, Answered(c, "ok", "none", {}, {}))
  BY <1>2, <1>4, FailedFits, MovesKeeps DEF Answers
<1>5. QED
  BY <1>3, <1>4 DEF ReadThread

-----------------------------------------------------------------------------
(* Posts, comments and the browsing session. *)

LEMMA OpenComposerKeeps ==
  ASSUME IInv, NEW c \in Calls, OpenComposer(c) PROVE IInv'
<1> DEFINE b == IF call[c].tool = "post" THEN "share" ELSE "comment"
           s == [Shown(c) EXCEPT !.box = b]
<1>1. On(c, "work", PostTools) /\ {"work", "type"} \subseteq Midway
  BY DEF OpenComposer, Midway
<1>2. /\ TypeOK /\ call[c].pc = "work" /\ call[c].tool \in PostTools
      /\ Shown(c) \in TabState /\ (call[c].clean => Agrees(call[c], Shown(c)))
  BY <1>1, OnFacts
<1>3. b \in {"none", "menu", "invite", "share", "comment"}
  OBVIOUS
<1>4. /\ s \in TabState /\ s.kind = Shown(c).kind /\ s.who = Shown(c).who /\ s.box = b
      /\ s.draft = Shown(c).draft
  BY <1>2, <1>3, BoxFields
<1>5. call[c].clean => /\ s.draft = {}
                       /\ call[c].tool = "comment" => s.kind = "post" /\ s.who = call[c].who
  BY <1>2, <1>4 DEF Agrees
<1>6. call[c].clean => Composer(At(c, "type"), s, {})
  BY <1>1, <1>2, <1>4, <1>5, AtFields DEF Composer, PostTools
<1>7. call[c].clean => Agrees(At(c, "type"), s)
  BY <1>1, <1>6, <1>2, AtFields DEF Agrees
<1>8. Acts(c, At(c, "type"), call[c].page, s)
  BY DEF OpenComposer
<1>9. QED
  BY <1>1, <1>2, <1>4, <1>7, <1>8, AtKeeps

LEMMA TypePostKeeps ==
  ASSUME IInv, NEW c \in Calls, TypePost(c) PROVE IInv'
<1> DEFINE s == [Shown(c) EXCEPT !.draft = Shown(c).draft \cup {call[c].who}]
<1>1. On(c, "type", PostTools) /\ {"type", "send"} \subseteq Midway
  BY DEF TypePost, Midway
<1>2. /\ TypeOK /\ call[c].pc = "type" /\ call[c].tool \in PostTools
      /\ call[c].who \in People \cup {Nobody}
      /\ Shown(c) \in TabState /\ (call[c].clean => Agrees(call[c], Shown(c)))
  BY <1>1, OnFacts
<1>3. Shown(c).draft \cup {call[c].who} \in Whom
  BY <1>2 DEF TabState, Whom
<1>4. /\ s \in TabState /\ s.kind = Shown(c).kind /\ s.who = Shown(c).who
      /\ s.box = Shown(c).box /\ s.draft = Shown(c).draft \cup {call[c].who}
  BY <1>2, <1>3, DraftFields
<1>5. call[c].clean => Composer(call[c], Shown(c), {})
  BY <1>2 DEF Agrees
<1>6. call[c].clean => Composer(At(c, "send"), s, {At(c, "send").who})
  BY <1>1, <1>2, <1>4, <1>5, AtFields DEF Composer, PostTools
<1>7. call[c].clean => Agrees(At(c, "send"), s)
  BY <1>1, <1>2, <1>6, AtFields DEF Agrees
<1>8. Acts(c, At(c, "send"), call[c].page, s)
  BY <1>2 DEF TypePost, TabState
<1>9. QED
  BY <1>1, <1>2, <1>4, <1>7, <1>8, AtKeeps

LEMMA PublishPostKeeps ==
  ASSUME IInv, NEW c \in Calls, PublishPost(c) PROVE IInv'
<1> DEFINE s == Shown(c)
           after == [s EXCEPT !.box = "none", !.draft = {}]
<1>1. On(c, "send", PostTools) /\ "send" \in Midway
  BY DEF PublishPost, Midway
<1>2. /\ TypeOK /\ call[c].pc = "send" /\ call[c].tool \in PostTools
      /\ s \in TabState /\ (call[c].clean => Agrees(call[c], s))
  BY <1>1, OnFacts
<1>3. call[c].clean => Composer(call[c], s, {call[c].who})
  BY <1>2 DEF Agrees
<1>4. after \in TabState
  BY <1>2 DEF TabState
<1>5. /\ {Nobody} \in Whom /\ s.draft \in Whom /\ "ok" \in Answers
      /\ "post" \in Deeds /\ "comment" \in Deeds
      /\ call[c].tool = "post" \/ call[c].tool = "comment"
  BY <1>2 DEF TabState, Whom, Deeds, Answers, PostTools
<1>6. CASE s.box = "share" /\ Acts(c, Answered(c, "ok", "post", {Nobody}, s.draft),
                                   call[c].page, after)
  <2>1. call[c].clean => Ended(call[c].tool, call[c].who, call[c].row, "ok", "post", {Nobody}, s.draft)
    BY <1>3, <1>5, <1>6 DEF Composer, Ended, Targets, InboxTools
  <2>2. QED
    BY <1>4, <1>5, <1>6, <2>1, AnsweredKeeps
<1>7. ASSUME NEW p \in IF s.kind = "post" THEN {s.who} ELSE People,
             s.box = "comment", call[c].tool = "comment",
             Acts(c, Answered(c, "ok", "comment", {p}, s.draft), call[c].page, after)
      PROVE  IInv'
  <2>1. {p} \in Whom
    BY <1>2, <1>7 DEF TabState, Whom
  <2>2. call[c].clean => Ended(call[c].tool, call[c].who, call[c].row, "ok", "comment", {p}, s.draft)
    BY <1>3, <1>7 DEF Composer, Ended, Targets, InboxTools
  <2>3. QED
    BY <1>4, <1>5, <1>7, <2>1, <2>2, AnsweredKeeps
<1>8. QED
  BY <1>6, <1>7 DEF PublishPost

LEMMA BrowseKeeps ==
  ASSUME IInv, NEW c \in Calls, Browse(c) \/ BrowseRound(c) PROVE IInv'
<1> DEFINE feed == Page("feed", Nobody)
           post == Page("post", Nobody)
<1>1. /\ call[c].tool = "browse" /\ call[c].pc \in {"go", "work", "read"}
      /\ {"go", "work", "read"} \subseteq Midway /\ TypeOK /\ call[c].page \in Tabs
  BY DEF Browse, BrowseRound, On, Midway, IInv
<1>2. ASSUME NEW s \in TabState
      PROVE  Agrees(At(c, "work"), s) /\ Agrees(At(c, "read"), s) /\ Agrees(At(c, "go"), s)
  BY <1>1, AtFields DEF Agrees, ProfileTools, InboxTools, PostTools
<1>3. Shown(c) \in TabState /\ feed \in TabState /\ post \in TabState
  BY <1>1, PageFields, KindTypes DEF Shown, TypeOK
<1>4. CASE Moves(c, At(c, "work"))
  BY <1>1, <1>2, <1>3, <1>4, AtKeeps
<1>5. CASE Acts(c, At(c, "work"), call[c].page, feed) \/ Acts(c, At(c, "read"), call[c].page, post)
  BY <1>1, <1>2, <1>3, <1>5, AtKeeps
<1>6. CASE Moves(c, Answered(c, "ok", "none", {}, {}))
  BY <1>1, <1>6, FailedFits, MovesKeeps DEF Answers
<1>7. CASE Moves(c, At(c, "go"))
  BY <1>1, <1>2, <1>3, <1>7, AtKeeps
<1>8. QED
  BY <1>4, <1>5, <1>6, <1>7 DEF Browse, BrowseRound

-----------------------------------------------------------------------------
(* The life of a call, and the operator. *)

LEMMA IdleFits ==
  ASSUME NEW c, NEW T PROVE Fits(c, Idle, T)
<1>1. /\ Idle \in CallState /\ Idle.pc = "idle" /\ Idle.owned = FALSE /\ Idle.clean = FALSE
      /\ Idle.answer = "none" /\ Idle.texts = {} /\ Idle.to = {}
  BY DEF Idle, CallState, Tools
<1>2. QED
  BY <1>1 DEF Fits, Sound, Quiet

LEMMA CallKeeps ==
  ASSUME IInv, NEW c \in Calls, Call(c) PROVE IInv'
<1>1. PICK w \in Wanted[c] :
        Moves(c, [Idle EXCEPT !.pc = "attach", !.tool = w[1], !.who = w[2]])
  BY DEF Call
<1>2. w[1] \in Tools /\ w[2] \in People \cup {Nobody}
  BY CallAssumption
<1> DEFINE k == [Idle EXCEPT !.pc = "attach", !.tool = w[1], !.who = w[2]]
<1>3. /\ k \in CallState /\ k.pc = "attach" /\ k.owned = FALSE /\ k.clean = FALSE
      /\ k.answer = "none" /\ k.texts = {} /\ k.to = {}
  BY <1>2 DEF Idle, CallState
<1>4. Fits(c, k, tab)
  BY <1>3 DEF Fits, Sound, Quiet
<1>5. QED
  BY <1>1, <1>4, MovesKeeps

LEMMA NextJobKeeps ==
  ASSUME IInv, NEW c \in Calls, NextJob(c) PROVE IInv'
<1>1. PICK w \in Wanted[c] :
        Moves(c, [call[c] EXCEPT !.pc = "go", !.tool = w[1], !.who = w[2], !.answer = "none",
                                 !.clean = Fresh(Shown(c)), !.row = Nobody,
                                 !.what = "none", !.to = {}, !.texts = {}])
  BY DEF NextJob
<1>2. w[1] \in Tools /\ w[2] \in People \cup {Nobody}
  BY CallAssumption
<1>3. Fresh(Shown(c)) \in BOOLEAN
  BY Zenon DEF Fresh
<1>4. /\ call[c] \in CallState /\ call[c].page \in Tabs /\ c \in Keepers
  BY DEF NextJob, IInv, TypeOK
<1> DEFINE f == Fresh(Shown(c))
           k == [call[c] EXCEPT !.pc = "go", !.tool = w[1], !.who = w[2], !.answer = "none",
                                !.clean = f, !.row = Nobody, !.what = "none", !.to = {}, !.texts = {}]
<1> HIDE DEF f
<1>5. /\ k \in CallState /\ k.pc = "go" /\ k.owned = call[c].owned /\ k.page = call[c].page
      /\ k.opened = call[c].opened /\ k.clean = f /\ k.answer = "none" /\ k.texts = {}
      /\ k.to = {}
  BY <1>2, <1>3, <1>4 DEF CallState, f
<1>6. k.clean => tab[k.page].draft = {}
  BY <1>5 DEF f, Fresh, Shown
<1>7. Fits(c, k, tab)
  BY <1>4, <1>5, <1>6 DEF Fits, Sound, Quiet, Agrees
<1>8. QED
  BY <1>1, <1>7, MovesKeeps DEF f

LEMMA AttachReuseKeeps ==
  ASSUME IInv, NEW c \in Calls, AttachReuse(c) PROVE IInv'
<1>1. PICK t \in PickTab :
        Moves(c, [call[c] EXCEPT !.pc = "go", !.page = t, !.clean = Fresh(tab[t])])
  BY DEF AttachReuse
<1>2. t \in Tabs
  BY DEF PickTab, LinkedInTabs, UsableTabs
<1>3. /\ call[c] \in CallState /\ call[c].pc = "attach" /\ Quiet(call[c]) /\ Owns(c)
  BY DEF AttachReuse, IInv, TypeOK, Sound
<1> DEFINE f == Fresh(tab[t])
           k == [call[c] EXCEPT !.pc = "go", !.page = t, !.clean = f]
<1>4. f \in BOOLEAN
  BY Zenon DEF Fresh
<1> HIDE DEF f
<1>5. /\ k \in CallState /\ k.pc = "go" /\ k.owned = call[c].owned /\ k.page = t
      /\ k.opened = call[c].opened /\ k.clean = f /\ k.answer = call[c].answer
      /\ k.texts = call[c].texts /\ k.to = call[c].to
  BY <1>2, <1>3, <1>4 DEF CallState
<1>6. k.clean => tab[k.page].draft = {}
  BY <1>5 DEF f, Fresh
<1>7. Fits(c, k, tab)
  BY <1>2, <1>3, <1>5, <1>6 DEF Fits, Sound, Quiet, Agrees, Owns
<1>8. QED
  BY <1>1, <1>7, MovesKeeps DEF f

LEMMA AttachNewKeeps ==
  ASSUME IInv, NEW c \in Calls, AttachNew(c) PROVE IInv'
<1>1. PICK t \in Tabs :
        Acts(c, [call[c] EXCEPT !.pc = "go", !.page = t, !.owned = TRUE, !.opened = t,
                                !.clean = TRUE],
             t, Page("blank", Nobody))
  BY DEF AttachNew
<1>2. /\ call[c] \in CallState /\ call[c].pc = "attach" /\ Quiet(call[c])
      /\ tab \in [Tabs -> TabState]
  BY DEF AttachNew, IInv, TypeOK, Sound
<1> DEFINE k == [call[c] EXCEPT !.pc = "go", !.page = t, !.owned = TRUE, !.opened = t,
                                !.clean = TRUE]
           s == Page("blank", Nobody)
<1>3. s \in TabState /\ s.draft = {}
  BY PageFields, KindTypes
<1>4. /\ k \in CallState /\ k.pc = "go" /\ k.page = t /\ k.opened = t
      /\ k.answer = call[c].answer /\ k.texts = call[c].texts /\ k.to = call[c].to
  BY <1>2 DEF CallState
<1>5. [tab EXCEPT ![t] = s][k.page] = s
  BY <1>2, <1>4
<1>6. Fits(c, k, [tab EXCEPT ![t] = s])
  BY <1>2, <1>3, <1>4, <1>5 DEF Fits, Sound, Quiet, Agrees
<1>7. QED
  BY <1>1, <1>3, <1>6, ActsKeeps

LEMMA DetachKeeps ==
  ASSUME IInv, NEW c \in Calls, Detach(c) PROVE IInv'
<1>1. Page("closed", Nobody) \in TabState
  BY PageFields, KindTypes
<1>2. QED
  BY <1>1, IdleFits, MovesKeeps, ActsKeeps DEF Detach

LEMMA GiveUpKeeps ==
  ASSUME IInv, NEW c \in Calls, GiveUp(c) PROVE IInv'
BY FailedFits, MovesKeeps DEF GiveUp, Answers

LEMMA DieKeeps ==
  ASSUME IInv, NEW c \in Calls, Die(c) PROVE IInv'
BY IdleFits, MovesKeeps DEF Die

LEMMA UserBrowsesKeeps ==
  ASSUME IInv, NEW t \in Tabs, UserBrowses(t) PROVE IInv'
<1>1. PICK kind \in {"feed", "inbox"} : tab' = [tab EXCEPT ![t] = Page(kind, Nobody)]
  BY DEF UserBrowses
<1>2. call' = [d \in Calls |-> Disturbed(call[d], t)] /\ tab \in [Tabs -> TabState]
  BY DEF UserBrowses, IInv, TypeOK
<1>3. Page(kind, Nobody) \in TabState
  BY PageFields, KindTypes
<1>4. ASSUME NEW d \in Calls
      PROVE  /\ call'[d] \in CallState
             /\ call'[d].pc \notin {"idle", "attach", "exit"} => call'[d].page \in Tabs
             /\ Sound(call'[d], tab')
             /\ Owns(d)'
  <2>1. /\ call[d] \in CallState
        /\ call[d].pc \notin {"idle", "attach", "exit"} => call[d].page \in Tabs
        /\ Sound(call[d], tab)
        /\ Owns(d)
        /\ call'[d] = Disturbed(call[d], t)
    BY <1>2 DEF IInv, TypeOK
  <2>2. Sound(call'[d], tab')
    BY <1>1, <1>2, <2>1, DisturbedSound
  <2>3. QED
    BY <2>1, <2>2, DisturbedType DEF Owns
<1>5. QED
  BY <1>1, <1>2, <1>3, <1>4 DEF IInv, TypeOK

-----------------------------------------------------------------------------
(* The theorems. *)

LEMMA InitIInv == Init => IInv
<1> SUFFICES ASSUME Init PROVE IInv
  OBVIOUS
<1>1. \A kind \in {"closed", "blank", "web", "feed"} : Page(kind, Nobody) \in TabState
  BY PageFields, KindTypes
<1>2. tab \in [Tabs -> TabState]
  BY <1>1 DEF Init
<1>3. Fits(Nobody, Idle, tab)
  BY IdleFits
<1>4. /\ Idle.pc = "idle" /\ Idle.owned = FALSE
  BY DEF Idle
<1>5. QED
  BY <1>2, <1>3, <1>4 DEF Init, IInv, TypeOK, Owns, Fits

LEMMA NextIInv == IInv /\ [Next]_vars => IInv'
<1> SUFFICES ASSUME IInv, [Next]_vars PROVE IInv'
  OBVIOUS
<1>1. ASSUME NEW c \in Calls, Lifecycle(c) PROVE IInv'
  BY <1>1, CallKeeps, NextJobKeeps, AttachReuseKeeps, AttachNewKeeps, DetachKeeps,
     GiveUpKeeps, DieKeeps DEF Lifecycle
<1>2. ASSUME NEW c \in Calls, Steps(c) PROVE IInv'
  BY <1>2, EnsureProfileTabKeeps, OpenMessagingHomeKeeps, GotoPostKeeps, FindConnectKeeps,
     ClickConnectKeeps, SubmitKeeps, ReadDegreeKeeps, ScrapeMainKeeps, CrawlKeeps,
     OpenMoreKeeps, SavePdfKeeps, OpenThreadKeeps, SearchElsewhereKeeps, TypeMessageKeeps,
     SendMessageKeeps, ReadThreadKeeps, OpenComposerKeeps, TypePostKeeps, PublishPostKeeps,
     BrowseKeeps DEF Steps
<1>3. CASE UNCHANGED vars
  BY <1>3 DEF vars, IInv, TypeOK, Owns
<1>4. QED
  BY <1>1, <1>2, <1>3, UserBrowsesKeeps DEF Next

LEMMA Invariant == Spec => []IInv
BY InitIInv, NextIInv, PTL DEF Spec

\* Tabs and calls keep their types, and a call that is under way has a tab.
THEOREM TypeCorrect == Spec => []TypeOK
<1>1. IInv => TypeOK
  BY DEF IInv
<1>2. QED
  BY <1>1, Invariant, PTL

\* Whatever the callers want and however many there are: on a tab nobody else has touched
\* nothing reaches, and nothing is read of, anybody but the person meant, a person suggested
\* beside that one, or in the inbox the person whose thread the call's own search opened;
\* and no text is sent but the call's own.
THEOREM HitsTarget == Spec => []UndisturbedHitsTarget
<1>1. ASSUME IInv PROVE UndisturbedHitsTarget
  <2> SUFFICES ASSUME NEW c \in Calls, call[c].clean
               PROVE  /\ call[c].to \subseteq Targets(call[c].tool, call[c].who, call[c].row)
                      /\ call[c].texts \subseteq {call[c].who}
    BY DEF UndisturbedHitsTarget
  <2>1. Quiet(call[c]) /\ Agrees(call[c], tab[call[c].page])
    BY <1>1 DEF IInv, Sound
  <2>2. CASE call[c].pc = "exit"
    BY <2>1, <2>2 DEF Agrees, Ended
  <2>3. CASE call[c].pc = "crawl"
    BY <2>1, <2>3 DEF Agrees, Quiet, InboxTools, Targets
  <2>4. CASE call[c].pc \notin {"crawl", "exit"}
    BY <2>1, <2>4 DEF Quiet
  <2>5. QED
    BY <2>2, <2>3, <2>4
<1>2. QED
  BY <1>1, Invariant, PTL

\* On such a tab an "ok" of a tool means that it did what it claims.
THEOREM AnswerTrue == Spec => []UndisturbedAnswerTrue
<1>1. ASSUME IInv PROVE UndisturbedAnswerTrue
  <2>1. ASSUME NEW c \in Calls, call[c].clean
        PROVE  call[c].pc # "exit" => call[c].answer = "none"
    BY <1>1 DEF IInv, Sound, Quiet
  <2>2. ASSUME NEW c \in Calls, call[c].clean, call[c].pc = "exit"
        PROVE  Ended(call[c].tool, call[c].who, call[c].row, call[c].answer, call[c].what,
                     call[c].to, call[c].texts)
    BY <1>1, <2>2 DEF IInv, Sound, Agrees
  <2>3. QED
    BY <2>1, <2>2 DEF UndisturbedAnswerTrue, Ended, PostTools, Deed
<1>2. QED
  BY <1>1, Invariant, PTL

(* No step but Detach closes a tab. *)
StaysOpen == \A u \in Tabs : tab'[u].kind = "closed" => tab[u].kind = "closed"

LEMMA TurnsStaysOpen ==
  ASSUME IInv, NEW t, NEW s, tab' = [tab EXCEPT ![t] = s], s.kind # "closed"
  PROVE  StaysOpen
BY DEF IInv, TypeOK, StaysOpen

LEMMA MovesStaysOpen ==
  ASSUME NEW c, NEW k, Moves(c, k) PROVE StaysOpen
BY DEF Moves, StaysOpen

\* A page a call loads.
LEMMA LoadStaysOpen ==
  ASSUME IInv, NEW c, NEW k, NEW t, NEW kind, NEW p, Acts(c, k, t, Page(kind, p)),
         kind # "closed"
  PROVE  StaysOpen
<1>1. Page(kind, p).kind # "closed"
  BY DEF Page
<1>2. QED
  BY <1>1, TurnsStaysOpen DEF Acts

\* A page it leaves, but for what is open on it and typed into it.
LEMMA TouchStaysOpen ==
  ASSUME IInv, NEW c \in Calls, NEW k, NEW b, NEW d,
         call[c].page \in Tabs, Shown(c).kind # "closed",
         \/ Acts(c, k, call[c].page, [Shown(c) EXCEPT !.box = b])
         \/ Acts(c, k, call[c].page, Opens(Shown(c), b, d))
         \/ Acts(c, k, call[c].page, [Shown(c) EXCEPT !.draft = d])
         \/ Acts(c, k, call[c].page, [Shown(c) EXCEPT !.box = b, !.draft = d])
  PROVE  StaysOpen
<1>1. Shown(c) \in TabState
  BY DEF IInv, TypeOK, Shown
<1>2. /\ [Shown(c) EXCEPT !.box = b].kind # "closed"
      /\ Opens(Shown(c), b, d).kind # "closed"
      /\ [Shown(c) EXCEPT !.draft = d].kind # "closed"
      /\ [Shown(c) EXCEPT !.box = b, !.draft = d].kind # "closed"
  BY <1>1 DEF TabState, Opens
<1>3. QED
  BY <1>2, TurnsStaysOpen DEF Acts

LEMMA StepsStayOpen ==
  ASSUME IInv, NEW c \in Calls, Steps(c) PROVE StaysOpen
<1>1. ASSUME EnsureProfileTab(c) \/ OpenMessagingHome(c) PROVE StaysOpen
  BY <1>1, LoadStaysOpen, MovesStaysOpen DEF EnsureProfileTab, OpenMessagingHome
<1>2. ASSUME GotoPost(c) PROVE StaysOpen
  BY <1>2, LoadStaysOpen DEF GotoPost
<1>3. ASSUME FindConnect(c) PROVE StaysOpen
  BY <1>3, TouchStaysOpen, MovesStaysOpen DEF FindConnect, On
<1>4. ASSUME ClickConnect(c) PROVE StaysOpen
  BY <1>4, TouchStaysOpen DEF ClickConnect, On
<1>5. ASSUME Submit(c) \/ SendMessage(c) PROVE StaysOpen
  BY <1>5, TouchStaysOpen, MovesStaysOpen DEF Submit, SendMessage, ClickSend, On
<1>6. ASSUME ReadDegree(c) \/ ScrapeMain(c) \/ ReadThread(c) PROVE StaysOpen
  BY <1>6, MovesStaysOpen DEF ReadDegree, ScrapeMain, ReadThread
<1>7. ASSUME Crawl(c) PROVE StaysOpen
  BY <1>7, LoadStaysOpen, MovesStaysOpen DEF Crawl
<1>8. ASSUME OpenMore(c) \/ SavePdf(c) PROVE StaysOpen
  BY <1>8, TouchStaysOpen DEF OpenMore, SavePdf, On
<1>9. ASSUME OpenThread(c) \/ SearchElsewhere(c) PROVE StaysOpen
  BY <1>9, LoadStaysOpen, MovesStaysOpen DEF OpenThread, SearchElsewhere
<1>10. ASSUME TypeMessage(c) \/ TypePost(c) PROVE StaysOpen
  BY <1>10, TouchStaysOpen DEF TypeMessage, TypePost, On
<1>11. ASSUME OpenComposer(c) \/ PublishPost(c) PROVE StaysOpen
  BY <1>11, TouchStaysOpen DEF OpenComposer, PublishPost, On
<1>12. ASSUME Browse(c) \/ BrowseRound(c) PROVE StaysOpen
  BY <1>12, LoadStaysOpen, MovesStaysOpen DEF Browse, BrowseRound
<1>13. QED
  BY <1>1, <1>2, <1>3, <1>4, <1>5, <1>6, <1>7, <1>8, <1>9, <1>10, <1>11, <1>12 DEF Steps

\* A tab is only ever closed by a call that opened one, and by a call that never went to
\* the inbox only that one.
THEOREM ClosesOwn == Spec => ClosesItsOwnTab
<1> DEFINE Closes(t) == tab[t].kind # "closed" /\ tab'[t].kind = "closed"
           Mine(c, t) == /\ call[c].page = t /\ call[c].owned
                         /\ (\/ call[c].opened = t
                             \/ call[c].tool \in InboxTools
                             \/ c \in Keepers)
<1>1. ASSUME IInv, [Next]_vars, NEW t \in Tabs, Closes(t)
      PROVE  \E c \in Calls : Mine(c, t)
  <2>1. ASSUME NEW c \in Calls, Detach(c) PROVE Mine(c, t)
    <3>1. Acts(c, Idle, call[c].page, Page("closed", Nobody)) /\ call[c].owned
      BY <1>1, <2>1 DEF Detach, Moves
    <3>2. call[c].page = t
      BY <1>1, <3>1 DEF Acts, IInv, TypeOK
    <3>3. QED
      BY <1>1, <3>1, <3>2 DEF IInv, Owns
  <2>2. ASSUME NEW c \in Calls, Lifecycle(c), ~Detach(c) PROVE StaysOpen
    BY <1>1, <2>2, LoadStaysOpen, MovesStaysOpen
       DEF Lifecycle, Call, NextJob, AttachReuse, AttachNew, GiveUp, Die
  <2>3. ASSUME NEW u \in Tabs, UserBrowses(u) PROVE StaysOpen
    BY <1>1, <2>3, TurnsStaysOpen DEF UserBrowses, Page
  <2>4. CASE UNCHANGED vars
    BY <1>1, <2>4 DEF vars
  <2>5. QED
    BY <1>1, <2>1, <2>2, <2>3, <2>4, StepsStayOpen DEF Next, StaysOpen
<1>2. IInv /\ [Next]_vars =>
        [\A t \in Tabs : (tab[t].kind # "closed" /\ tab'[t].kind = "closed") =>
           \E c \in Calls : /\ call[c].page = t
                             /\ call[c].owned
                             /\ (\/ call[c].opened = t
                                 \/ call[c].tool \in InboxTools
                                 \/ c \in Keepers)]_vars
  BY <1>1
<1>3. QED
  BY <1>2, Invariant, PTL DEF Spec, ClosesItsOwnTab
=============================================================================
