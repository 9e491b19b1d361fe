----------------------------- MODULE SharedBrowser -----------------------------
(***************************************************************************)
(* Every LinkedIn tool call attaches its own LinkedInBrowser to the one    *)
(* Chrome of the operator and picks one of its tabs.  Nothing reserves a   *)
(* tab: the two sweeps, the planner sessions, the queue worker, a          *)
(* browse_forever session and the operator all steer the same tab, and a   *)
(* call only notices by finding, or not finding, what it looks for on the  *)
(* page the tab shows by then.                                             *)
(*                                                                         *)
(* A call is a record that walks through the awaits of its tool; a tab is  *)
(* the page it shows, what is open on it (a menu, a dialog, a composer)    *)
(* and the text typed into it, as the set of people the typed texts were   *)
(* meant for.  `clean' is history: nobody else has changed the tab the     *)
(* call works on since it started on it, and the call found no text there. *)
(* `row' is history too: whose thread the call's own search opened.        *)
(* The daily limits the tools check first are in RateLimits.               *)
(***************************************************************************)
CONSTANTS Calls,    \* tool calls that may be in flight at once
          Keepers,  \* the calls that stay attached from job to job: the queue worker
          People, Nobody,
          Friends,  \* first-degree connections: no Connect button on their profiles
          Suggested, \* whom LinkedIn shows, to connect with, beside a person's profile
          Tabs, NoTab,
          Wanted    \* what each caller may ask for: pairs of a tool and a person

ProfileTools == {"connect", "probe", "view", "parse", "pdf"}
InboxTools   == {"message", "history"}
PostTools    == {"post", "comment"}
Tools        == ProfileTools \cup InboxTools \cup PostTools \cup {"browse"}

ASSUME PeopleAssumption == /\ Friends \subseteq People /\ Nobody \notin People
                           /\ Suggested \in [People \cup {Nobody} -> SUBSET People]
ASSUME CallAssumption   == /\ Keepers \subseteq Calls
                           /\ NoTab \notin Tabs
                           /\ Wanted \in [Calls -> SUBSET (Tools \X (People \cup {Nobody}))]

VARIABLES tab,  \* what each tab of the Chrome shows
          call  \* the calls in flight

vars == <<tab, call>>

Kinds == {"closed", "blank", "web", "feed", "inbox", "other", "profile", "thread", "post"}
LinkedIn  == Kinds \ {"closed", "blank", "web"}
Messaging == {"inbox", "thread"}

TabState  == [kind : Kinds, who : People \cup {Nobody},
              box : {"none", "menu", "invite", "share", "comment"},
              guest : People \cup {Nobody},  \* whom the invitation dialog is about
              draft : SUBSET (People \cup {Nobody})]
CallState == [pc : {"idle", "attach", "go", "work", "click", "menu", "submit", "type",
                    "send", "crawl", "read", "save", "exit"},
              tool : Tools, who : People \cup {Nobody},
              page : Tabs \cup {NoTab}, owned : BOOLEAN, opened : Tabs \cup {NoTab},
              clean : BOOLEAN, answer : {"none", "ok", "true", "false", "failed"},
              row : People \cup {Nobody},
              what : {"none", "read", "invite", "message", "post", "comment"},
              to : SUBSET (People \cup {Nobody}), texts : SUBSET (People \cup {Nobody})]

\* A page just loaded.
Page(kind, p) == [kind |-> kind, who |-> p, box |-> "none", guest |-> Nobody, draft |-> {}]

Idle == [pc |-> "idle", tool |-> "browse", who |-> Nobody, page |-> NoTab, owned |-> FALSE,
         opened |-> NoTab, clean |-> FALSE, answer |-> "none", row |-> Nobody,
         what |-> "none", to |-> {}, texts |-> {}]

TypeOK ==
  /\ tab \in [Tabs -> TabState]
  /\ call \in [Calls -> CallState]
  /\ \A c \in Calls : call[c].pc \notin {"idle", "attach", "exit"} => call[c].page \in Tabs

Init ==
  /\ tab \in [Tabs -> {Page(kind, Nobody) : kind \in {"closed", "blank", "web", "feed"}}]
  /\ call = [c \in Calls |-> Idle]

-----------------------------------------------------------------------------
(* How a step touches the shared tabs. *)

\* What the others make of a change of tab t.
Disturbed(k, t) == IF k.page = t THEN [k EXCEPT !.clean = FALSE] ELSE k

\* Call c becomes k; no tab changes.
Moves(c, k) == call' = [call EXCEPT ![c] = k] /\ UNCHANGED tab

\* Call c becomes k and turns tab t into s.
Acts(c, k, t, s) ==
  /\ tab' = [tab EXCEPT ![t] = s]
  /\ call' = [d \in Calls |-> IF d = c THEN k ELSE Disturbed(call[d], t)]

Shown(c) == tab[call[c].page]

\* Call c is at pc with one of these tools, and its tab has not been closed.
On(c, pc, tools) ==
  /\ call[c].pc = pc
  /\ call[c].tool \in tools
  /\ call[c].page \in Tabs
  /\ Shown(c).kind # "closed"

At(c, pc) == [call[c] EXCEPT !.pc = pc]

Answered(c, answer, what, to, texts) ==
  [call[c] EXCEPT !.pc = "exit", !.answer = answer, !.what = what, !.to = to, !.texts = texts]

\* Page s with b open on it, about q.
Opens(s, b, q) == [s EXCEPT !.box = b, !.guest = q]

Fresh(s) == s.draft = {}

-----------------------------------------------------------------------------
(* The life of a call: __aenter__, the tool, __aexit__. *)

Call(c) ==
  /\ call[c].pc = "idle"
  /\ \E w \in Wanted[c] :
       Moves(c, [Idle EXCEPT !.pc = "attach", !.tool = w[1], !.who = w[2]])

NextJob(c) ==
  /\ c \in Keepers
  /\ call[c].pc = "exit"
  /\ call[c].page \in Tabs
  /\ \E w \in Wanted[c] :
       Moves(c, [call[c] EXCEPT !.pc = "go", !.tool = w[1], !.who = w[2], !.answer = "none",
                                !.clean = Fresh(Shown(c)), !.row = Nobody,
                                !.what = "none", !.to = {}, !.texts = {}])

LinkedInTabs == {t \in Tabs : tab[t].kind \in LinkedIn}
UsableTabs   == {t \in Tabs : tab[t].kind \notin {"closed", "blank"}}

\* _pick_tab: a LinkedIn tab, else any ordinary page.  Which of several is first
\* depends on the order Chrome lists them in: any.
PickTab == IF LinkedInTabs # {} THEN LinkedInTabs ELSE UsableTabs

AttachReuse(c) ==
  /\ call[c].pc = "attach"
  /\ \E t \in PickTab :
       Moves(c, [call[c] EXCEPT !.pc = "go", !.page = t, !.clean = Fresh(tab[t])])

\* Mutant: the page is opened and not kept.
AttachNewUnkept(c) ==
  /\ call[c].pc = "attach"
  /\ PickTab = {}
  /\ \E t \in Tabs :
       /\ tab[t].kind = "closed"
       /\ Acts(c, [call[c] EXCEPT !.pc = "go", !.owned = TRUE, !.opened = t], t,
               Page("blank", Nobody))

AttachNew(c) ==
  /\ call[c].pc = "attach"
  /\ PickTab = {}
  /\ \E t \in Tabs :
       /\ tab[t].kind = "closed"
       /\ Acts(c, [call[c] EXCEPT !.pc = "go", !.page = t, !.owned = TRUE, !.opened = t,
                                  !.clean = TRUE],
               t, Page("blank", Nobody))

\* Mutant: __aexit__ closes the page without asking whether it was opened here.
DetachClosing(c) ==
  /\ call[c].pc = "exit"
  /\ IF call[c].page \in Tabs /\ Shown(c).kind # "closed"
       THEN Acts(c, Idle, call[c].page, Page("closed", Nobody))
       ELSE Moves(c, Idle)

\* __aexit__: close the page the call holds now if it opened one.
Detach(c) ==
  /\ call[c].pc = "exit"
  /\ IF call[c].owned /\ Shown(c).kind # "closed"
       THEN Acts(c, Idle, call[c].page, Page("closed", Nobody))
       ELSE Moves(c, Idle)

\* Mutant: a thread that is not found ends send_message like fetch_chat_history.
GiveUpQuietly(c) ==
  /\ call[c].pc \notin {"idle", "exit", "crawl"}
  /\ \/ /\ call[c].tool \in InboxTools
        /\ call[c].pc = "work"
        /\ Moves(c, Answered(c, "ok", "none", {}, {}))
     \/ Moves(c, Answered(c, "failed", "none", {}, {}))

\* A timeout, a control that is missing, a closed tab: False or an exception.  A
\* history that cannot be opened is answered with an empty list.
GiveUp(c) ==
  /\ call[c].pc \notin {"idle", "exit", "crawl"}
  /\ LET quiet == /\ call[c].tool = "history"
                  /\ call[c].pc = "work"
     IN \/ quiet /\ Moves(c, Answered(c, "ok", "none", {}, {}))
        \/ Moves(c, Answered(c, "failed", "none", {}, {}))

\* The process of the call is killed: its tab stays as it is.
Die(c) == call[c].pc # "idle" /\ Moves(c, Idle)

-----------------------------------------------------------------------------
(* Getting to the page a tool works on. *)

\* Mutant: any profile will do.
EnsureSomeProfile(c) ==
  /\ On(c, "go", ProfileTools)
  /\ IF Shown(c).kind = "profile"
       THEN Moves(c, At(c, "work"))
       ELSE Acts(c, At(c, "work"), call[c].page, Page("profile", call[c].who))

EnsureProfileTab(c) ==
  /\ On(c, "go", ProfileTools)
  /\ IF Shown(c).kind = "profile" /\ Shown(c).who = call[c].who
       THEN Moves(c, At(c, "work"))
       ELSE Acts(c, At(c, "work"), call[c].page, Page("profile", call[c].who))

MessagingTabs == {t \in Tabs : tab[t].kind \in Messaging}

\* Switches to an inbox that is open in any tab; whose tab it is does not matter.
OpenMessagingHome(c) ==
  /\ On(c, "go", InboxTools)
  /\ \/ \E t \in MessagingTabs :
          Moves(c, [At(c, "work") EXCEPT
                      !.page = t,
                      !.clean = IF t = call[c].page THEN @ ELSE Fresh(tab[t])])
     \/ /\ MessagingTabs = {}
        /\ Acts(c, At(c, "work"), call[c].page, Page("inbox", Nobody))

GotoPost(c) ==
  /\ On(c, "go", PostTools)
  /\ Acts(c, At(c, "work"), call[c].page,
          IF call[c].tool = "post" THEN Page("feed", Nobody) ELSE Page("post", call[c].who))

-----------------------------------------------------------------------------
(* The tools on a profile.  A locator is resolved when it is used, on the    *)
(* page the tab shows by then.                                               *)

\* Only a stranger's profile offers Connect, at once or in the More menu.
Offers(s) == IF s.kind = "profile" /\ s.who \notin Friends THEN {s.who} ELSE {}

\* The first "Invite ... to connect" of the whole page may be a suggestion's.
Invitable(s) == Offers(s) \cup (IF s.kind = "profile" THEN Suggested[s.who] ELSE {})

FindConnect(c) ==
  /\ On(c, "work", {"connect"})
  /\ Shown(c).kind = "profile"
  /\ \/ Invitable(Shown(c)) # {} /\ Moves(c, At(c, "click"))
     \/ Acts(c, IF Offers(Shown(c)) # {} THEN At(c, "menu")
                ELSE Answered(c, "failed", "none", {}, {}),
             call[c].page, Opens(Shown(c), "menu", Nobody))

ClickConnect(c) ==
  /\ On(c, "click", {"connect"}) \/ (On(c, "menu", {"connect"}) /\ Shown(c).box = "menu")
  /\ \E q \in IF call[c].pc = "menu" THEN Offers(Shown(c)) ELSE Invitable(Shown(c)) :
       Acts(c, At(c, "submit"), call[c].page, Opens(Shown(c), "invite", q))

\* What a click on a control named "Send" does: the invitation of a dialog, else the
\* text in the composer of a thread.
SendsInvite(s) == s.kind = "profile" /\ s.box = "invite"

ClickSend(c) ==
  LET s == Shown(c)
      t == call[c].page
  IN \/ /\ SendsInvite(s)
        /\ Acts(c, Answered(c, "ok", "invite", {s.guest}, {}), t, Opens(s, "none", Nobody))
     \/ /\ s.kind = "thread"
        /\ IF s.draft # {}
             THEN Acts(c, Answered(c, "ok", "message", {s.who}, s.draft), t,
                       [s EXCEPT !.draft = {}])
             ELSE Moves(c, Answered(c, "ok", "none", {}, {}))

Submit(c) == On(c, "submit", {"connect"}) /\ ClickSend(c)

\* Whose degree badge the page may show first: the one of the profile or, where that has
\* none or not yet, of somebody beside it; another page shows anybody's.
Badges(s) == IF s.kind = "profile" THEN {s.who} \cup Suggested[s.who] ELSE People

\* The first badge on the page decides.  Where none is read, a page that is not ready
\* included, any visible Message link makes a connection, and no such link makes none.
ReadDegree(c) ==
  /\ On(c, "work", {"probe"})
  /\ \/ \E q \in Badges(Shown(c)) :
          Moves(c, Answered(c, IF q \in Friends THEN "true" ELSE "false", "read", {q}, {}))
     \/ \E answer \in {"true", "false"} : Moves(c, Answered(c, answer, "none", {}, {}))

\* The overview gives the data; the detail and activity pages that follow are loaded by
\* their own addresses, and what goes wrong there is swallowed.
ScrapeMain(c) ==
  /\ On(c, "work", {"view", "parse"})
  /\ Moves(c, [At(c, "crawl") EXCEPT
                 !.what = "read",
                 !.to = IF Shown(c).kind = "profile" THEN {Shown(c).who} ELSE {Nobody}])

Crawl(c) ==
  /\ call[c].pc = "crawl"
  /\ LET k    == call[c]
         done == [k EXCEPT !.pc = "exit", !.answer = "ok"]
     IN \E next \in {done} \cup (IF k.tool = "parse" THEN {k} ELSE {}) :
          IF Shown(c).kind = "closed"
            THEN Moves(c, next)
            ELSE Acts(c, next, k.page, Page("other", Nobody))

\* A click on More closes a menu that was left open.
OpenMore(c) ==
  /\ On(c, "work", {"pdf"})
  /\ Shown(c).kind = "profile"
  /\ Acts(c, At(c, "save"), call[c].page,
          Opens(Shown(c), IF Shown(c).box = "menu" THEN "none" ELSE "menu", Nobody))

SavePdf(c) ==
  /\ On(c, "save", {"pdf"})
  /\ Shown(c).kind = "profile" /\ Shown(c).box = "menu"
  /\ Acts(c, Answered(c, "ok", "read", {Shown(c).who}, {}), call[c].page,
          [Shown(c) EXCEPT !.box = "none"])

-----------------------------------------------------------------------------
(* Messages. *)

\* The first visible row after the search, whoever's it is: neither its name nor its link
\* is looked at.
OpenThread(c) ==
  /\ On(c, "work", InboxTools)
  /\ Shown(c).kind \in Messaging
  /\ \E q \in People :
       LET k == [At(c, IF call[c].tool = "history" THEN "read" ELSE "type") EXCEPT !.row = q]
       IN IF Shown(c).kind = "thread" /\ Shown(c).who = q
            THEN Moves(c, k)
            ELSE Acts(c, k, call[c].page, Page("thread", q))

\* Any other LinkedIn page has a search box too; its results are no threads.
SearchElsewhere(c) ==
  /\ On(c, "work", InboxTools)
  /\ Shown(c).kind \in LinkedIn \ Messaging
  /\ Acts(c, Answered(c, IF call[c].tool = "history" THEN "ok" ELSE "failed", "none", {}, {}),
          call[c].page, Page("other", Nobody))

TypeMessage(c) ==
  /\ On(c, "type", {"message"})
  /\ Shown(c).kind = "thread"
  /\ Acts(c, At(c, "send"), call[c].page, [Shown(c) EXCEPT !.draft = @ \cup {call[c].who}])

SendMessage(c) == On(c, "send", {"message"}) /\ ClickSend(c)

\* The bubbles in the page: none when it shows no thread, and no error either.
ReadThread(c) ==
  /\ On(c, "read", {"history"})
  /\ Moves(c, IF Shown(c).kind = "thread"
                THEN Answered(c, "ok", "read", {Shown(c).who}, {})
                ELSE Answered(c, "ok", "none", {}, {}))

-----------------------------------------------------------------------------
(* Posts and comments. *)

OpenComposer(c) ==
  /\ On(c, "work", PostTools)
  /\ IF call[c].tool = "post" THEN Shown(c).kind = "feed" ELSE Shown(c).kind \in {"feed", "post"}
  /\ Acts(c, At(c, "type"), call[c].page,
          [Shown(c) EXCEPT !.box = IF call[c].tool = "post" THEN "share" ELSE "comment"])

TypePost(c) ==
  /\ On(c, "type", PostTools)
  /\ Shown(c).box = IF call[c].tool = "post" THEN "share" ELSE "comment"
  /\ Acts(c, At(c, "send"), call[c].page, [Shown(c) EXCEPT !.draft = @ \cup {call[c].who}])

\* create_new_post looks for Post in its modal only, comment_on_post on the whole page.
\* Without a text there is nothing to press.
PublishPost(c) ==
  /\ On(c, "send", PostTools)
  /\ Shown(c).draft # {}
  /\ \/ /\ Shown(c).box = "share"
        /\ Acts(c, Answered(c, "ok", "post", {Nobody}, Shown(c).draft), call[c].page,
                [Shown(c) EXCEPT !.box = "none", !.draft = {}])
     \/ /\ Shown(c).box = "comment" /\ call[c].tool = "comment"
        /\ \E p \in IF Shown(c).kind = "post" THEN {Shown(c).who} ELSE People :
             Acts(c, Answered(c, "ok", "comment", {p}, Shown(c).draft), call[c].page,
                  [Shown(c) EXCEPT !.box = "none", !.draft = {}])

-----------------------------------------------------------------------------
(* browse_forever: to the feed, into some post and back, until it is stopped. *)

Browse(c) ==
  /\ call[c].tool = "browse"
  /\ call[c].page \in Tabs
  /\ Shown(c).kind # "closed"
  /\ \/ /\ call[c].pc = "go"
        /\ IF Shown(c).kind = "feed"
             THEN Moves(c, At(c, "work"))
             ELSE Acts(c, At(c, "work"), call[c].page, Page("feed", Nobody))
     \/ /\ call[c].pc = "work" /\ Shown(c).kind = "feed"
        /\ Acts(c, At(c, "read"), call[c].page, Page("post", Nobody))
     \/ /\ call[c].pc = "read"
        /\ Acts(c, At(c, "work"), call[c].page, Page("feed", Nobody))

\* The round ends, or Ctrl-C ends the session.
BrowseRound(c) ==
  /\ On(c, "work", {"browse"})
  /\ \/ Moves(c, At(c, "go"))
     \/ Moves(c, Answered(c, "ok", "none", {}, {}))

-----------------------------------------------------------------------------
(* The operator at the same Chrome. *)

UserBrowses(t) ==
  /\ tab[t].kind # "closed"
  /\ \E kind \in {"feed", "inbox"} : tab' = [tab EXCEPT ![t] = Page(kind, Nobody)]
  /\ call' = [d \in Calls |-> Disturbed(call[d], t)]

Lifecycle(c) == \/ Call(c) \/ NextJob(c) \/ AttachReuse(c) \/ AttachNew(c)
                \/ Detach(c) \/ GiveUp(c) \/ Die(c)

Steps(c) == \/ EnsureProfileTab(c) \/ OpenMessagingHome(c) \/ GotoPost(c)
            \/ FindConnect(c) \/ ClickConnect(c) \/ Submit(c) \/ ReadDegree(c)
            \/ ScrapeMain(c) \/ Crawl(c) \/ OpenMore(c) \/ SavePdf(c)
            \/ OpenThread(c) \/ SearchElsewhere(c) \/ TypeMessage(c) \/ SendMessage(c)
            \/ ReadThread(c) \/ OpenComposer(c) \/ TypePost(c) \/ PublishPost(c)
            \/ Browse(c) \/ BrowseRound(c)

Next == \/ \E c \in Calls : Lifecycle(c) \/ Steps(c)
        \/ \E t \in Tabs : UserBrowses(t)

Spec == Init /\ [][Next]_vars

-----------------------------------------------------------------------------
(* Properties. *)

\* Whom a call with this tool for p may reach, when its search opened the thread of row.
Targets(tool, p, row) == CASE tool \in InboxTools           -> {row}
                           [] tool \in {"connect", "probe"} -> {p} \cup Suggested[p]
                           [] tool = "post"                 -> {Nobody}
                           [] OTHER                         -> {p}

\* A call on a tab nobody else has touched invites, writes to, comments on or reads
\* nobody but the person it was called for.  The exceptions are named: a message and a
\* history go to the thread the call's own search opened, whosever that is; an invitation
\* may go to somebody the page suggests, and a probe may read that person's badge.  And
\* a call sends no text but its own.
UndisturbedHitsTarget ==
  \A c \in Calls :
    LET k == call[c] IN
    k.clean => k.to \subseteq Targets(k.tool, k.who, k.row) /\ k.texts \subseteq {k.who}

\* What the tools that report success claim to have done.
Deed == [connect |-> "invite", message |-> "message", post |-> "post", comment |-> "comment",
         view |-> "read", parse |-> "read", pdf |-> "read"]

\* A call that answers "ok" on an undisturbed tab has done what it claims: the request, the
\* message (with its text, into some thread), the post or the comment went out, the profile
\* was read.  (fetch_chat_history answers an empty list when it fails; what a probe answers
\* without a badge is a guess, and nothing here says it is right.)
UndisturbedAnswerTrue ==
  \A c \in Calls :
    LET k == call[c] IN
    (k.clean /\ k.answer = "ok" /\ k.tool \in DOMAIN Deed) =>
      /\ k.what = Deed[k.tool] /\ k.to # {}
      /\ (k.tool \in PostTools \cup {"message"} => k.texts = {k.who})

\* A tab goes away only when a call ends that opened a tab itself, and when that call
\* never went to the inbox it is the tab it opened.
ClosesItsOwnTab ==
  [][\A t \in Tabs : (tab[t].kind # "closed" /\ tab'[t].kind = "closed") =>
       \E c \in Calls : /\ call[c].page = t
                         /\ call[c].owned
                         /\ (\/ call[c].opened = t
                             \/ call[c].tool \in InboxTools
                             \/ c \in Keepers)]_vars

\* "We never close a tab we didn't open, so the user's browsing is undisturbed."
NeverClosesForeignTab ==
  [][\A t \in Tabs : (tab[t].kind # "closed" /\ tab'[t].kind = "closed") =>
       \E c \in Calls : call[c].opened = t]_vars
=============================================================================
