----------------------------- MODULE CacheWarming -----------------------------
(***************************************************************************)
(* A browser tab that watches the builds of CacheScheduler: the editor of  *)
(* one report, with its "Rebuild cache & refresh" button and the poll of   *)
(* its mount, or the dashboard, with the spinners of its cards.            *)
(* client/src/pages/Editor.jsx, client/src/hooks/useCardCacheWarming.js.   *)
(*                                                                         *)
(* The tab learns of a build in two ways, which nothing orders: the answer *)
(* of the POST it sent, and the answers of /cache-schedules/warming, which *)
(* say what was in flight when the server wrote them.                      *)
(***************************************************************************)
EXTENDS CacheScheduler

CONSTANTS
    Report, \* the report the editor is open on
    Mine    \* reports whose schedules the user may manage

ASSUME WarmingAssumption == Report \in Reports /\ Mine \subseteq Reports

VARIABLES
    page,    \* the page the tab shows
    loader,  \* editor: cacheWarming, and `active` of cacheWarmCtlRef
    post,    \* editor: its POST run-now; in flight is `pending` of cacheWarmCtlRef
    cards,   \* dashboard: cardWarmingIds
    poll,    \* the page's poll loop, and the answer on its way
    failed,  \* a poll of this page failed
    shown,   \* editor: the rollups its widgets last read
    owed     \* editor: the rollups last built while the loader was on

tabVars == <<page, loader, post, cards, poll, failed, shown, owed>>
warmVars == <<vars, tabVars>>

M == ModelOf[Report]
pending == post.pc \in {"sent", "waiting", "answered"}

NoPost == [pc |-> "none", build |-> NoBuild]
Asking == [pc |-> "asked", answer |-> {}]
PollOff == [pc |-> "off", answer |-> {}]
PollTimer == [pc |-> "timer", answer |-> {}]

\* GET /cache-schedules/warming.
Warming == {r \in reports \cap Mine : promise[ModelOf[r]] # NoBuild}

-----------------------------------------------------------------------------
\* Pages come, go and are reloaded; what a page left behind finds nobody to
\* tell.  A report that loads is fetched from the rollups there are: each build
\* stamps cache_built_at, which no saved answer survives.
Enter(p) ==
    /\ page' = p
    /\ poll' = IF p = "away" THEN PollOff ELSE Asking
    /\ loader' = FALSE /\ post' = NoPost /\ cards' = {} /\ failed' = FALSE
    /\ shown' = rollups[M] /\ owed' = rollups[M]
    /\ UNCHANGED vars

-----------------------------------------------------------------------------
(* handleRebuildCache. *)

Rebuild ==
    /\ page = "editor"
    /\ ~loader
    /\ loader' = TRUE
    /\ post' = [pc |-> "sent", build |-> NoBuild]
    /\ UNCHANGED <<vars, page, cards, poll, failed, shown, owed>>

\* The POST reaches the server and waits for a build.
PostWaits ==
    /\ post.pc = "sent"
    /\ Report \in reports \cap Mine
    /\ Refresh(M)
    /\ post' = [pc |-> "waiting", build |-> promise'[M]]
    /\ UNCHANGED <<page, loader, cards, poll, failed, shown, owed>>

\* It is refused (403, 404), or does not reach the server.
PostIsRefused ==
    /\ post.pc = "sent"
    /\ post' = [pc |-> "answered", build |-> NoBuild]
    /\ UNCHANGED <<vars, page, loader, cards, poll, failed, shown, owed>>

\* Bug: the loader goes, and that is all.
NoRefetch == UNCHANGED shown

\* setRefreshCounter: the widgets are fetched from the rollups there are.
Refetch == shown' = rollups[M]

\* The `finally`: whatever the answer, the loader goes and the widgets are
\* fetched.
PostEnds ==
    /\ post.pc = "answered"
    /\ post' = NoPost
    /\ loader' = FALSE
    /\ Refetch
    /\ UNCHANGED <<vars, page, cards, poll, failed, owed>>

-----------------------------------------------------------------------------
(* The poll loop of the page. *)

PollIsServed ==
    /\ poll.pc = "asked"
    /\ poll' = [pc |-> "served", answer |-> Warming]
    /\ UNCHANGED <<vars, page, loader, post, cards, failed, shown, owed>>

\* Bug: an answer without the report stops the loop and no more.
EditorStops ==
    IF Report \in poll.answer
      THEN loader' = TRUE /\ poll' = PollTimer /\ UNCHANGED shown
      ELSE poll' = PollTimer /\ UNCHANGED <<loader, shown>>

\* The poll of the editor's mount: on while the report is building; a rebuild
\* this tab did not ask for ends with it.
EditorSees ==
    IF Report \in poll.answer
      THEN loader' = TRUE /\ poll' = PollTimer /\ UNCHANGED shown
      ELSE /\ poll' = PollOff
           /\ IF loader /\ ~pending THEN loader' = FALSE /\ Refetch
                                    ELSE UNCHANGED <<loader, shown>>

\* startWarmingPoll: the spinners are the answer's.
DashboardSees ==
    /\ cards' = poll.answer
    /\ poll' = IF poll.answer # {} THEN PollTimer ELSE PollOff

PollArrives ==
    /\ poll.pc = "served"
    /\ \/ page = "editor" /\ EditorSees /\ UNCHANGED cards
       \/ page = "dashboard" /\ DashboardSees /\ UNCHANGED <<loader, shown>>
    /\ UNCHANGED <<vars, page, post, failed, owed>>

\* "Don't loop on error": the loop stops, what it was showing stays.
PollFails ==
    /\ poll.pc \in {"asked", "served"}
    /\ poll' = PollOff
    /\ failed' = TRUE
    /\ UNCHANGED <<vars, page, loader, post, cards, shown, owed>>

PollAgain ==
    /\ poll.pc = "timer"
    /\ poll' = Asking
    /\ UNCHANGED <<vars, page, loader, post, cards, failed, shown, owed>>

-----------------------------------------------------------------------------
(* The server's steps, as the tab lives through them. *)

BuildEndsForTab(b) ==
    /\ BuildEnds(b)
    /\ post' = IF post.pc = "waiting" /\ post.build = b
                 THEN [pc |-> "answered", build |-> NoBuild] ELSE post
    /\ owed' = IF loader THEN rollups'[M] ELSE owed
    /\ UNCHANGED <<page, loader, cards, poll, failed, shown>>

RestartForTab ==
    /\ Restart
    /\ post' = IF pending THEN [pc |-> "answered", build |-> NoBuild] ELSE post
    /\ UNCHANGED <<page, loader, cards, poll, failed, shown, owed>>

ServerStep ==
    \/ \E s \in Schedules :
         \/ \E row \in Settings : Create(s, row) \/ Update(s, row)
         \/ Delete(s) \/ DeleteOwner(s)
         \/ Tick(s) \/ RunNow(s)
    \/ \E r \in Reports : DeleteReport(r)
    \/ \E m \in Models : Refresh(m) \/ World(m)
    \/ \E b \in Builds : BuildReads(b)

WarmInit ==
    /\ Init
    /\ page = "away" /\ loader = FALSE /\ post = NoPost
    /\ cards = {} /\ poll = PollOff /\ failed = FALSE
    /\ shown = rollups[M] /\ owed = rollups[M]

TabStep == PostWaits \/ PostIsRefused \/ PostEnds \/ PollIsServed \/ PollArrives \/ PollAgain

WarmNext ==
    \/ ServerStep /\ UNCHANGED tabVars
    \/ \E b \in Builds : BuildEndsForTab(b)
    \/ RestartForTab
    \/ \E p \in {"editor", "dashboard", "away"} : Enter(p)
    \/ Rebuild
    \/ TabStep
    \/ PollFails

WarmSpec == WarmInit /\ [][WarmNext]_warmVars

\* Cron ticks, builds end, requests are answered one way or the other, timers
\* fire.
WarmFairness ==
    /\ \A s \in Schedules : WF_warmVars(Tick(s) /\ UNCHANGED tabVars)
    /\ \A b \in Builds : WF_warmVars(BuildReads(b) /\ UNCHANGED tabVars)
    /\ \A b \in Builds : WF_warmVars(BuildEndsForTab(b))
    /\ WF_warmVars(PostWaits \/ PostIsRefused)
    /\ WF_warmVars(PostEnds)
    /\ WF_warmVars(PollIsServed \/ PollArrives \/ PollAgain)

WarmFairSpec == WarmSpec /\ WarmFairness

-----------------------------------------------------------------------------
(* What must hold. *)

\* Once the loader is off, the widgets show nothing older than the last build
\* that ended under it, the tab's own or another's.
RebuiltIsOnScreen ==
    page = "editor" /\ ~loader => shown.plan >= owed.plan /\ shown.read >= owed.read

\* With no poll failing, a loader and the spinners of the cards go once the
\* server has stopped building.
LoaderEnds ==
    <>[]~failed /\ <>[](\A m \in Models : promise[m] = NoBuild)
        => []<>(~loader /\ cards = {})
=============================================================================
