--------------------------- MODULE ReportViewing ---------------------------
(***************************************************************************)
(* A report as its readers see it (client/src/pages/Viewer.jsx): slicers,  *)
(* clicks and drills, pages left and shown again as they were              *)
(* (utils/pageState.js), slicers synced across pages                       *)
(* (utils/syncedSlicers.js), bookmarks, the studio's reloads, and the      *)
(* fetch effect they wake.                                                 *)
(*                                                                         *)
(* An act is rendered, and the effect it wakes is run, before anything     *)
(* else: they are one step.                                                *)
(***************************************************************************)
EXTENDS Naturals, Sequences, FiniteSets

CONSTANTS
    Pages, Visuals, Dims, Values,
    PageOf,     \* Visuals -> Pages
    Levels,     \* Visuals -> its dimensions, from the top of its hierarchy
    Excludes,   \* Visuals -> those its clicks do not filter
    Slicers,    \* Pages -> the dimensions they have a slicer on
    Saved,      \* Pages -> what their slicers were saved with
    Links,      \* <<dim, page, page>>: a slicer of the first lists the second
    Stored,     \* Visuals -> the rows the report was saved with
    Acts,       \* what the reader and the studio do
    MaxActs,    \* bound: acts
    None, NoRows, Snapshot, Failed

Selections == [Dims -> Values \cup {None}]

ASSUME ViewingAssumption ==
    /\ Pages \subseteq Nat /\ Pages # {} /\ IsFiniteSet(Pages) /\ MaxActs \in Nat
    /\ PageOf \in [Visuals -> Pages]
    /\ Levels \in [Visuals -> Seq(Dims) \ {<<>>}]
    /\ Excludes \in [Visuals -> SUBSET Visuals]
    /\ Slicers \in [Pages -> SUBSET Dims]
    /\ Saved \in [Pages -> Selections]
    /\ \A p \in Pages : \A d \in Dims \ Slicers[p] : Saved[p][d] = None
    /\ Links \subseteq Dims \X Pages \X Pages
    /\ Stored \in [Visuals -> {NoRows, Snapshot}]
    /\ None \notin Values \cup Visuals \cup Dims

VARIABLES
    page,       \* currentPageIdx
    loads,      \* versions of the report that wait for its model, 0 as opened
    model,      \* the model is there
    screen,     \* the visuals of the page: rows, spinner, drill path
    filters,    \* reportFilters
    slicers,    \* slicerSelections
    highlight,  \* crossHighlight
    aside,      \* pageStateRef: pages as they were left
    shared,     \* sharedSlicersRef: per group of pages, or Unset
    drilling,   \* drillingWidgetIdRef
    requests,   \* queries in flight, the newest of each visual marked
    bookmark,
    acts

reader == <<filters, slicers, highlight>>
vars == <<page, loads, model, screen, reader, aside, shared, drilling, requests, bookmark, acts>>

On(p) == {v \in Visuals : PageOf[v] = p}
NoClick == [visual |-> None, dim |-> None, value |-> None]
NoSelection == [d \in Dims |-> None]
Blank(v) == [rows |-> Stored[v], loading |-> FALSE, path |-> <<>>]
Stage(p) == [v \in Visuals |-> IF v \in On(p) THEN Blank(v) ELSE [Blank(v) EXCEPT !.rows = NoRows]]

-----------------------------------------------------------------------------
(* What a visual is asked for. *)

\* A path counts as far as it follows the hierarchy.
Depth(v, path) ==
    LET follows(n) == n < Len(Levels[v]) /\ \A i \in 1..n : path[i].dim = Levels[v][i]
    IN  CHOOSE n \in 0..Len(path) : follows(n) /\ \A k \in 0..Len(path) : follows(k) => k <= n

\* filterForTarget.
Filtered(v, d, fs, click) ==
    IF click.dim = d /\ v \in {click.visual} \cup Excludes[click.visual] THEN None ELSE fs[d]

\* What of the filters reaches a visual; the path it was drilled by wins.
Key(v, path, fs, click) ==
    LET depth == Depth(v, path) IN
    [level |-> depth + 1,
     filters |-> [d \in Dims |->
        IF \E i \in 1..depth : path[i].dim = d
        THEN path[CHOOSE i \in 1..depth : path[i].dim = d /\ \A k \in i + 1..depth : path[k].dim # d].value
        ELSE Filtered(v, d, fs, click)]]

KeyOf(v) == Key(v, screen[v].path, filters, highlight)

\* The dimension of the rows on screen, which a click names.
ShownDim(v) == Levels[v][IF screen[v].rows = Snapshot THEN 1 ELSE screen[v].rows.level]
HasRows(v) == v \in On(page) /\ screen[v].rows \notin {NoRows, Failed}

-----------------------------------------------------------------------------
(* The fetch effect, on the page as it has become.  Whatever it asks for is *)
(* newer than what is in flight for the same visual.                        *)

Ask(asked, scr) ==
    /\ screen' = [v \in Visuals |-> IF v \in asked THEN [scr[v] EXCEPT !.loading = TRUE] ELSE scr[v]]
    /\ requests' =
         {IF r.visual \in asked THEN [r EXCEPT !.newest = FALSE] ELSE r : r \in requests}
         \cup {[visual |-> v, key |-> Key(v, scr[v].path, filters', highlight'), newest |-> TRUE] : v \in asked}

\* An explicit request fetches the page; after a drill, the visual drilled,
\* which is remembered until there is a model to ask.
Refetch(scr, drilled) ==
    IF model'
    THEN Ask({v \in On(page') : drilled \in {None, v}}, scr) /\ drilling' = None
    ELSE screen' = scr /\ drilling' = drilled /\ UNCHANGED requests

\* New filters, or a click, fetch all but the visual clicked.
FetchIfChanged(scr, source) ==
    /\ IF model /\ (filters' # filters \/ source # None)
       THEN Ask(On(page) \ {source}, scr)
       ELSE screen' = scr /\ UNCHANGED requests
    /\ UNCHANGED drilling

-----------------------------------------------------------------------------
(* Slicers synced across pages.  A page that lists another, and those they  *)
(* chain to, share one selection; None is a cleared one here, which an      *)
(* older selection does not replace.                                        *)

Near(d, S) == S \cup {p \in Pages : \E q \in S : {<<d, p, q>>, <<d, q, p>>} \cap Links # {}}
Group(d, p) ==
    LET chain[n \in 0..Cardinality(Pages)] == IF n = 0 THEN {p} ELSE Near(d, chain[n - 1])
    IN  IF chain[Cardinality(Pages)] = {p} THEN {} ELSE chain[Cardinality(Pages)]

Synced(d, p) == Group(d, p) # {}
Groups == {<<d, Group(d, p)>> : d \in Dims, p \in Pages} \ {<<d, {}>> : d \in Dims}

\* syncedFilters: the page's own selections, but for those it shares.
SyncedFilters(own, p) == [d \in Dims |-> IF Synced(d, p) THEN shared[<<d, Group(d, p)>>] ELSE own[d]]

\* withPageSelections, withSelection.
SharedWith(p, dims, selections) ==
    [g \in Groups |-> IF g[1] \in dims /\ p \in g[2] THEN selections[g[1]] ELSE shared[g]]

\* sharedSelections: the page opened decides, then the first with a selection.
Seeded(p) ==
    [g \in Groups |->
        LET d == g[1]
            chosen == {q \in g[2] : Saved[q][d] # None}
        IN  IF p \in g[2] /\ d \in Slicers[p] THEN Saved[p][d]
            ELSE IF chosen = {} THEN None
            ELSE Saved[CHOOSE q \in chosen : \A r \in chosen : q <= r][d]]

-----------------------------------------------------------------------------
Act(name) == name \in Acts /\ acts < MaxActs /\ acts' = acts + 1

PickForGroup(d, x) == shared' = SharedWith(page, {d}, [NoSelection EXCEPT ![d] = x])

\* handleSlicerFilter; x is None for a slicer cleared.
Pick(d, x) ==
    /\ Act("pick")
    /\ d \in Slicers[page]
    /\ PickForGroup(d, x)
    /\ slicers' = [slicers EXCEPT ![d] = x]
    /\ filters' = [filters EXCEPT ![d] = IF x = None /\ highlight.dim = d THEN highlight.value ELSE x]
    /\ UNCHANGED <<page, loads, model, highlight, aside, bookmark>>
    /\ FetchIfChanged(screen, None)

\* The filter of a click gives way to the slicer's.
Restored(d) == [filters EXCEPT ![d] = slicers[d]]
WithoutClick == IF highlight = NoClick THEN filters ELSE Restored(highlight.dim)

\* applyDrillMutation: a drill of the visual clicked takes its click back.
Drill(v, path) ==
    /\ IF highlight.visual = v
       THEN highlight' = NoClick /\ filters' = WithoutClick
       ELSE UNCHANGED <<highlight, filters>>
    /\ UNCHANGED <<page, loads, model, slicers, aside, shared, bookmark>>
    /\ Refetch([screen EXCEPT ![v].path = path, ![v].loading = TRUE], v)

\* handleCrossFilter, at the last level of the visual's hierarchy.
AtLeaf(v) == Len(screen[v].path) >= Len(Levels[v]) - 1

DrillDown(v, x) ==
    /\ Act("click")
    /\ HasRows(v) /\ ~AtLeaf(v)
    /\ Drill(v, Append(screen[v].path, [dim |-> ShownDim(v), value |-> x]))

\* _drillDepth: the buttons are those of the rows.
DrillBack(v, path) ==
    /\ Act("undrill")
    /\ HasRows(v) /\ screen[v].rows # Snapshot /\ screen[v].rows.level > 1
    /\ Drill(v, path)

DrillUp(v) == DrillBack(v, SubSeq(screen[v].path, 1, Len(screen[v].path) - 1))
DrillReset(v) == DrillBack(v, <<>>)

\* Bug: the click goes with its filter, the slicer's under it is forgotten.
UnclickAll(d) == filters' = [filters EXCEPT ![d] = None]

Unclicked(d) == filters' = Restored(d)

Click(v, x) ==
    /\ Act("click")
    /\ HasRows(v) /\ AtLeaf(v)
    /\ LET d == ShownDim(v) IN
         IF highlight.visual = v /\ highlight.value = x
         THEN highlight' = NoClick /\ Unclicked(d)
         ELSE /\ highlight' = [visual |-> v, dim |-> d, value |-> x]
              /\ filters' = [WithoutClick EXCEPT ![d] = x]
    /\ UNCHANGED <<page, loads, model, slicers, aside, shared, bookmark>>
    /\ FetchIfChanged(screen, v)

Refresh ==
    /\ Act("refresh")
    /\ UNCHANGED <<page, loads, model, reader, aside, shared, bookmark>>
    /\ Refetch(screen, drilling)

-----------------------------------------------------------------------------
(* Pages.  What is kept of a page is written again when it is left, and     *)
(* counts for nothing before.                                               *)

NotKept == [kept |-> FALSE]
Kept == [kept |-> TRUE, screen |-> screen, filters |-> filters, slicers |-> slicers, highlight |-> highlight]
Left(p) == [q \in Pages |-> IF q = page THEN Kept ELSE IF q = p THEN NotKept ELSE aside[q]]

\* Bug: a page is shown again as it was although it was waiting for rows.
RestorableAnyway(p) == aside[p].kept

Restorable(p) ==
    /\ aside[p].kept
    /\ \A v \in On(p) : aside[p].screen[v].rows # NoRows /\ ~aside[p].screen[v].loading

\* pageSwitchHandler.
Revisit(p) ==
    /\ screen' = aside[p].screen
    /\ filters' = aside[p].filters
    /\ slicers' = aside[p].slicers
    /\ highlight' = aside[p].highlight
    /\ UNCHANGED <<requests, drilling>>

RevisitSynced(p) ==
    LET was == aside[p]
        own == IF was.highlight = NoClick THEN was.filters
               ELSE [was.filters EXCEPT ![was.highlight.dim] = was.slicers[was.highlight.dim]]
    IN  /\ filters' = SyncedFilters(own, p)
        /\ slicers' = SyncedFilters(was.slicers, p)
        /\ highlight' = NoClick
        /\ Refetch(was.screen, drilling)

Visit(p) ==
    /\ filters' = SyncedFilters(NoSelection, p)
    /\ slicers' = SyncedFilters(NoSelection, p)
    /\ highlight' = NoClick
    /\ Refetch(Stage(p), drilling)

Turn(p) ==
    /\ Act("turn")
    /\ p # page
    /\ page' = p
    /\ aside' = Left(p)
    /\ UNCHANGED <<loads, model, shared, bookmark>>
    /\ IF ~Restorable(p) THEN Visit(p)
       ELSE IF SyncedFilters(aside[p].slicers, p) = aside[p].slicers THEN Revisit(p)
       ELSE RevisitSynced(p)

\* Bookmarks are the server's: this reader's, of another day as well.
SaveBookmark ==
    /\ Act("bookmark")
    /\ bookmark' = [page |-> page, filters |-> filters, slicers |-> slicers]
    /\ UNCHANGED <<page, loads, model, screen, reader, aside, shared, drilling, requests>>

\* Bug: the pages synced with the one it lands on are not told.
LandsAlone(p, selections) == UNCHANGED shared

LandsOn(p, selections) == shared' = SharedWith(p, Dims, selections)

ApplyBookmark ==
    /\ Act("bookmark")
    /\ bookmark.page # None
    /\ page' = bookmark.page
    /\ aside' = IF bookmark.page = page THEN aside ELSE Left(bookmark.page)
    /\ LandsOn(bookmark.page, bookmark.slicers)
    /\ filters' = bookmark.filters
    /\ slicers' = bookmark.slicers
    /\ highlight' = NoClick
    /\ UNCHANGED <<loads, model, bookmark>>
    /\ Refetch(IF bookmark.page = page THEN screen ELSE Stage(bookmark.page), drilling)

-----------------------------------------------------------------------------
(* Loading. *)

Initial(p) == SyncedFilters(Saved[p], p)

\* The studio changed the report: its visuals come without their rows, or with
\* those they were saved with; the page stays, and what the reader picked for
\* all pages.  The model is read again.
Reload ==
    /\ Act("reload")
    /\ loads' = loads \cup {acts'}
    /\ aside' = [p \in Pages |-> NotKept]
    /\ slicers' = IF Initial(page) = NoSelection THEN slicers ELSE Initial(page)
    /\ filters' = [d \in Dims |-> IF filters[d] # None THEN filters[d] ELSE Initial(page)[d]]
    /\ UNCHANGED <<page, model, highlight, shared, bookmark>>
    /\ FetchIfChanged(Stage(page), None)

\* The rows a report comes with are of whoever saved it: they go before the
\* first fetch.
Cleared == [v \in Visuals |-> IF v \in On(page) THEN [screen[v] EXCEPT !.rows = NoRows, !.loading = TRUE]
                              ELSE screen[v]]

\* A reload, and the first model, fetch the page.
ModelRead(n) ==
    /\ n \in loads
    /\ loads' = loads \ {n}
    /\ UNCHANGED <<page, reader, aside, shared, bookmark, acts>>
    /\ IF n > 0 \/ model' # model
       THEN Refetch(IF model' # model THEN Cleared ELSE screen, drilling)
       ELSE UNCHANGED <<screen, drilling, requests>>

ModelArrives(n) == model' = TRUE /\ ModelRead(n)
ModelFails(n) == model' = model /\ ModelRead(n)

\* Bug: an answer lands whatever was asked since.
LandsAnyway(r) == PageOf[r.visual] = page

\* An answer to what has been asked again is dropped; so is, in effect, one for
\* a page that is not on screen.
Lands(r) == r.newest /\ PageOf[r.visual] = page

Arrives(r, rows) ==
    /\ requests' = requests \ {r}
    /\ screen' = IF Lands(r) THEN [screen EXCEPT ![r.visual].rows = rows, ![r.visual].loading = FALSE] ELSE screen
    /\ UNCHANGED <<page, loads, model, reader, aside, shared, drilling, bookmark, acts>>

Answer(r) == Arrives(r, r.key)
AnswerFails(r) == Arrives(r, Failed)

-----------------------------------------------------------------------------
FirstPage == CHOOSE p \in Pages : \A q \in Pages : p <= q

\* The report is loaded, its model asked for.
Init ==
    /\ page = FirstPage
    /\ loads = {0}
    /\ model = FALSE
    /\ screen = Stage(FirstPage)
    /\ shared = Seeded(FirstPage)
    /\ slicers = Initial(FirstPage)
    /\ filters = Initial(FirstPage)
    /\ highlight = NoClick
    /\ aside = [p \in Pages |-> NotKept]
    /\ drilling = None
    /\ requests = {}
    /\ bookmark = [page |-> None, filters |-> NoSelection, slicers |-> NoSelection]
    /\ acts = 0

Arrivals == (\E n \in loads : ModelArrives(n) \/ ModelFails(n)) \/ \E r \in requests : Answer(r) \/ AnswerFails(r)

Next ==
    \/ \E d \in Dims, x \in Values \cup {None} : Pick(d, x)
    \/ \E v \in Visuals, x \in Values : DrillDown(v, x) \/ Click(v, x)
    \/ \E v \in Visuals : DrillUp(v) \/ DrillReset(v)
    \/ \E p \in Pages : Turn(p)
    \/ SaveBookmark \/ ApplyBookmark \/ Refresh \/ Reload
    \/ Arrivals

Spec == Init /\ [][Next]_vars

-----------------------------------------------------------------------------
(* What the viewer counts on: the acts its fetch effect can follow. *)

\* A visual is drilled once there is a model, and not while it filters others;
\* its rows are of the level it is at when they are clicked.
DrillsAlone(v) == model /\ highlight.visual # v
ShowsItsLevel(v) == screen[v].rows = Snapshot \/ screen[v].rows.level = KeyOf(v).level

\* A click changes nothing of what filters the visual clicked.
KeepsItsFilters(v) == \A d \in Dims : Filtered(v, d, filters, highlight)' = Filtered(v, d, filters, highlight)

\* A reload finds no selection that was made on this page alone.
PicksAreSaved == Initial(page) = NoSelection \/ \A d \in Dims : slicers[d] \in {None, Initial(page)[d]}

SteadyNext ==
    \/ \E d \in Dims, x \in Values \cup {None} : Pick(d, x)
    \/ \E v \in Visuals, x \in Values : DrillDown(v, x) /\ DrillsAlone(v) /\ ShowsItsLevel(v)
    \/ \E v \in Visuals, x \in Values : Click(v, x) /\ KeepsItsFilters(v) /\ ShowsItsLevel(v)
    \/ \E v \in Visuals : (DrillUp(v) \/ DrillReset(v)) /\ DrillsAlone(v)
    \/ \E p \in Pages : Turn(p) /\ loads = {}
    \/ SaveBookmark /\ highlight = NoClick
    \/ ApplyBookmark /\ (loads = {} \/ bookmark.page = page)
    \/ Refresh
    \/ Reload /\ PicksAreSaved
    \/ Arrivals

SteadySpec == Init /\ [][SteadyNext]_vars

-----------------------------------------------------------------------------
(* What must hold. *)

Keys(v) == [level : 1..Len(Levels[v]), filters : Selections]
Paths == Seq([dim : Dims, value : Values])
Shows(v) == [rows : Keys(v) \cup {NoRows, Snapshot, Failed}, loading : BOOLEAN, path : Paths]
Clicks == [visual : Visuals, dim : Dims, value : Values] \cup {NoClick}

IsScreen(scr) == scr = [v \in Visuals |-> scr[v]] /\ \A v \in Visuals : scr[v] \in Shows(v)
IsKept(k) == IsScreen(k.screen) /\ k.filters \in Selections /\ k.slicers \in Selections /\ k.highlight \in Clicks
IsRequest(r) == r.visual \in Visuals /\ r \in [visual : {r.visual}, key : Keys(r.visual), newest : BOOLEAN]

TypeOK ==
    /\ page \in Pages /\ loads \subseteq 0..MaxActs /\ model \in BOOLEAN
    /\ IsScreen(screen)
    /\ filters \in Selections /\ slicers \in Selections /\ highlight \in Clicks
    /\ aside = [p \in Pages |-> aside[p]]
    /\ \A p \in Pages : aside[p].kept \in BOOLEAN /\ (aside[p].kept => IsKept(aside[p]))
    /\ shared \in [Groups -> Values \cup {None}]
    /\ drilling \in Visuals \cup {None}
    /\ \A r \in requests : IsRequest(r)
    /\ bookmark \in [page : Pages \cup {None}, filters : Selections, slicers : Selections]
    /\ acts \in 0..MaxActs

Loaded == model /\ loads = {}

\* "Restoring it must not trigger a refetch", "newest fetch wins": once the
\* report is loaded, a visual that does not spin shows what its drill, the
\* slicers and the clicks ask for, or an error, whatever pages were turned,
\* bookmarks applied and answers overtaken.
VisualsAreCurrent ==
    Loaded => \A v \in On(page) : ~screen[v].loading => screen[v].rows \in {KeyOf(v), Failed}

\* "Left pages 2+ permanently blank": a visual that spins awaits an answer that
\* will be shown.
SpinnersAwait ==
    model => \A v \in On(page) : screen[v].loading => \E r \in requests : r.visual = v /\ r.newest

\* "Every page of a group reads the same selection": the page on screen holds
\* the last selection made on any page synced with it.
SyncedPagesAgree ==
    \A d \in Dims : Synced(d, page) => slicers[d] = shared[<<d, Group(d, page)>>]

\* No filter without what set it: each is the click's or the slicer's, and a
\* selection filters unless a click has its dimension.
FiltersAreShown ==
    \A d \in Dims :
        \/ filters[d] = slicers[d]
        \/ highlight.dim = d /\ filters[d] = highlight.value
=============================================================================
