---------------------------- MODULE WidgetFetch ----------------------------
(***************************************************************************)
(* What the visuals of a report show while it is edited: the fetch effect  *)
(* of the editor (client/src/hooks/useWidgetFetch.js), the acts that wake  *)
(* it (client/src/pages/Editor.jsx), the history they are recorded in      *)
(* (client/src/hooks/useHistory.jsx).                                      *)
(*                                                                         *)
(* A click is rendered, and its effects run, before anything else: an act  *)
(* and the run of the effect it wakes are one step.  The timer and the     *)
(* answers come later.                                                     *)
(***************************************************************************)
EXTENDS Naturals, Sequences

CONSTANTS
    Widgets,      \* the visuals of the page, other than its slicer
    Bindings,     \* what a visual may be bound to, drill level included
    Values,       \* values of the dimension the slicer and the clicks filter
    Acts,         \* what the user does
    HistoryCap,   \* states the history keeps (50 in the code)
    MaxActs,      \* bound: acts of the user
    None          \* no widget, no value

ASSUME FetchAssumption ==
    /\ HistoryCap \in Nat \ {0}
    /\ MaxActs \in Nat
    /\ None \notin Widgets \cup Bindings \cup Values

VARIABLES
    slicer,     \* the slicer's selection, None without one
    highlight,  \* crossHighlight: the visual clicked and the value
    binding,    \* Widgets -> Bindings
    shown,      \* Widgets -> the key the data answers, the batch it came from
    loading,    \* Widgets -> BOOLEAN, the spinner
    timer,      \* debounceTimerRef: Widgets -> the key to ask for
    marked,     \* pendingLoadingRef
    requests,   \* in flight
    asked,      \* batches sent
    past,       \* historyRef
    at,         \* indexRef
    acts

document == <<slicer, highlight, binding>>
fetching == <<timer, marked, requests, asked>>
vars == <<slicer, highlight, binding, shown, loading, timer, marked, requests, asked, past, at, acts>>

NoHighlight == [widget |-> None, value |-> None]

\* reportFilters: a click's value wins over the slicer's.
Filter == IF highlight # NoHighlight THEN highlight.value ELSE slicer

\* filterForTarget: the visual that was clicked is not filtered by its click.
FilterFor(w) == IF highlight.widget = w THEN None ELSE Filter

Key(w) == [binding |-> binding[w], filter |-> FilterFor(w)]
Keys == [binding : Bindings, filter : Values \cup {None}]
NoKey == [binding |-> None, filter |-> None]
Failed == [binding |-> None, filter |-> None]

NoTimer == [w \in Widgets |-> NoKey]

-----------------------------------------------------------------------------
(* A run of the effect, on the document as it has become.  source is the   *)
(* visual clicked, scoped the one visual to refetch, refresh that a        *)
(* refetch was asked for.                                                  *)

Moved == {w \in Widgets : binding'[w] # binding[w]}

Woken(source, refresh) == Filter' # Filter \/ source # None \/ refresh \/ Moved # {}

\* Bug: two visuals of one binding are taken for up to date whatever the filter.
WantedByBinding(source, refresh, scoped) ==
    {w \in Widgets :
        /\ scoped \in {None, w}
        /\ Filter' = Filter /\ source = None /\ ~refresh => w \in Moved
        /\ \/ refresh
           \/ w # source /\ shown'[w].key.binding # binding'[w]}

Wanted(source, refresh, scoped) ==
    {w \in Widgets :
        /\ scoped \in {None, w}
        /\ Filter' = Filter /\ source = None /\ ~refresh => w \in Moved
        /\ \/ refresh
           \/ w # source /\ shown'[w].key # Key(w)'}

\* The run before is cleaned up first: its timer, and the spinners it marked.
Run(spinning, source, refresh, scoped) ==
    LET wanted == IF Woken(source, refresh) THEN Wanted(source, refresh, scoped) ELSE {} IN
    /\ timer' = [w \in Widgets |-> IF w \in wanted THEN Key(w)' ELSE NoKey]
    /\ marked' = wanted
    /\ loading' = [w \in Widgets |-> w \in wanted \/ (spinning[w] /\ w \notin marked)]

-----------------------------------------------------------------------------
(* The history: what an undo brings back is the page as it was recorded,   *)
(* data and spinners included; what changed silently since is not there.   *)

Push(page) ==
    LET pages == Append(SubSeq(past, 1, at), page) IN
    IF Len(pages) > HistoryCap
    THEN past' = Tail(pages) /\ UNCHANGED at
    ELSE past' = pages /\ at' = at + 1

Page == [slicer |-> slicer, binding |-> binding, shown |-> shown, loading |-> loading]

GoTo(i) ==
    /\ at' = i
    /\ slicer' = past[i].slicer
    /\ binding' = past[i].binding
    /\ shown' = past[i].shown
    /\ UNCHANGED <<highlight, requests, asked, past>>
    /\ IF Filter' # Filter \/ Moved # {}
       THEN Run(past[i].loading, None, FALSE, None)
       ELSE loading' = past[i].loading /\ UNCHANGED <<timer, marked>>

-----------------------------------------------------------------------------
(* Acts of the user. *)

Act(name) ==
    /\ name \in Acts
    /\ acts < MaxActs
    /\ acts' = acts + 1

SetSlicer(v) ==
    /\ Act("slicer")
    /\ v # slicer
    /\ slicer' = v
    /\ highlight' = NoHighlight
    /\ UNCHANGED <<binding, shown, requests, asked>>
    /\ Push([Page EXCEPT !.slicer = v])
    /\ Run(loading, None, FALSE, None)

\* A click on a value filters the other visuals; a second one stops.
Click(w, v) ==
    /\ Act("click")
    /\ LET clicked == [widget |-> w, value |-> v] IN
         highlight' = IF highlight = clicked THEN NoHighlight ELSE clicked
    /\ UNCHANGED <<slicer, binding, shown, requests, asked, past, at>>
    /\ Run(loading, w, FALSE, None)

Edit(w, b) ==
    /\ Act("edit")
    /\ b # binding[w]
    /\ binding' = [binding EXCEPT ![w] = b]
    /\ UNCHANGED <<slicer, highlight, shown, requests, asked>>
    /\ Push([Page EXCEPT !.binding[w] = b])
    /\ Run(loading, None, FALSE, None)

\* A colour, a size, a position: recorded, and nothing to fetch.
Restyle ==
    /\ Act("restyle")
    /\ Push(Page)
    /\ UNCHANGED <<document, shown, loading, fetching>>

\* Drilling is not recorded; it ends the filtering of a click on the same
\* visual, and then concerns the others too.
Drill(w, b) ==
    /\ Act("drill")
    /\ b # binding[w]
    /\ binding' = [binding EXCEPT ![w] = b]
    /\ UNCHANGED <<slicer, shown, requests, asked, past, at>>
    /\ LET spinning == [loading EXCEPT ![w] = TRUE] IN
         IF highlight.widget = w
         THEN highlight' = NoHighlight /\ Run(spinning, w, TRUE, None)
         ELSE UNCHANGED highlight /\ Run(spinning, None, TRUE, w)

\* The Refresh button, of the report or of one visual.
Refresh(scoped) ==
    /\ Act("refresh")
    /\ UNCHANGED <<document, shown, requests, asked, past, at>>
    /\ Run(loading, None, TRUE, scoped)

\* The model's object changes, with nothing the effect compares.
ReloadModel ==
    /\ Act("reload")
    /\ UNCHANGED <<document, shown, requests, asked, past, at>>
    /\ Run(loading, None, FALSE, None)

Undo == Act("undo") /\ at > 1 /\ GoTo(at - 1)
Redo == Act("undo") /\ at < Len(past) /\ GoTo(at + 1)

\* handleCancelFetch: nothing is awaited any more.
Cancel ==
    /\ Act("cancel")
    /\ requests' = {}
    /\ timer' = NoTimer
    /\ marked' = {}
    /\ loading' = [w \in Widgets |-> FALSE]
    /\ UNCHANGED <<document, shown, asked, past, at>>

-----------------------------------------------------------------------------
(* What comes later. *)

\* A batch is over once every request of it has been answered or aborted;
\* that forgets what the latest run marked.
MarkedAfter(left) ==
    IF {r.batch : r \in left} = {r.batch : r \in requests} THEN marked ELSE {}

Batch == {[batch |-> asked + 1, widget |-> w, key |-> timer[w]] : w \in {v \in Widgets : timer[v] # NoKey}}

\* Bug: what a visual was waiting for is not aborted.
FireOverPrevious ==
    /\ timer # NoTimer
    /\ requests' = requests \cup Batch
    /\ UNCHANGED marked
    /\ asked' = asked + 1
    /\ timer' = NoTimer
    /\ UNCHANGED <<document, shown, loading, past, at, acts>>

\* The queries are sent, and those the same visuals were waiting for aborted.
Fire ==
    /\ timer # NoTimer
    /\ LET left == {r \in requests : timer[r.widget] = NoKey} IN
         /\ requests' = left \cup Batch
         /\ marked' = MarkedAfter(left)
    /\ asked' = asked + 1
    /\ timer' = NoTimer
    /\ UNCHANGED <<document, shown, loading, past, at, acts>>

\* Bug: the answer is shown, the spinner goes on.
LandStillLoading(r, key) ==
    /\ shown' = [shown EXCEPT ![r.widget] = [key |-> key, batch |-> r.batch]]
    /\ UNCHANGED loading
    /\ requests' = requests \ {r}
    /\ marked' = MarkedAfter(requests \ {r})
    /\ UNCHANGED <<document, timer, asked, past, at, acts>>

Land(r, key) ==
    /\ shown' = [shown EXCEPT ![r.widget] = [key |-> key, batch |-> r.batch]]
    /\ loading' = [loading EXCEPT ![r.widget] = FALSE]
    /\ requests' = requests \ {r}
    /\ marked' = MarkedAfter(requests \ {r})
    /\ UNCHANGED <<document, timer, asked, past, at, acts>>

Answer(r) == Land(r, r.key)
AnswerFails(r) == Land(r, Failed)

-----------------------------------------------------------------------------
\* A report opened on data that is current.
Init ==
    /\ slicer = None
    /\ highlight = NoHighlight
    /\ binding \in [Widgets -> Bindings]
    /\ shown = [w \in Widgets |-> [key |-> Key(w), batch |-> 0]]
    /\ loading = [w \in Widgets |-> FALSE]
    /\ timer = NoTimer
    /\ marked = {}
    /\ requests = {}
    /\ asked = 0
    /\ past = <<Page>>
    /\ at = 1
    /\ acts = 0

UserStep ==
    \/ \E v \in Values \cup {None} : SetSlicer(v)
    \/ \E w \in Widgets, v \in Values : Click(w, v)
    \/ \E w \in Widgets, b \in Bindings : Edit(w, b) \/ Drill(w, b)
    \/ \E w \in Widgets \cup {None} : Refresh(w)
    \/ Restyle \/ ReloadModel \/ Undo \/ Redo \/ Cancel

LaterStep == Fire \/ \E r \in requests : Answer(r) \/ AnswerFails(r)

Next == UserStep \/ LaterStep

Spec == Init /\ [][Next]_vars

-----------------------------------------------------------------------------
(* What the effect counts on. *)

Awaited(w) == timer[w] # NoKey \/ \E r \in requests : r.widget = w

\* An act neither falls within the 150 ms of another, nor brings a visual that
\* is loading back to what it still shows; what changes the filter of a visual
\* changes the report's, and is no click on it.  (Undoing and cancelling are
\* left to Acts.)
Unhurried ==
    UserStep =>
        /\ timer = NoTimer
        /\ \A w \in Widgets : Awaited(w) => shown[w].key # Key(w)'
        /\ \A w \in Widgets : FilterFor(w)' # FilterFor(w) =>
              Filter' # Filter /\ \A v \in Values : ~Click(w, v)

CalmSpec == Init /\ [][Next /\ Unhurried]_vars

\* Or: everything the acts before asked for has been answered.
SettledSpec ==
    Init /\ [][Next /\ (UserStep => timer = NoTimer /\ requests = {})]_vars

-----------------------------------------------------------------------------
(* What must hold. *)

TypeOK ==
    /\ slicer \in Values \cup {None}
    /\ highlight \in [widget : Widgets, value : Values] \cup {NoHighlight}
    /\ binding \in [Widgets -> Bindings]
    /\ shown \in [Widgets -> [key : Keys \cup {Failed}, batch : 0 .. asked]]
    /\ loading \in [Widgets -> BOOLEAN]
    /\ timer \in [Widgets -> Keys \cup {NoKey}]
    /\ marked \subseteq Widgets
    /\ \A r \in requests : r \in [batch : 1 .. asked, widget : Widgets, key : Keys]
    /\ asked \in Nat
    /\ at \in 1 .. Len(past)
    /\ Len(past) <= HistoryCap
    /\ acts \in 0 .. MaxActs

\* "A visual stuck on stale data is not absorbed by anything": once nothing is
\* awaited, a visual shows what it is bound to, under its filters, or an error.
SettledIsCurrent ==
    timer = NoTimer /\ requests = {} =>
        \A w \in Widgets : shown[w].key \in {Key(w), Failed}

\* "So the spinner doesn't stick": a visual that spins awaits something.
SpinnersEnd == \A w \in Widgets : loading[w] => Awaited(w)

\* "Cleared once the fetch actually starts": a visual with queries in flight spins.
LoadsSpin == \A r \in requests : loading[r.widget]

\* "Re-issuing its queries cancels only its own previous ones": what a visual
\* shows is never replaced by an older answer, but by undoing.
NewestWins == [][Undo \/ Redo \/ \A w \in Widgets : shown'[w].batch >= shown[w].batch]_vars

\* "Leaves the other loads running": only a visual's own new queries, or the
\* user, end a query before its answer.
OthersGoOn ==
    [][\A r \in requests \ requests' :
          \/ Cancel
          \/ timer[r.widget] # NoKey
          \/ shown'[r.widget].batch = r.batch]_vars
=============================================================================
