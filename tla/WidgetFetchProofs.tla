------------------------- MODULE WidgetFetchProofs -------------------------
(* Proofs about WidgetFetch: types; that a visual never goes back to an     *)
(* older answer; that, under what the effect counts on, what a visual shows *)
(* or awaits is what it is bound to.                                        *)
EXTENDS WidgetFetch, SequenceTheorems, TLAPS

Shows(n) == [Widgets -> [key : Keys \cup {Failed}, batch : 0 .. n]]

Pages(n) ==
    [slicer : Values \cup {None}, binding : [Widgets -> Bindings],
     shown : Shows(n), loading : [Widgets -> BOOLEAN]]

DocumentOK ==
    /\ slicer \in Values \cup {None}
    /\ highlight \in [widget : Widgets, value : Values] \cup {NoHighlight}
    /\ binding \in [Widgets -> Bindings]

ScreenOK ==
    /\ shown \in Shows(asked)
    /\ loading \in [Widgets -> BOOLEAN]

FetchOK ==
    /\ timer \in [Widgets -> Keys \cup {NoKey}]
    /\ marked \subseteq Widgets
    /\ \A r \in requests : r \in [batch : 1 .. asked, widget : Widgets, key : Keys]
    /\ asked \in Nat

PastOK ==
    /\ past \in Seq(Pages(asked))
    /\ at \in 1 .. Len(past)
    /\ Len(past) <= HistoryCap

\* What is on the page, and every page recorded, has its type.
Typed == DocumentOK /\ ScreenOK /\ FetchOK /\ PastOK /\ acts \in 0 .. MaxActs

-----------------------------------------------------------------------------
LEMMA PageTyped ==
    ASSUME Typed
    PROVE  Page \in Pages(asked)
BY DEF Typed, DocumentOK, ScreenOK, Page, Pages

LEMMA KeyTyped ==
    ASSUME DocumentOK
    PROVE  \A w \in Widgets : Key(w) \in Keys
BY FetchAssumption DEF FetchAssumption, DocumentOK, Key, FilterFor, Filter, Keys, NoHighlight

LEMMA NextKeyTyped ==
    ASSUME DocumentOK'
    PROVE  \A w \in Widgets : Key(w)' \in Keys
BY FetchAssumption DEF FetchAssumption, DocumentOK, Key, FilterFor, Filter, Keys, NoHighlight

LEMMA NoKeyIsNoKey == NoKey \notin Keys
BY FetchAssumption DEF FetchAssumption, NoKey, Keys

\* A run of the effect keeps the timer, the marks and the spinners in type.
LEMMA RunTyped ==
    ASSUME Typed, DocumentOK', NEW spinning \in [Widgets -> BOOLEAN],
           NEW source, NEW refresh, NEW scoped, Run(spinning, source, refresh, scoped)
    PROVE  /\ timer' \in [Widgets -> Keys \cup {NoKey}]
           /\ marked' \subseteq Widgets
           /\ loading' \in [Widgets -> BOOLEAN]
<1> DEFINE wanted == IF Woken(source, refresh) THEN Wanted(source, refresh, scoped) ELSE {}
<1>1. wanted \subseteq Widgets
  BY DEF Wanted
<1>2. /\ timer' = [w \in Widgets |-> IF w \in wanted THEN Key(w)' ELSE NoKey]
      /\ marked' = wanted
      /\ loading' = [w \in Widgets |-> w \in wanted \/ (spinning[w] /\ w \notin marked)]
  BY DEF Run
<1> HIDE DEF wanted
<1>3. timer' \in [Widgets -> Keys \cup {NoKey}]
  BY <1>2, NextKeyTyped
<1>4. loading' \in [Widgets -> BOOLEAN]
  BY <1>2
<1> QED BY <1>1, <1>2, <1>3, <1>4

\* The history keeps what is true of its pages, and its length; the index stays in it.
LEMMA PushKeeps ==
    ASSUME PastOK, NEW S, past \in Seq(S), NEW page \in S, Push(page)
    PROVE  /\ past' \in Seq(S)
           /\ at' \in 1 .. Len(past')
           /\ Len(past') <= HistoryCap
<1> DEFINE kept == SubSeq(past, 1, at)
           pages == Append(kept, page)
<1>1. past \in Seq(S) /\ at \in 1 .. Len(past) /\ Len(past) <= HistoryCap /\ HistoryCap \in Nat \ {0}
  BY FetchAssumption DEF FetchAssumption, PastOK
<1>2. Push(page) <=> IF Len(pages) > HistoryCap
                     THEN past' = Tail(pages) /\ UNCHANGED at
                     ELSE past' = pages /\ at' = at + 1
  BY DEF Push
<1>3. kept \in Seq(S) /\ Len(kept) = at
  BY <1>1, SubSeqProperties
<1> HIDE DEF kept
<1>4. pages \in Seq(S) /\ Len(pages) = at + 1
  BY <1>1, <1>3, AppendProperties
<1> HIDE DEF pages
<1>5. CASE Len(pages) > HistoryCap
  <2>1. past' = Tail(pages) /\ at' = at
    BY <1>2, <1>5
  <2>2. Tail(pages) \in Seq(S) /\ Len(Tail(pages)) = at
    BY <1>1, <1>4, HeadTailProperties
  <2> QED BY <1>1, <2>1, <2>2
<1>6. CASE ~(Len(pages) > HistoryCap)
  <2>1. past' = pages /\ at' = at + 1
    BY <1>2, <1>6
  <2> QED BY <1>1, <1>4, <1>6, <2>1
<1> QED BY <1>5, <1>6

LEMMA PushTyped ==
    ASSUME Typed, NEW page \in Pages(asked), Push(page)
    PROVE  /\ past' \in Seq(Pages(asked))
           /\ at' \in 1 .. Len(past')
           /\ Len(past') <= HistoryCap
<1>1. PastOK /\ past \in Seq(Pages(asked))
  BY DEF Typed, PastOK
<1> HIDE DEF Pages
<1> QED BY <1>1, PushKeeps

-----------------------------------------------------------------------------
LEMMA InitTyped == Init => Typed
<1> SUFFICES ASSUME Init PROVE Typed
  OBVIOUS
<1>1. DocumentOK
  BY DEF Init, DocumentOK
<1>2. ScreenOK
  BY <1>1, KeyTyped DEF Init, ScreenOK, Shows
<1>3. FetchOK
  BY DEF Init, FetchOK, NoTimer
<1>4. Page \in Pages(asked)
  BY <1>1, <1>2 DEF Page, Pages, DocumentOK, ScreenOK
<1>5. PastOK
  <2>1. past = <<Page>> /\ at = 1
    BY DEF Init
  <2>2. past \in Seq(Pages(asked)) /\ Len(past) = 1
    BY <1>4, <2>1
  <2> QED BY <2>1, <2>2, FetchAssumption DEF PastOK, FetchAssumption
<1> QED BY <1>1, <1>2, <1>3, <1>5, FetchAssumption DEF Typed, Init, FetchAssumption

\* An act whose document and page are in type, and that runs the effect.
LEMMA ActTyped ==
    ASSUME Typed, NEW name, Act(name), DocumentOK', UNCHANGED <<shown, requests, asked>>,
           NEW spinning \in [Widgets -> BOOLEAN], NEW source, NEW refresh, NEW scoped,
           Run(spinning, source, refresh, scoped), PastOK'
    PROVE  Typed'
<1>1. FetchOK'
  BY RunTyped DEF Typed, FetchOK
<1>2. ScreenOK'
  BY RunTyped DEF Typed, ScreenOK
<1>3. acts' \in 0 .. MaxActs
  BY FetchAssumption DEF Typed, Act, FetchAssumption
<1> QED BY <1>1, <1>2, <1>3 DEF Typed

LEMMA LandTyped ==
    ASSUME Typed, NEW r \in requests, NEW key \in Keys \cup {Failed}, Land(r, key)
    PROVE  Typed'
<1>1. r \in [batch : 1 .. asked, widget : Widgets, key : Keys] /\ asked \in Nat
  BY DEF Typed, FetchOK
<1>2. ScreenOK'
  BY <1>1 DEF Typed, ScreenOK, Shows, Land
<1>3. FetchOK'
  BY DEF Typed, FetchOK, Land, MarkedAfter
<1> QED BY <1>2, <1>3 DEF Typed, DocumentOK, PastOK, Land, document

LEMMA GoToTyped ==
    ASSUME Typed, NEW name, Act(name), NEW i \in 1 .. Len(past), GoTo(i)
    PROVE  Typed'
<1>1. past[i] \in Pages(asked)
  BY DEF Typed, PastOK
<1>2. DocumentOK'
  BY <1>1 DEF Typed, DocumentOK, GoTo, Pages
<1>3. past[i].loading \in [Widgets -> BOOLEAN] /\ past[i].shown \in Shows(asked)
  BY <1>1 DEF Pages
<1>4. /\ timer' \in [Widgets -> Keys \cup {NoKey}]
      /\ marked' \subseteq Widgets
      /\ loading' \in [Widgets -> BOOLEAN]
  <2>1. CASE Filter' # Filter \/ Moved # {}
    <3>1. Run(past[i].loading, None, FALSE, None)
      BY <2>1 DEF GoTo
    <3> QED BY <1>2, <1>3, <3>1, RunTyped
  <2>2. CASE ~(Filter' # Filter \/ Moved # {})
    BY <1>3, <2>2 DEF GoTo, Typed, FetchOK
  <2> QED BY <2>1, <2>2
<1>5. acts' \in 0 .. MaxActs
  BY FetchAssumption DEF Typed, Act, FetchAssumption
<1>6. ScreenOK'
  BY <1>3, <1>4 DEF ScreenOK, GoTo
<1>7. FetchOK'
  BY <1>4 DEF Typed, FetchOK, GoTo
<1>8. PastOK'
  BY DEF Typed, PastOK, GoTo
<1> QED BY <1>2, <1>5, <1>6, <1>7, <1>8 DEF Typed

\* The next batch: one request for each visual the timer is set for.
LEMMA BatchTyped ==
    ASSUME Typed
    PROVE  \A r \in Batch : /\ r \in [batch : 1 .. asked + 1, widget : Widgets, key : Keys]
                            /\ r.batch = asked + 1
                            /\ timer[r.widget] # NoKey
                            /\ r.key = timer[r.widget]
BY DEF Batch, Typed, FetchOK

LEMMA FireTyped ==
    ASSUME Typed, Fire
    PROVE  Typed'
<1>1. asked \in Nat /\ asked' = asked + 1
  BY DEF Typed, FetchOK, Fire
<1>2. Shows(asked) \subseteq Shows(asked')
  BY <1>1 DEF Shows
<1>3. Pages(asked) \subseteq Pages(asked')
  BY <1>2 DEF Pages
<1>4. ScreenOK'
  BY <1>2 DEF Typed, ScreenOK, Fire
<1>5. FetchOK'
  <2>1. ASSUME NEW r \in requests'
        PROVE  r \in [batch : 1 .. asked', widget : Widgets, key : Keys]
    <3>1. r \in requests \/ r \in Batch
      BY DEF Fire
    <3>2. CASE r \in requests
      BY <1>1, <3>2 DEF Typed, FetchOK
    <3>3. CASE r \in Batch
      BY <1>1, <3>3, BatchTyped
    <3> QED BY <3>1, <3>2, <3>3
  <2>2. timer' \in [Widgets -> Keys \cup {NoKey}] /\ marked' \subseteq Widgets
    BY DEF Typed, FetchOK, Fire, NoTimer, MarkedAfter
  <2> QED BY <1>1, <2>1, <2>2 DEF FetchOK
<1>6. past' \in Seq(Pages(asked'))
  <2>1. past \in Seq(Pages(asked)) /\ past' = past
    BY DEF Typed, PastOK, Fire
  <2> QED BY <1>3, <2>1
<1>7. PastOK'
  BY <1>6 DEF Typed, PastOK, Fire
<1>8. DocumentOK' /\ acts' \in 0 .. MaxActs
  BY DEF Typed, DocumentOK, Fire, document
<1> QED BY <1>4, <1>5, <1>7, <1>8 DEF Typed

LEMMA NextTyped ==
    ASSUME Typed, [Next]_vars
    PROVE  Typed'
<1>0. /\ DocumentOK /\ ScreenOK /\ FetchOK /\ PastOK
      /\ loading \in [Widgets -> BOOLEAN]
  BY DEF Typed, ScreenOK
<1>1. ASSUME NEW v \in Values \cup {None}, SetSlicer(v)
      PROVE  Typed'
  <2>1. DocumentOK'
    BY <1>0, <1>1 DEF SetSlicer, DocumentOK
  <2>2. [Page EXCEPT !.slicer = v] \in Pages(asked)
    BY PageTyped DEF Pages
  <2>3. PastOK'
    BY <1>1, <2>2, PushTyped DEF SetSlicer, PastOK
  <2> QED BY <1>0, <1>1, <2>1, <2>3, ActTyped DEF SetSlicer
<1>2. ASSUME NEW w \in Widgets, NEW v \in Values, Click(w, v)
      PROVE  Typed'
  <2>1. DocumentOK'
    BY <1>0, <1>2 DEF Click, DocumentOK
  <2>2. PastOK'
    BY <1>0, <1>2 DEF Click, PastOK
  <2> QED BY <1>0, <1>2, <2>1, <2>2, ActTyped DEF Click
<1>3. ASSUME NEW w \in Widgets, NEW b \in Bindings, Edit(w, b)
      PROVE  Typed'
  <2>1. DocumentOK'
    BY <1>0, <1>3 DEF Edit, DocumentOK
  <2>2. [Page EXCEPT !.binding[w] = b] \in Pages(asked)
    BY PageTyped DEF Pages
  <2>3. PastOK'
    BY <1>3, <2>2, PushTyped DEF Edit, PastOK
  <2> QED BY <1>0, <1>3, <2>1, <2>3, ActTyped DEF Edit
<1>4. ASSUME NEW w \in Widgets, NEW b \in Bindings, Drill(w, b)
      PROVE  Typed'
  <2>1. DocumentOK'
    BY <1>0, <1>4 DEF Drill, DocumentOK
  <2>2. PastOK'
    BY <1>0, <1>4 DEF Drill, PastOK
  <2>3. [loading EXCEPT ![w] = TRUE] \in [Widgets -> BOOLEAN]
    BY <1>0
  <2>4. \/ Run([loading EXCEPT ![w] = TRUE], w, TRUE, None)
        \/ Run([loading EXCEPT ![w] = TRUE], None, TRUE, w)
    BY <1>4 DEF Drill
  <2>5. Act("drill") /\ UNCHANGED <<shown, requests, asked>>
    BY <1>4 DEF Drill
  <2> QED BY <2>1, <2>2, <2>3, <2>4, <2>5, ActTyped
<1>5. ASSUME NEW w \in Widgets \cup {None}, Refresh(w)
      PROVE  Typed'
  <2>1. DocumentOK' /\ PastOK'
    BY <1>0, <1>5 DEF Refresh, document, DocumentOK, PastOK
  <2> QED BY <1>0, <1>5, <2>1, ActTyped DEF Refresh
<1>6. ASSUME Restyle
      PROVE  Typed'
  <2>1. PastOK'
    BY <1>6, PageTyped, PushTyped DEF Restyle, fetching, PastOK
  <2>2. DocumentOK' /\ ScreenOK' /\ FetchOK'
    BY <1>0, <1>6 DEF Restyle, document, fetching, DocumentOK, ScreenOK, FetchOK
  <2>3. acts' \in 0 .. MaxActs
    BY <1>6, FetchAssumption DEF Typed, Restyle, Act, FetchAssumption
  <2> QED BY <2>1, <2>2, <2>3 DEF Typed
<1>7. ASSUME ReloadModel
      PROVE  Typed'
  <2>1. DocumentOK' /\ PastOK'
    BY <1>0, <1>7 DEF ReloadModel, document, DocumentOK, PastOK
  <2> QED BY <1>0, <1>7, <2>1, ActTyped DEF ReloadModel
<1>8. ASSUME Undo \/ Redo
      PROVE  Typed'
  <2>1. at \in 1 .. Len(past) /\ Len(past) \in Nat
    BY <1>0, LenProperties DEF PastOK
  <2>2. CASE Undo
    <3>1. at - 1 \in 1 .. Len(past) /\ Act("undo") /\ GoTo(at - 1)
      BY <2>1, <2>2 DEF Undo
    <3> QED BY <3>1, GoToTyped
  <2>3. CASE Redo
    <3>1. at + 1 \in 1 .. Len(past) /\ Act("undo") /\ GoTo(at + 1)
      BY <2>1, <2>3 DEF Redo
    <3> QED BY <3>1, GoToTyped
  <2> QED BY <1>8, <2>2, <2>3
<1>9. ASSUME Cancel
      PROVE  Typed'
  <2>1. DocumentOK' /\ PastOK'
    BY <1>0, <1>9 DEF Cancel, document, DocumentOK, PastOK
  <2>2. ScreenOK' /\ FetchOK'
    BY <1>0, <1>9 DEF Cancel, ScreenOK, FetchOK, NoTimer
  <2>3. acts' \in 0 .. MaxActs
    BY <1>9, FetchAssumption DEF Typed, Cancel, Act, FetchAssumption
  <2> QED BY <2>1, <2>2, <2>3 DEF Typed
<1>10. CASE Fire
  BY <1>10, FireTyped
<1>11. ASSUME NEW r \in requests, Answer(r) \/ AnswerFails(r)
       PROVE  Typed'
  <2>1. r.key \in Keys \cup {Failed} /\ Failed \in Keys \cup {Failed}
    BY <1>0 DEF FetchOK
  <2> QED BY <1>11, <2>1, LandTyped DEF Answer, AnswerFails
<1>12. CASE UNCHANGED vars
  BY <1>0, <1>12 DEF vars, Typed, DocumentOK, ScreenOK, FetchOK, PastOK
<1> QED BY <1>1, <1>2, <1>3, <1>4, <1>5, <1>6, <1>7, <1>8, <1>9, <1>10, <1>11, <1>12
        DEF Next, UserStep, LaterStep

LEMMA AlwaysTyped == Spec => []Typed
<1>1. Init => Typed
  BY InitTyped
<1>2. Typed /\ [Next]_vars => Typed'
  BY NextTyped
<1> QED BY <1>1, <1>2, PTL DEF Spec

\* Whatever is clicked, edited, undone or cancelled, and whenever answers come,
\* the page, the timer, the requests and the history keep their types and the
\* history's index stays within its capped length.
THEOREM TypeCorrect == Spec => []TypeOK
<1>1. Typed => TypeOK
  BY DEF Typed, DocumentOK, ScreenOK, FetchOK, PastOK, Shows, TypeOK
<1> QED BY <1>1, AlwaysTyped, PTL

-----------------------------------------------------------------------------
(* Answers in order: a visual awaits one request at most, newer than what   *)
(* it shows and than what any recorded page shows in it.                    *)

OnePerVisual == \A r, s \in requests : r.widget = s.widget => r = s

Ahead == \A r \in requests : r.batch > shown[r.widget].batch

Older(r) == {p \in Pages(asked) : r.batch > p.shown[r.widget].batch}

AheadOfPast == \A r \in requests : past \in Seq(Older(r))

InOrder == Typed /\ OnePerVisual /\ Ahead /\ AheadOfPast

\* An act that does not travel in the history leaves what is in flight as it is, or
\* nothing in flight, and records no other page than the one on screen.
LEMMA ActLeavesRequests ==
    ASSUME Typed, UserStep, ~Undo, ~Redo
    PROVE  /\ UNCHANGED <<shown, asked>>
           /\ \/ requests' = {}
              \/ UNCHANGED <<requests, past>>
              \/ /\ UNCHANGED requests
                 /\ \E page \in Pages(asked) : page.shown = shown /\ Push(page)
<1>1. Page \in Pages(asked) /\ Page.shown = shown
  BY PageTyped DEF Page
<1>2. ASSUME NEW v \in Values \cup {None}, SetSlicer(v)
      PROVE  /\ UNCHANGED <<shown, asked, requests>>
             /\ \E page \in Pages(asked) : page.shown = shown /\ Push(page)
  <2> DEFINE page == [Page EXCEPT !.slicer = v]
  <2>1. page \in Pages(asked) /\ page.shown = shown
    BY PageTyped DEF Pages, Page
  <2>2. UNCHANGED <<shown, asked, requests>> /\ Push(page)
    BY <1>2 DEF SetSlicer
  <2> QED BY <2>1, <2>2
<1>3. ASSUME NEW w \in Widgets, NEW b \in Bindings, Edit(w, b)
      PROVE  /\ UNCHANGED <<shown, asked, requests>>
             /\ \E page \in Pages(asked) : page.shown = shown /\ Push(page)
  <2> DEFINE page == [Page EXCEPT !.binding[w] = b]
  <2>1. page \in Pages(asked) /\ page.shown = shown
    BY PageTyped DEF Pages, Page
  <2>2. UNCHANGED <<shown, asked, requests>> /\ Push(page)
    BY <1>3 DEF Edit
  <2> QED BY <2>1, <2>2
<1>4. ASSUME Restyle
      PROVE  /\ UNCHANGED <<shown, asked, requests>>
             /\ \E page \in Pages(asked) : page.shown = shown /\ Push(page)
  <2>1. UNCHANGED <<shown, asked, requests>> /\ Push(Page)
    BY <1>4 DEF Restyle, fetching
  <2> QED BY <1>1, <2>1
<1>5. ASSUME \/ \E w \in Widgets, v \in Values : Click(w, v)
             \/ \E w \in Widgets, b \in Bindings : Drill(w, b)
             \/ \E w \in Widgets \cup {None} : Refresh(w)
             \/ ReloadModel
      PROVE  UNCHANGED <<shown, asked, requests, past>>
  BY <1>5 DEF Click, Drill, Refresh, ReloadModel
<1>6. ASSUME Cancel
      PROVE  requests' = {} /\ UNCHANGED <<shown, asked>>
  BY <1>6 DEF Cancel
<1> HIDE DEF Pages
<1> QED BY <1>2, <1>3, <1>4, <1>5, <1>6 DEF UserStep

LEMMA ActInOrder ==
    ASSUME InOrder, UserStep, ~Undo, ~Redo
    PROVE  OnePerVisual' /\ Ahead' /\ AheadOfPast' /\ UNCHANGED shown
<1>1. Typed /\ PastOK
  BY DEF InOrder, Typed
<1>2. CASE requests' = {}
  BY <1>1, <1>2, ActLeavesRequests DEF OnePerVisual, Ahead, AheadOfPast
<1>3. CASE UNCHANGED <<requests, past>>
  BY <1>1, <1>3, ActLeavesRequests DEF InOrder, OnePerVisual, Ahead, AheadOfPast, Older, Pages, Shows
<1>4. ASSUME NEW page \in Pages(asked), UNCHANGED <<requests, shown, asked>>, page.shown = shown, Push(page)
      PROVE  OnePerVisual' /\ Ahead' /\ AheadOfPast' /\ UNCHANGED shown
  <2>1. OnePerVisual' /\ Ahead'
    BY <1>4 DEF InOrder, OnePerVisual, Ahead
  <2>2. ASSUME NEW r \in requests
        PROVE  past' \in Seq(Older(r))
    <3>1. page \in Older(r) /\ past \in Seq(Older(r))
      BY <1>4 DEF InOrder, Ahead, AheadOfPast, Older
    <3> HIDE DEF Older
    <3> QED BY <1>1, <1>4, <3>1, PushKeeps
  <2>3. \A r : Older(r)' = Older(r)
    BY <1>4 DEF Older, Pages, Shows
  <2>4. AheadOfPast'
    BY <1>4, <2>2, <2>3 DEF AheadOfPast
  <2> QED BY <1>4, <2>1, <2>4
<1> QED BY <1>1, <1>2, <1>3, <1>4, ActLeavesRequests

\* A page of the past is older than what is awaited.
LEMMA GoToInOrder ==
    ASSUME InOrder, NEW i \in 1 .. Len(past), GoTo(i)
    PROVE  OnePerVisual' /\ Ahead' /\ AheadOfPast'
<1>1. UNCHANGED <<requests, asked, past>> /\ shown' = past[i].shown
  BY DEF GoTo
<1>2. \A r \in requests : past[i] \in Older(r)
  BY DEF InOrder, AheadOfPast
<1>3. Ahead'
  BY <1>1, <1>2 DEF Ahead, Older
<1>4. OnePerVisual' /\ AheadOfPast'
  BY <1>1 DEF InOrder, OnePerVisual, AheadOfPast, Older, Pages, Shows
<1> QED BY <1>3, <1>4

LEMMA FireInOrder ==
    ASSUME InOrder, Fire
    PROVE  OnePerVisual' /\ Ahead' /\ AheadOfPast' /\ UNCHANGED shown
<1> DEFINE left == {r \in requests : timer[r.widget] = NoKey}
<1>1. requests' = left \cup Batch /\ shown' = shown /\ past' = past /\ asked' = asked + 1
  BY DEF Fire
<1>2. \A r \in left : r \in requests /\ timer[r.widget] = NoKey
  OBVIOUS
<1>3. \A r \in Batch : r.batch = asked + 1 /\ timer[r.widget] # NoKey /\ r.widget \in Widgets
  BY BatchTyped DEF InOrder
<1>4. \A r, s \in Batch : r.widget = s.widget => r = s
  BY DEF Batch
<1> HIDE DEF left
<1>5. OnePerVisual'
  BY <1>1, <1>2, <1>3, <1>4 DEF InOrder, OnePerVisual
<1>6. \A w \in Widgets : asked + 1 > shown[w].batch
  BY DEF InOrder, Typed, ScreenOK, FetchOK, Shows
<1>7. Ahead'
  BY <1>1, <1>2, <1>3, <1>6 DEF InOrder, Ahead
<1>8. asked \in Nat /\ past \in Seq(Pages(asked))
  BY DEF InOrder, Typed, FetchOK, PastOK
<1>9. Pages(asked) \subseteq Pages(asked')
  BY <1>1, <1>8 DEF Pages, Shows
<1>10. ASSUME NEW r \in requests'
       PROVE  past' \in Seq(Older(r)')
  <2>1. CASE r \in left
    <3>1. past \in Seq(Older(r))
      BY <1>2, <2>1 DEF InOrder, AheadOfPast
    <3>2. Older(r) \subseteq Older(r)'
      BY <1>9 DEF Older
    <3> QED BY <1>1, <3>1, <3>2
  <2>2. CASE r \in Batch
    <3>1. r.batch = asked + 1 /\ r.widget \in Widgets
      BY <1>3, <2>2
    <3>2. \A p \in Pages(asked) : r.batch > p.shown[r.widget].batch
      BY <1>8, <3>1 DEF Pages, Shows
    <3>3. Pages(asked) \subseteq Older(r)'
      BY <1>9, <3>2 DEF Older
    <3> QED BY <1>1, <1>8, <3>3
  <2> QED BY <1>1, <2>1, <2>2
<1>11. AheadOfPast'
  BY <1>10 DEF AheadOfPast
<1> QED BY <1>1, <1>5, <1>7, <1>11

LEMMA LandInOrder ==
    ASSUME InOrder, NEW r \in requests, NEW key, Land(r, key)
    PROVE  /\ OnePerVisual' /\ Ahead' /\ AheadOfPast'
           /\ \A w \in Widgets : shown'[w].batch >= shown[w].batch
<1>1. /\ shown \in Shows(asked) /\ r.widget \in Widgets /\ asked \in Nat /\ r.batch \in Nat
      /\ r.batch > shown[r.widget].batch
  BY DEF InOrder, Ahead, Typed, ScreenOK, FetchOK
<1>2. /\ shown' = [shown EXCEPT ![r.widget] = [key |-> key, batch |-> r.batch]]
      /\ requests' = requests \ {r}
  BY DEF Land
<1>3. \A w \in Widgets : shown[w].batch \in Nat
  BY <1>1 DEF Shows
<1>4. shown'[r.widget].batch = r.batch /\ \A w \in Widgets \ {r.widget} : shown'[w] = shown[w]
  BY <1>1, <1>2 DEF Shows
<1>5. OnePerVisual'
  BY <1>2 DEF InOrder, OnePerVisual
<1>6. ASSUME NEW s \in requests'
      PROVE  s.batch > shown'[s.widget].batch
  <2>1. s \in requests /\ s.widget # r.widget /\ s.widget \in Widgets
    BY <1>2 DEF InOrder, OnePerVisual, Typed, FetchOK
  <2> QED BY <1>4, <2>1 DEF InOrder, Ahead
<1>7. \A w \in Widgets : shown'[w].batch >= shown[w].batch
  BY <1>1, <1>3, <1>4
<1>8. AheadOfPast'
  <2>1. asked' = asked /\ past' = past
    BY DEF Land
  <2> QED BY <1>2, <2>1 DEF InOrder, AheadOfPast, Older, Pages, Shows
<1> QED BY <1>5, <1>6, <1>7, <1>8 DEF Ahead

LEMMA StepInOrder ==
    ASSUME InOrder, [Next]_vars
    PROVE  /\ InOrder'
           /\ Undo \/ Redo \/ \A w \in Widgets : shown'[w].batch >= shown[w].batch
<1>1. Typed' /\ Typed
  BY NextTyped DEF InOrder
<1>2. \A w \in Widgets : shown[w].batch \in Nat
  BY <1>1 DEF Typed, ScreenOK, Shows, FetchOK
<1>3. CASE UserStep /\ ~Undo /\ ~Redo
  <2>1. InOrder' /\ UNCHANGED shown
    BY <1>1, <1>3, ActInOrder DEF InOrder
  <2> QED BY <1>2, <2>1
<1>4. CASE Undo \/ Redo
  <2>1. at \in 1 .. Len(past) /\ Len(past) \in Nat
    BY <1>1, LenProperties DEF Typed, PastOK
  <2>2. CASE Undo
    <3>1. at - 1 \in 1 .. Len(past) /\ GoTo(at - 1)
      BY <2>1, <2>2 DEF Undo
    <3> QED BY <1>1, <1>4, <3>1, GoToInOrder DEF InOrder
  <2>3. CASE Redo
    <3>1. at + 1 \in 1 .. Len(past) /\ GoTo(at + 1)
      BY <2>1, <2>3 DEF Redo
    <3> QED BY <1>1, <1>4, <3>1, GoToInOrder DEF InOrder
  <2> QED BY <1>4, <2>2, <2>3
<1>5. CASE Fire
  <2>1. InOrder' /\ UNCHANGED shown
    BY <1>1, <1>5, FireInOrder DEF InOrder
  <2> QED BY <1>2, <2>1
<1>6. ASSUME NEW r \in requests, Answer(r) \/ AnswerFails(r)
      PROVE  InOrder' /\ \A w \in Widgets : shown'[w].batch >= shown[w].batch
  BY <1>1, <1>6, LandInOrder DEF InOrder, Answer, AnswerFails
<1>7. CASE UNCHANGED vars
  <2>1. UNCHANGED <<shown, requests, asked, past>>
    BY <1>7 DEF vars
  <2>2. \A r : Older(r)' = Older(r)
    BY <2>1 DEF Older, Pages, Shows
  <2>3. InOrder'
    BY <1>1, <2>1, <2>2 DEF InOrder, OnePerVisual, Ahead, AheadOfPast
  <2> QED BY <1>2, <2>1, <2>3
<1> QED BY <1>3, <1>4, <1>5, <1>6, <1>7 DEF Next, LaterStep

\* The controller each visual has of its own does what it is for: the answers a
\* visual shows follow each other in the order they were asked for, also after an
\* undo or a redo has put the data of a recorded page back among them.
THEOREM AnswersStayInOrder == Spec => NewestWins
<1>1. Init => InOrder
  BY InitTyped DEF Init, InOrder, OnePerVisual, Ahead, AheadOfPast
<1>2. InOrder /\ [Next]_vars => InOrder'
  BY StepInOrder
<1>3. InOrder /\ [Next]_vars => [Undo \/ Redo \/ \A w \in Widgets : shown'[w].batch >= shown[w].batch]_vars
  BY StepInOrder
<1> QED BY <1>1, <1>2, <1>3, PTL DEF Spec, NewestWins

-----------------------------------------------------------------------------
(* Unhurried: what a visual shows, or awaits, is what it is bound to.       *)

Current ==
    \A w \in Widgets :
        /\ timer[w] # NoKey => timer[w] = Key(w)
        /\ timer[w] = NoKey =>
              /\ \A r \in requests : r.widget = w => r.key = Key(w)
              /\ (\A r \in requests : r.widget # w) => shown[w].key \in {Key(w), Failed}

CalmInv == Typed /\ OnePerVisual /\ Current /\ SpinnersEnd

\* What a run may leave alone: a visual it does not ask for is bound to what
\* it was, or shows what it is bound to and awaits nothing.
LEMMA LeftAlone ==
    ASSUME NEW source, NEW refresh \in BOOLEAN, NEW scoped, NEW w \in Widgets,
           UNCHANGED shown,
           Awaited(w) => shown[w].key # Key(w)',
           FilterFor(w)' # FilterFor(w) => Filter' # Filter,
           refresh \/ w # source \/ Key(w)' = Key(w),
           scoped \in {None, w} \/ Key(w)' = Key(w)
    PROVE  \/ Woken(source, refresh) /\ w \in Wanted(source, refresh, scoped)
           \/ Key(w)' = Key(w)
           \/ ~Awaited(w) /\ shown[w].key = Key(w)'
<1>1. Filter' = Filter /\ w \notin Moved => Key(w)' = Key(w)
  BY DEF Moved, Key
<1>2. ~Woken(source, refresh) => Filter' = Filter /\ w \notin Moved
  BY DEF Woken
<1>3. w \notin Wanted(source, refresh, scoped) =>
         \/ scoped \notin {None, w}
         \/ Filter' = Filter /\ w \notin Moved
         \/ ~refresh /\ (w = source \/ shown[w].key = Key(w)')
  BY DEF Wanted
<1> QED BY <1>1, <1>2, <1>3

\* What a run must not be asked to leave alone.
Harmless(spinning, source, refresh, scoped) ==
    \A w \in Widgets :
        /\ Awaited(w) => shown[w].key # Key(w)'
        /\ FilterFor(w)' # FilterFor(w) => Filter' # Filter
        /\ refresh \/ w # source \/ Key(w)' = Key(w)
        /\ scoped \in {None, w} \/ Key(w)' = Key(w)
        /\ spinning[w] => loading[w] \/ (refresh /\ scoped \in {None, w})

LEMMA RunCalm ==
    ASSUME CalmInv, DocumentOK', timer = NoTimer, UNCHANGED <<shown, requests>>,
           NEW source, NEW refresh \in BOOLEAN, NEW scoped,
           NEW spinning, Run(spinning, source, refresh, scoped),
           Harmless(spinning, source, refresh, scoped)
    PROVE  Current' /\ SpinnersEnd'
<1> DEFINE wanted == IF Woken(source, refresh) THEN Wanted(source, refresh, scoped) ELSE {}
<1>1. /\ timer' = [w \in Widgets |-> IF w \in wanted THEN Key(w)' ELSE NoKey]
      /\ loading' = [w \in Widgets |-> w \in wanted \/ (spinning[w] /\ w \notin marked)]
  BY DEF Run
<1>2. \A w \in Widgets : w \in wanted \/ Key(w)' = Key(w) \/ (~Awaited(w) /\ shown[w].key = Key(w)')
  BY LeftAlone DEF Harmless
<1>3. \A w \in Widgets : refresh /\ scoped \in {None, w} => w \in wanted
  BY DEF Woken, Wanted
<1> HIDE DEF wanted
<1>4. \A w \in Widgets : timer'[w] = IF w \in wanted THEN Key(w)' ELSE NoKey
  BY <1>1
<1>5. \A w \in Widgets : Key(w)' # NoKey
  BY NextKeyTyped, NoKeyIsNoKey
<1>6. \A w \in Widgets : timer[w] = NoKey
  BY DEF NoTimer
<1>7. \A w \in Widgets : (\E r \in requests : r.widget = w) => Awaited(w)
  BY DEF Awaited
<1>8. ASSUME NEW w \in Widgets
      PROVE  /\ timer'[w] # NoKey => timer'[w] = Key(w)'
             /\ timer'[w] = NoKey =>
                   /\ \A r \in requests' : r.widget = w => r.key = Key(w)'
                   /\ (\A r \in requests' : r.widget # w) => shown'[w].key \in {Key(w)', Failed}
  <2>1. CASE w \in wanted
    BY <1>4, <1>5, <2>1
  <2>2. CASE w \notin wanted /\ Key(w)' = Key(w)
    BY <1>4, <1>6, <2>2 DEF CalmInv, Current
  <2>3. CASE w \notin wanted /\ ~Awaited(w) /\ shown[w].key = Key(w)'
    BY <1>4, <1>7, <2>3
  <2> QED BY <1>2, <2>1, <2>2, <2>3
<1>9. ASSUME NEW w \in Widgets, loading'[w]
      PROVE  Awaited(w)'
  <2>1. w \in wanted \/ loading[w]
    BY <1>1, <1>3, <1>9 DEF Harmless
  <2>2. CASE w \in wanted
    BY <1>4, <1>5, <2>2 DEF Awaited
  <2>3. CASE loading[w]
    BY <1>6, <2>3 DEF CalmInv, SpinnersEnd, Awaited
  <2> QED BY <2>1, <2>2, <2>3
<1> QED BY <1>8, <1>9 DEF Current, SpinnersEnd

LEMMA ActCalm ==
    ASSUME CalmInv, UserStep, Unhurried, {"undo", "cancel"} \cap Acts = {}
    PROVE  Current' /\ SpinnersEnd'
<1>0. /\ timer = NoTimer
      /\ \A w \in Widgets :
            /\ Awaited(w) => shown[w].key # Key(w)'
            /\ FilterFor(w)' # FilterFor(w) => Filter' # Filter
            /\ FilterFor(w)' # FilterFor(w) => \A v \in Values : ~Click(w, v)
      /\ DocumentOK'
      /\ None \notin Widgets
  BY NextTyped, FetchAssumption DEF Unhurried, CalmInv, Next, Typed, FetchAssumption
<1>1. ASSUME NEW v \in Values \cup {None}, SetSlicer(v)
      PROVE  Current' /\ SpinnersEnd'
  <2>1. Harmless(loading, None, FALSE, None)
    BY <1>0 DEF Harmless
  <2>2. Run(loading, None, FALSE, None) /\ UNCHANGED <<shown, requests>>
    BY <1>1 DEF SetSlicer
  <2> QED BY <1>0, <2>1, <2>2, RunCalm
<1>2. ASSUME NEW c \in Widgets, NEW v \in Values, Click(c, v)
      PROVE  Current' /\ SpinnersEnd'
  <2>1. FilterFor(c)' = FilterFor(c) /\ binding' = binding
    BY <1>0, <1>2 DEF Click
  <2>2. Key(c)' = Key(c)
    BY <2>1 DEF Key
  <2>3. Run(loading, c, FALSE, None) /\ UNCHANGED <<shown, requests>>
    BY <1>2 DEF Click
  <2>4. Harmless(loading, c, FALSE, None)
    BY <1>0, <2>2 DEF Harmless
  <2> QED BY <1>0, <2>3, <2>4, RunCalm
<1>3. ASSUME NEW w \in Widgets, NEW b \in Bindings, Edit(w, b)
      PROVE  Current' /\ SpinnersEnd'
  <2>1. Harmless(loading, None, FALSE, None)
    BY <1>0 DEF Harmless
  <2>2. Run(loading, None, FALSE, None) /\ UNCHANGED <<shown, requests>>
    BY <1>3 DEF Edit
  <2> QED BY <1>0, <2>1, <2>2, RunCalm
<1>4. ASSUME NEW d \in Widgets, NEW b \in Bindings, Drill(d, b)
      PROVE  Current' /\ SpinnersEnd'
  <2> DEFINE spinning == [loading EXCEPT ![d] = TRUE]
  <2>1. /\ binding' = [binding EXCEPT ![d] = b] /\ UNCHANGED <<slicer, shown, requests>>
        /\ IF highlight.widget = d
           THEN highlight' = NoHighlight /\ Run(spinning, d, TRUE, None)
           ELSE UNCHANGED highlight /\ Run(spinning, None, TRUE, d)
    BY <1>4 DEF Drill
  <2>2. loading \in [Widgets -> BOOLEAN] /\ binding \in [Widgets -> Bindings]
    BY DEF CalmInv, Typed, ScreenOK, DocumentOK
  <2>3. \A w \in Widgets : spinning[w] => loading[w] \/ w = d
    BY <2>2
  <2> HIDE DEF spinning
  <2>4. CASE highlight.widget = d
    <3>1. Run(spinning, d, TRUE, None) /\ UNCHANGED <<shown, requests>>
      BY <2>1, <2>4
    <3>2. Harmless(spinning, d, TRUE, None)
      BY <1>0, <2>3 DEF Harmless
    <3> QED BY <1>0, <3>1, <3>2, RunCalm
  <2>5. CASE highlight.widget # d
    <3>1. Run(spinning, None, TRUE, d) /\ UNCHANGED <<slicer, highlight, shown, requests>>
      BY <2>1, <2>5
    <3>2. \A w \in Widgets \ {d} : binding'[w] = binding[w]
      BY <2>1, <2>2
    <3>3. \A w \in Widgets \ {d} : Key(w)' = Key(w)
      BY <3>1, <3>2 DEF Key, FilterFor, Filter
    <3>4. Harmless(spinning, None, TRUE, d)
      BY <1>0, <2>3, <3>3 DEF Harmless
    <3> QED BY <1>0, <3>1, <3>4, RunCalm
  <2> QED BY <2>4, <2>5
<1>5. ASSUME NEW s \in Widgets \cup {None}, Refresh(s)
      PROVE  Current' /\ SpinnersEnd'
  <2>1. \A w \in Widgets : Key(w)' = Key(w)
    BY <1>5 DEF Refresh, document, Key, FilterFor, Filter
  <2>2. Run(loading, None, TRUE, s) /\ UNCHANGED <<shown, requests>>
    BY <1>5 DEF Refresh
  <2>3. Harmless(loading, None, TRUE, s)
    BY <1>0, <2>1 DEF Harmless
  <2> QED BY <1>0, <2>2, <2>3, RunCalm
<1>6. ASSUME Restyle
      PROVE  Current' /\ SpinnersEnd'
  BY <1>6 DEF CalmInv, Current, SpinnersEnd, Awaited, Restyle, document, fetching, Key, FilterFor, Filter
<1>7. ASSUME ReloadModel
      PROVE  Current' /\ SpinnersEnd'
  <2>1. Harmless(loading, None, FALSE, None)
    BY <1>0 DEF Harmless
  <2>2. Run(loading, None, FALSE, None) /\ UNCHANGED <<shown, requests>>
    BY <1>7 DEF ReloadModel
  <2> QED BY <1>0, <2>1, <2>2, RunCalm
<1>8. ~Undo /\ ~Redo /\ ~Cancel
  BY DEF Undo, Redo, Cancel, Act
<1> QED BY <1>1, <1>2, <1>3, <1>4, <1>5, <1>6, <1>7, <1>8 DEF UserStep

LEMMA FireCalm ==
    ASSUME CalmInv, Fire
    PROVE  OnePerVisual' /\ Current' /\ SpinnersEnd'
<1> DEFINE left == {r \in requests : timer[r.widget] = NoKey}
<1>1. /\ requests' = left \cup Batch /\ timer' = NoTimer
      /\ shown' = shown /\ loading' = loading
      /\ \A w \in Widgets : Key(w)' = Key(w)
  BY DEF Fire, document, Key, FilterFor, Filter
<1>2. \A r \in left : r \in requests /\ timer[r.widget] = NoKey
  OBVIOUS
<1>3. \A r \in requests : timer[r.widget] = NoKey => r \in left
  OBVIOUS
<1>4. \A r \in Batch : timer[r.widget] # NoKey /\ r.widget \in Widgets /\ r.key = timer[r.widget]
  BY BatchTyped DEF CalmInv
<1>5. \A r, s \in Batch : r.widget = s.widget => r = s
  BY DEF Batch
<1>6. ASSUME NEW w \in Widgets, timer[w] # NoKey
      PROVE  \E r \in Batch : r.widget = w
  <2>1. [batch |-> asked + 1, widget |-> w, key |-> timer[w]] \in Batch
    BY <1>6 DEF Batch
  <2> QED BY <2>1
<1> HIDE DEF left
<1>7. OnePerVisual'
  BY <1>1, <1>2, <1>4, <1>5 DEF CalmInv, OnePerVisual
<1>8. ASSUME NEW w \in Widgets
      PROVE  /\ \A r \in requests' : r.widget = w => r.key = Key(w)
             /\ (\A r \in requests' : r.widget # w) => shown[w].key \in {Key(w), Failed}
  <2>1. CASE timer[w] # NoKey
    BY <1>1, <1>2, <1>4, <1>6, <2>1 DEF CalmInv, Current
  <2>2. CASE timer[w] = NoKey
    BY <1>1, <1>2, <1>3, <1>4, <2>2 DEF CalmInv, Current
  <2> QED BY <2>1, <2>2
<1>9. Current'
  BY <1>1, <1>8 DEF Current, NoTimer
<1>10. SpinnersEnd'
  BY <1>1, <1>3, <1>6 DEF CalmInv, SpinnersEnd, Awaited
<1> QED BY <1>7, <1>9, <1>10

LEMMA LandCalm ==
    ASSUME CalmInv, NEW r \in requests, NEW key \in {r.key, Failed}, Land(r, key)
    PROVE  OnePerVisual' /\ Current' /\ SpinnersEnd'
<1>1. /\ requests' = requests \ {r} /\ timer' = timer
      /\ \A w \in Widgets : Key(w)' = Key(w)
      /\ shown' = [shown EXCEPT ![r.widget] = [key |-> key, batch |-> r.batch]]
      /\ loading' = [loading EXCEPT ![r.widget] = FALSE]
  BY DEF Land, document, Key, FilterFor, Filter
<1>2. /\ shown \in Shows(asked) /\ loading \in [Widgets -> BOOLEAN]
      /\ r.widget \in Widgets
  BY DEF CalmInv, Typed, ScreenOK, FetchOK
<1>3. /\ shown'[r.widget].key = key /\ ~loading'[r.widget]
      /\ \A w \in Widgets \ {r.widget} : shown'[w] = shown[w] /\ loading'[w] = loading[w]
  BY <1>1, <1>2 DEF Shows
<1>4. OnePerVisual'
  BY <1>1 DEF CalmInv, OnePerVisual
<1>5. ASSUME NEW w \in Widgets
      PROVE  /\ timer[w] # NoKey => timer[w] = Key(w)
             /\ timer[w] = NoKey =>
                   /\ \A s \in requests' : s.widget = w => s.key = Key(w)
                   /\ (\A s \in requests' : s.widget # w) => shown'[w].key \in {Key(w), Failed}
  <2>1. CASE w = r.widget
    BY <1>1, <1>3, <2>1 DEF CalmInv, Current
  <2>2. CASE w # r.widget
    BY <1>1, <1>3, <2>2 DEF CalmInv, Current
  <2> QED BY <2>1, <2>2
<1>6. Current'
  BY <1>1, <1>5 DEF Current
<1>7. SpinnersEnd'
  BY <1>1, <1>3 DEF CalmInv, SpinnersEnd, Awaited
<1> QED BY <1>4, <1>6, <1>7

LEMMA CalmStep ==
    ASSUME CalmInv, [Next /\ Unhurried]_vars, {"undo", "cancel"} \cap Acts = {}
    PROVE  CalmInv'
<1>1. Typed'
  BY NextTyped DEF CalmInv
<1>2. CASE UserStep /\ Unhurried
  <2>1. OnePerVisual'
    <3>1. ~Undo /\ ~Redo
      BY DEF Undo, Redo, Act
    <3> QED BY <1>2, <3>1, ActLeavesRequests DEF CalmInv, OnePerVisual
  <2> QED BY <1>1, <1>2, <2>1, ActCalm DEF CalmInv
<1>3. CASE Fire
  BY <1>1, <1>3, FireCalm DEF CalmInv
<1>4. ASSUME NEW r \in requests, Answer(r) \/ AnswerFails(r)
      PROVE  CalmInv'
  BY <1>1, <1>4, LandCalm DEF CalmInv, Answer, AnswerFails
<1>5. CASE UNCHANGED vars
  BY <1>1, <1>5 DEF CalmInv, OnePerVisual, Current, SpinnersEnd, Awaited, vars, Key, FilterFor, Filter
<1> QED BY <1>2, <1>3, <1>4, <1>5 DEF Next, LaterStep

LEMMA InitCalm == Init => CalmInv
<1> SUFFICES ASSUME Init PROVE CalmInv
  OBVIOUS
<1>1. Current
  BY DEF Init, Current, NoTimer
<1> QED BY <1>1, InitTyped DEF Init, CalmInv, OnePerVisual, SpinnersEnd

\* When the acts of the user are as the effect counts on, whatever the timing
\* of the answers: once nothing is awaited, each visual shows what it is bound
\* to under its filters, or an error.
THEOREM CalmEditingSettles ==
    ASSUME {"undo", "cancel"} \cap Acts = {}
    PROVE  CalmSpec => []SettledIsCurrent
<1>1. CalmInv /\ [Next /\ Unhurried]_vars => CalmInv'
  BY CalmStep
<1>2. CalmInv => SettledIsCurrent
  BY DEF CalmInv, Current, SettledIsCurrent, NoTimer
<1> QED BY InitCalm, <1>1, <1>2, PTL DEF CalmSpec

\* And no spinner turns for a visual that awaits nothing.
THEOREM CalmSpinnersEnd ==
    ASSUME {"undo", "cancel"} \cap Acts = {}
    PROVE  CalmSpec => []SpinnersEnd
<1>1. CalmInv /\ [Next /\ Unhurried]_vars => CalmInv'
  BY CalmStep
<1>2. CalmInv => SpinnersEnd
  BY DEF CalmInv
<1> QED BY InitCalm, <1>1, <1>2, PTL DEF CalmSpec
=============================================================================
