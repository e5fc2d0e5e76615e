------------------------ MODULE ReportViewingProofs ------------------------
(* What is proved of ReportViewing: types and the selections synced pages  *)
(* share, whatever the reader does; filters, spinners and rows, under the  *)
(* acts the fetch effect can follow (SteadySpec).                          *)
EXTENDS ReportViewing, FiniteSetTheorems, SequenceTheorems, WellFoundedInduction, TLAPS

-----------------------------------------------------------------------------
(* The inductive invariants. *)

\* A filter is the click's or the slicer's.
Sourced(fs, sel, click) == \A d \in Dims : fs[d] = sel[d] \/ (click.dim = d /\ fs[d] = click.value)

\* So it is on screen, on the pages put aside, and in what a bookmark brings
\* back, which has no click.
FiltersHaveSources ==
    /\ Sourced(filters, slicers, highlight)
    /\ \A p \in Pages : aside[p].kept => Sourced(aside[p].filters, aside[p].slicers, aside[p].highlight)
    /\ bookmark.filters = bookmark.slicers

\* Nothing is asked without a model, no drill waits for one, and while the
\* report is read no page is put aside.
NothingWaits ==
    /\ drilling = None
    /\ ~model => requests = {}
    /\ loads # {} => \A p \in Pages : ~aside[p].kept
    /\ ~aside[page].kept

\* The visual's last question is one request, and its spinner is for it.
OneNewest == \A r, s \in requests : r.newest /\ s.newest /\ r.visual = s.visual => r = s

Spins(v, scr) == scr[v].loading => \E r \in requests : r.visual = v /\ r.newest
PageSpins == model => \A v \in On(page) : Spins(v, screen)

\* A screen that answers its filters: each visual shows, or awaits, what they
\* ask for.
Answers(v, scr, fs, click) ==
    /\ ~scr[v].loading => scr[v].rows \in {Key(v, scr[v].path, fs, click), Failed}
    /\ \A r \in requests : r.newest /\ r.visual = v => scr[v].loading

Awaits(v, scr, fs, click) ==
    \A r \in requests : r.newest /\ r.visual = v => r.key = Key(v, scr[v].path, fs, click)

\* No reload is under way.
Settled == model /\ loads \subseteq {0}

PageAnswers == Settled => \A v \in On(page) : Answers(v, screen, filters, highlight) /\ Awaits(v, screen, filters, highlight)

KeptAnswer ==
    model => \A p \in Pages : aside[p].kept =>
        \A v \in On(p) : Answers(v, aside[p].screen, aside[p].filters, aside[p].highlight)

Steady == NothingWaits /\ OneNewest /\ PageSpins /\ PageAnswers /\ KeptAnswer

-----------------------------------------------------------------------------
(* Data.  Induction is by the least counterexample. *)

\* A set of numbers has a least one; a bounded one, a greatest.
LEMMA Least ==
    ASSUME NEW T \in SUBSET Nat, T # {}
    PROVE  \E m \in T : \A n \in T : m <= n
<1>1. PICK R : IsWellFoundedOn(R, Nat) /\ \A i, j \in Nat : i < j => <<i, j>> \in R
  <2>1. \A i, j \in Nat : i < j => <<i, j>> \in OpToRel(<, Nat)
    BY Zenon DEF OpToRel
  <2>2. QED
    BY <2>1, NatLessThanWellFounded, Zenon
<1>2. T \subseteq Nat
  OBVIOUS
<1>3. IsWellFoundedOn(R, Nat)
  BY <1>1
<1>4. PICK m \in T : \A n \in T : ~ (<<n, m>> \in R)
  BY <1>2, <1>3, WFMin, ZenonT(30)
<1>5. \A i, j \in Nat : i < j => <<i, j>> \in R
  BY <1>1
<1>6. \A n \in T : ~ (n < m)
  BY <1>4, <1>5, Zenon
<1>7. QED
  BY <1>6

LEMMA Greatest ==
    ASSUME NEW b \in Nat, NEW T \in SUBSET (0..b), T # {}
    PROVE  \E m \in T : \A n \in T : n <= m
<1> DEFINE U == {b - n : n \in T}
<1>1. U \in SUBSET Nat /\ U # {}
  <2>1. \A n \in T : b - n \in Nat
    OBVIOUS
  <2>2. QED
    BY <2>1
<1>2. PICK u \in U : \A w \in U : u <= w
  BY <1>1, Least
<1>3. PICK m \in T : u = b - m
  OBVIOUS
<1>4. ASSUME NEW n \in T PROVE n <= m
  <2>1. b - n \in U
    OBVIOUS
  <2>2. QED
    BY <2>1, <1>2, <1>3
<1>5. QED
  BY <1>4

\* A function iterated from a value.
Iterates(S, f, x, n) == {g \in [0..n -> S] : g[0] = x /\ \A i \in 1..n : g[i] = f[g[i - 1]]}

LEMMA IteratesExist ==
    ASSUME NEW S, NEW f \in [S -> S], NEW x \in S, NEW n \in Nat
    PROVE  \E g : g \in Iterates(S, f, x, n)
<1> DEFINE T == {k \in Nat : Iterates(S, f, x, k) = {}}
<1>1. SUFFICES ASSUME T # {} PROVE FALSE
  OBVIOUS
<1>2. T \in SUBSET Nat
  OBVIOUS
<1>3. PICK k \in T : \A j \in T : k <= j
  BY <1>1, <1>2, Least
<1>4. k # 0
  <2>1. [i \in 0..0 |-> x] \in Iterates(S, f, x, 0)
    BY DEF Iterates
  <2>2. QED
    BY <2>1
<1>5. k - 1 \in Nat /\ k - 1 \notin T
  BY <1>3, <1>4
<1>6. PICK g : g \in Iterates(S, f, x, k - 1)
  BY <1>5
<1> DEFINE h == [i \in 0..k |-> IF i = k THEN f[g[k - 1]] ELSE g[i]]
<1>7. g \in [0..k - 1 -> S] /\ g[0] = x /\ \A i \in 1..k - 1 : g[i] = f[g[i - 1]]
  BY <1>6 DEF Iterates
<1>8. h \in [0..k -> S]
  BY <1>5, <1>7
<1>9. h[0] = x
  BY <1>4, <1>5, <1>7
<1>10. \A i \in 1..k : h[i] = f[h[i - 1]]
  BY <1>5, <1>7
<1>11. h \in Iterates(S, f, x, k)
  BY <1>8, <1>9, <1>10 DEF Iterates
<1>12. QED
  BY <1>11

\* A page is in the group it is looked up by, and groups are of pages.
LEMMA GroupHoldsPage ==
    ASSUME NEW d \in Dims, NEW p \in Pages, Synced(d, p)
    PROVE  p \in Group(d, p) /\ Group(d, p) \subseteq Pages /\ <<d, Group(d, p)>> \in Groups
<1> DEFINE N == Cardinality(Pages)
           step == [S \in SUBSET Pages |-> Near(d, S)]
           Chains(c) == c = [n \in 0..N |-> IF n = 0 THEN {p} ELSE Near(d, c[n - 1])]
           chain == CHOOSE c : Chains(c)
<1>1. N \in Nat
  BY ViewingAssumption, FS_CardinalityType
<1>2. step \in [SUBSET Pages -> SUBSET Pages]
  BY DEF Near
<1>3. PICK g : g \in Iterates(SUBSET Pages, step, {p}, N)
  BY <1>1, <1>2, IteratesExist
<1>4. Chains(g)
  <2>1. g \in [0..N -> SUBSET Pages] /\ g[0] = {p} /\ \A i \in 1..N : g[i] = step[g[i - 1]]
    BY <1>3 DEF Iterates
  <2>2. ASSUME NEW i \in 0..N, i # 0 PROVE g[i] = Near(d, g[i - 1])
    <3>1. i \in 1..N /\ i - 1 \in 0..N
      BY <2>2, <1>1
    <3>2. g[i] = step[g[i - 1]] /\ g[i - 1] \in SUBSET Pages
      BY <2>1, <3>1
    <3>3. QED
      BY <3>2
  <2>3. g = [n \in 0..N |-> IF n = 0 THEN {p} ELSE Near(d, g[n - 1])]
    BY <2>1, <2>2
  <2>4. QED
    BY <2>3
<1>5. Chains(chain)
  BY <1>4
<1>6. \A n \in 0..N : chain[n] = IF n = 0 THEN {p} ELSE Near(d, chain[n - 1])
  BY <1>5
<1> DEFINE T == {n \in 0..N : ~ (p \in chain[n] /\ chain[n] \subseteq Pages)}
<1> HIDE DEF chain
<1>7. T = {}
  <2>1. SUFFICES ASSUME T # {} PROVE FALSE
    OBVIOUS
  <2>7. T \in SUBSET Nat
    BY <1>1
  <2>2. PICK m \in T : \A n \in T : m <= n
    BY <2>1, <2>7, Least
  <2>3. m # 0
    BY <1>6
  <2>4. m - 1 \in 0..N /\ m - 1 \notin T
    BY <1>1, <2>2, <2>3
  <2>5. chain[m] = Near(d, chain[m - 1])
    BY <1>6, <2>3
  <2>6. QED
    BY <2>4, <2>5 DEF Near
<1>8. p \in chain[N] /\ chain[N] \subseteq Pages
  BY <1>1, <1>7
<1>9. Group(d, p) = IF chain[N] = {p} THEN {} ELSE chain[N]
  BY DEF Group, chain
<1>10. QED
  BY <1>8, <1>9 DEF Groups, Synced

\* A path counts up to a level the visual has.
LEMMA DepthFits ==
    ASSUME NEW v \in Visuals, NEW path \in Paths
    PROVE  Depth(v, path) \in 0..Len(path) /\ Depth(v, path) < Len(Levels[v])
<1> DEFINE follows(n) == n < Len(Levels[v]) /\ \A i \in 1..n : path[i].dim = Levels[v][i]
           T == {n \in 0..Len(path) : follows(n)}
<1>1. Len(path) \in Nat /\ Len(Levels[v]) \in Nat \ {0}
  BY ViewingAssumption DEF Paths
<1>2. 0 \in T
  BY <1>1
<1>3. PICK m \in T : \A n \in T : n <= m
  <2>1. T \in SUBSET (0..Len(path)) /\ T # {}
    BY <1>2
  <2>2. QED
    BY <1>1, <2>1, Greatest
<1>4. \E n \in 0..Len(path) : follows(n) /\ \A k \in 0..Len(path) : follows(k) => k <= n
  BY <1>3
<1>5. Depth(v, path) \in 0..Len(path) /\ follows(Depth(v, path))
  BY <1>4 DEF Depth
<1>6. QED
  BY <1>5

LEMMA PathType ==
    ASSUME NEW path \in Paths
    PROVE  \A i \in 1..Len(path) : path[i] \in [dim : Dims, value : Values]
BY ElementOfSeq DEF Paths

LEMMA PathBack ==
    ASSUME NEW path \in Paths
    PROVE  SubSeq(path, 1, Len(path) - 1) \in Paths /\ <<>> \in Paths
<1>1. Len(path) \in Nat
  BY DEF Paths
<1>2. \A i \in 1..Len(path) - 1 : path[i] \in [dim : Dims, value : Values]
  BY <1>1, PathType
<1>3. SubSeq(path, 1, Len(path) - 1) \in Seq([dim : Dims, value : Values])
  BY <1>1, <1>2, SubSeqProperties
<1>4. QED
  BY <1>3 DEF Paths

LEMMA FilteredType ==
    ASSUME NEW v, NEW d \in Dims, NEW fs \in Selections, NEW click
    PROVE  Filtered(v, d, fs, click) \in Values \cup {None}
BY DEF Filtered, Selections

\* What a visual is asked for is a level of its own, and a selection.
LEMMA KeyType ==
    ASSUME NEW v \in Visuals, NEW path \in Paths, NEW fs \in Selections, NEW click
    PROVE  Key(v, path, fs, click) \in Keys(v)
<1> DEFINE n == Depth(v, path)
           by(d) == {i \in 1..n : path[i].dim = d}
           last(d) == CHOOSE i \in 1..n : path[i].dim = d /\ \A k \in i + 1..n : path[k].dim # d
           value(d) == IF \E i \in 1..n : path[i].dim = d THEN path[last(d)].value ELSE Filtered(v, d, fs, click)
<1>1. n \in Nat /\ Len(path) \in Nat /\ n <= Len(path) /\ n + 1 \in 1..Len(Levels[v])
  <2>1. Len(path) \in Nat /\ Len(Levels[v]) \in Nat
    BY ViewingAssumption DEF Paths
  <2>2. QED
    BY <2>1, DepthFits
<1>2. ASSUME NEW d \in Dims PROVE value(d) \in Values \cup {None}
  <2>1. CASE by(d) = {}
    BY <2>1, FilteredType
  <2>2. CASE by(d) # {}
    <3>1. by(d) \in SUBSET (0..n)
      BY <1>1
    <3>2. PICK m \in by(d) : \A i \in by(d) : i <= m
      BY <1>1, <2>2, <3>1, Greatest
    <3>3. ASSUME NEW k \in m + 1..n, path[k].dim = d PROVE FALSE
      <4>1. k \in by(d) /\ k > m
        BY <1>1, <3>1, <3>2, <3>3
      <4>2. QED
        BY <1>1, <3>1, <3>2, <4>1
    <3>4. last(d) \in 1..n
      <4>1. m \in 1..n /\ path[m].dim = d /\ \A k \in m + 1..n : path[k].dim # d
        BY <3>3
      <4>2. QED
        BY <4>1
    <3>5. path[last(d)].value \in Values
      <4>1. \A i \in 1..n : path[i] \in [dim : Dims, value : Values]
        <5>1. \A i \in 1..Len(path) : path[i] \in [dim : Dims, value : Values]
          BY PathType
        <5>2. \A i \in 1..n : i \in 1..Len(path)
          BY <1>1
        <5>3. QED
          BY <5>1, <5>2
      <4>2. QED
        BY <3>4, <4>1
    <3>6. QED
      BY <2>2, <3>5
  <2>3. QED
    BY <2>1, <2>2
<1>3. [d \in Dims |-> value(d)] \in Selections
  BY <1>2 DEF Selections
<1>4. QED
  BY <1>1, <1>3 DEF Key, Keys

LEMMA NoneTypes == NoSelection \in Selections /\ NoClick \in Clicks
BY DEF NoSelection, Selections, Clicks

LEMMA StageType == ASSUME NEW p PROVE IsScreen(Stage(p))
<1>1. ASSUME NEW v \in Visuals PROVE Stage(p)[v] \in Shows(v)
  <2>1. <<>> \in Paths /\ Stored[v] \in {NoRows, Snapshot}
    BY ViewingAssumption DEF Paths
  <2>2. Stage(p)[v] = [rows |-> IF v \in On(p) THEN Stored[v] ELSE NoRows, loading |-> FALSE, path |-> <<>>]
    BY DEF Stage, Blank
  <2>3. QED
    BY <2>1, <2>2 DEF Shows
<1>2. QED
  BY <1>1 DEF IsScreen, Stage

-----------------------------------------------------------------------------
(* The fetch effect keeps the types of what it touches. *)

Fetched == IsScreen(screen) /\ (\A r \in requests : IsRequest(r)) /\ drilling \in Visuals \cup {None}

LEMMA AskType ==
    ASSUME Fetched, NEW scr, IsScreen(scr), filters' \in Selections, NEW asked \in SUBSET Visuals, Ask(asked, scr)
    PROVE  IsScreen(screen') /\ \A r \in requests' : IsRequest(r)
<1>1. IsScreen(screen')
  <2>1. ASSUME NEW v \in Visuals PROVE screen'[v] \in Shows(v)
    <3>1. scr[v] \in Shows(v)
      BY DEF IsScreen
    <3>2. screen'[v] = IF v \in asked THEN [scr[v] EXCEPT !.loading = TRUE] ELSE scr[v]
      BY DEF Ask
    <3>3. QED
      BY <3>1, <3>2 DEF Shows
  <2>2. QED
    BY <2>1 DEF Ask, IsScreen
<1>2. ASSUME NEW r \in requests' PROVE IsRequest(r)
  <2>1. CASE \E q \in requests : r = IF q.visual \in asked THEN [q EXCEPT !.newest = FALSE] ELSE q
    <3>1. PICK q \in requests : r = IF q.visual \in asked THEN [q EXCEPT !.newest = FALSE] ELSE q
      BY <2>1
    <3>2. q.visual \in Visuals /\ q \in [visual : {q.visual}, key : Keys(q.visual), newest : BOOLEAN]
      BY DEF Fetched, IsRequest
    <3>3. QED
      BY <3>1, <3>2 DEF IsRequest
  <2>2. CASE \E v \in asked : r = [visual |-> v, key |-> Key(v, scr[v].path, filters', highlight'), newest |-> TRUE]
    <3>1. PICK v \in asked : r = [visual |-> v, key |-> Key(v, scr[v].path, filters', highlight'), newest |-> TRUE]
      BY <2>2
    <3>2. scr[v].path \in Paths
      BY DEF IsScreen, Shows
    <3>3. Key(v, scr[v].path, filters', highlight') \in Keys(v)
      BY <3>2, KeyType
    <3>4. QED
      BY <3>1, <3>3 DEF IsRequest
  <2>3. QED
    BY <2>1, <2>2 DEF Ask
<1>3. QED
  BY <1>1, <1>2

LEMMA RefetchType ==
    ASSUME Fetched, NEW scr, IsScreen(scr), filters' \in Selections,
           NEW drilled \in Visuals \cup {None}, Refetch(scr, drilled)
    PROVE  Fetched'
<1>1. CASE model'
  BY <1>1, AskType DEF Refetch, Fetched, On
<1>2. CASE ~model'
  BY <1>2 DEF Refetch, Fetched, IsRequest
<1>3. QED
  BY <1>1, <1>2

LEMMA FetchIfChangedType ==
    ASSUME Fetched, NEW scr, IsScreen(scr), filters' \in Selections, NEW source, FetchIfChanged(scr, source)
    PROVE  Fetched'
<1>1. CASE model /\ (filters' # filters \/ source # None)
  BY <1>1, AskType DEF FetchIfChanged, Fetched, On
<1>2. CASE ~(model /\ (filters' # filters \/ source # None))
  BY <1>2 DEF FetchIfChanged, Fetched, IsRequest
<1>3. QED
  BY <1>1, <1>2

-----------------------------------------------------------------------------
(* What pages share. *)

LEMMA SharedWithType ==
    ASSUME shared \in [Groups -> Values \cup {None}], NEW p, NEW ds, NEW sel \in Selections
    PROVE  SharedWith(p, ds, sel) \in [Groups -> Values \cup {None}]
<1>1. \A g \in Groups : g[1] \in Dims
  BY DEF Groups
<1>2. QED
  BY <1>1 DEF SharedWith, Selections

LEMMA SyncedFiltersType ==
    ASSUME shared \in [Groups -> Values \cup {None}], NEW p \in Pages, NEW sel \in Selections
    PROVE  SyncedFilters(sel, p) \in Selections
<1>1. \A d \in Dims : Synced(d, p) => <<d, Group(d, p)>> \in Groups
  BY GroupHoldsPage
<1>2. QED
  BY <1>1 DEF SyncedFilters, Selections

LEMMA InitialType ==
    ASSUME shared \in [Groups -> Values \cup {None}], NEW p \in Pages
    PROVE  Initial(p) \in Selections
BY SyncedFiltersType, ViewingAssumption DEF Initial

LEMMA FirstPageType == FirstPage \in Pages
BY Least, ViewingAssumption DEF FirstPage

LEMMA SeededType == Seeded(FirstPage) \in [Groups -> Values \cup {None}]
<1> DEFINE chosen(g) == {q \in g[2] : Saved[q][g[1]] # None}
           first(g) == CHOOSE q \in chosen(g) : \A r \in chosen(g) : q <= r
<1>1. ASSUME NEW g \in Groups PROVE g[1] \in Dims /\ g[2] \subseteq Pages
  <2>1. PICK d \in Dims, p \in Pages : g = <<d, Group(d, p)>> /\ Group(d, p) # {}
    BY DEF Groups
  <2>2. QED
    BY <2>1, GroupHoldsPage DEF Synced
<1>2. ASSUME NEW g \in Groups, chosen(g) # {} PROVE first(g) \in Pages
  <2>1. chosen(g) \in SUBSET Nat
    BY <1>1, ViewingAssumption
  <2>2. \E q \in chosen(g) : \A r \in chosen(g) : q <= r
    BY <1>2, <2>1, Least
  <2>3. QED
    BY <1>1, <2>2
<1>3. \A q \in Pages, d \in Dims : Saved[q][d] \in Values \cup {None}
  BY ViewingAssumption DEF Selections
<1>4. QED
  BY <1>1, <1>2, <1>3, FirstPageType DEF Seeded

-----------------------------------------------------------------------------
(* Types. *)

LEMMA TypeInit == Init => TypeOK
<1> SUFFICES ASSUME Init PROVE TypeOK
  OBVIOUS
<1>1. page \in Pages
  BY FirstPageType DEF Init
<1>2. shared \in [Groups -> Values \cup {None}]
  BY SeededType DEF Init
<1>3. Initial(FirstPage) \in Selections
  BY <1>2, FirstPageType, InitialType
<1>4. IsScreen(screen)
  BY StageType DEF Init
<1>5. \A p \in Pages : aside[p] = NotKept
  BY DEF Init
<1>6. aside = [p \in Pages |-> aside[p]]
  BY DEF Init
<1>7. filters \in Selections /\ slicers \in Selections
  BY <1>3 DEF Init
<1>8. \A p \in Pages : aside[p].kept \in BOOLEAN /\ (aside[p].kept => IsKept(aside[p]))
  <2>1. \A p \in Pages : aside[p].kept = FALSE
    BY <1>5 DEF NotKept
  <2>2. QED
    BY <2>1
<1>9. bookmark \in [page : Pages \cup {None}, filters : Selections, slicers : Selections]
  BY NoneTypes DEF Init
<1>10. loads \subseteq 0..MaxActs /\ model \in BOOLEAN /\ acts \in 0..MaxActs
  <2>1. MaxActs \in Nat
    BY ViewingAssumption
  <2>2. loads = {0} /\ model = FALSE /\ acts = 0
    BY DEF Init
  <2>3. 0 \in 0..MaxActs
    BY <2>1
  <2>4. QED
    BY <2>2, <2>3, Zenon
<1>11. highlight \in Clicks /\ drilling \in Visuals \cup {None} /\ \A r \in requests : IsRequest(r)
  BY NoneTypes DEF Init
<1>12. QED
  BY <1>1, <1>2, <1>4, <1>6, <1>7, <1>8, <1>9, <1>10, <1>11 DEF TypeOK

LEMMA ActType == ASSUME acts \in 0..MaxActs, NEW name, Act(name) PROVE acts' \in 1..MaxActs
BY ViewingAssumption DEF Act

\* The click names a dimension of the visual's rows.
LEMMA ShownDimType == ASSUME IsScreen(screen), NEW v \in Visuals, HasRows(v) PROVE ShownDim(v) \in Dims
<1>1. Levels[v] \in Seq(Dims) /\ Len(Levels[v]) \in Nat \ {0}
  BY ViewingAssumption
<1>2. screen[v].rows \in Keys(v) \cup {Snapshot}
  BY DEF HasRows, IsScreen, Shows
<1>3. (IF screen[v].rows = Snapshot THEN 1 ELSE screen[v].rows.level) \in 1..Len(Levels[v])
  BY <1>1, <1>2 DEF Keys
<1>4. QED
  BY <1>1, <1>3, ElementOfSeq DEF ShownDim

LEMMA RestoredType ==
    ASSUME filters \in Selections, slicers \in Selections, NEW d PROVE Restored(d) \in Selections
BY DEF Restored, Selections

LEMMA WithoutClickType ==
    ASSUME filters \in Selections, slicers \in Selections PROVE WithoutClick \in Selections
BY RestoredType DEF WithoutClick

LEMMA DrillType ==
    ASSUME TypeOK, NEW v \in Visuals, NEW path \in Paths, Drill(v, path)
    PROVE  Fetched' /\ filters' \in Selections /\ highlight' \in Clicks
<1>1. filters' \in Selections /\ highlight' \in Clicks
  BY NoneTypes, WithoutClickType DEF Drill, TypeOK
<1>2. IsScreen([screen EXCEPT ![v].path = path, ![v].loading = TRUE])
  <2> DEFINE scr == [screen EXCEPT ![v].path = path, ![v].loading = TRUE]
  <2>1. \A u \in Visuals : screen[u] \in Shows(u)
    BY DEF TypeOK, IsScreen
  <2>2. scr = [u \in Visuals |-> IF u = v THEN [screen[v] EXCEPT !.path = path, !.loading = TRUE] ELSE screen[u]]
    BY DEF TypeOK, IsScreen
  <2>3. [screen[v] EXCEPT !.path = path, !.loading = TRUE] \in Shows(v)
    BY <2>1 DEF Shows
  <2> HIDE DEF scr
  <2>4. QED
    BY <2>1, <2>2, <2>3 DEF IsScreen, scr
<1>3. QED
  BY <1>1, <1>2, RefetchType DEF Drill, TypeOK, Fetched

LEMMA LeftType ==
    ASSUME TypeOK, NEW p \in Pages
    PROVE  /\ Left(p) = [q \in Pages |-> Left(p)[q]]
           /\ \A q \in Pages : Left(p)[q].kept \in BOOLEAN /\ (Left(p)[q].kept => IsKept(Left(p)[q]))
<1>1. ASSUME NEW q \in Pages PROVE Left(p)[q].kept \in BOOLEAN /\ (Left(p)[q].kept => IsKept(Left(p)[q]))
  <2>1. CASE q = page
    BY <2>1 DEF Left, Kept, IsKept, TypeOK
  <2>2. CASE q # page /\ q = p
    BY <2>2 DEF Left, NotKept
  <2>3. CASE q # page /\ q # p
    BY <2>3 DEF Left, TypeOK
  <2>4. QED
    BY <2>1, <2>2, <2>3
<1>2. QED
  BY <1>1 DEF Left

LEMMA TypeStep == TypeOK /\ [Next]_vars => TypeOK'
<1> SUFFICES ASSUME TypeOK, [Next]_vars PROVE TypeOK'
  OBVIOUS
<1>0. Fetched
  BY DEF TypeOK, Fetched
<1>1. ASSUME NEW d \in Dims, NEW x \in Values \cup {None}, Pick(d, x) PROVE TypeOK'
  <2>1. slicers' \in Selections /\ [NoSelection EXCEPT ![d] = x] \in Selections
    BY <1>1 DEF Pick, TypeOK, Selections, NoSelection
  <2>2. filters' \in Selections
    BY <1>1 DEF Pick, TypeOK, Selections, Clicks, NoClick
  <2>3. shared' \in [Groups -> Values \cup {None}]
    BY <1>1, <2>1, SharedWithType DEF Pick, PickForGroup, TypeOK
  <2>4. Fetched'
    BY <1>0, <1>1, <2>2, FetchIfChangedType DEF Pick, TypeOK
  <2>5. acts' \in 0..MaxActs
    BY <1>1, ActType DEF Pick, TypeOK
  <2>6. QED
    BY <1>1, <2>1, <2>2, <2>3, <2>4, <2>5 DEF Pick, TypeOK, Fetched
<1>2. ASSUME NEW v \in Visuals, NEW x \in Values, DrillDown(v, x) PROVE TypeOK'
  <2>1. Append(screen[v].path, [dim |-> ShownDim(v), value |-> x]) \in Paths
    BY <1>2, ShownDimType, AppendProperties DEF DrillDown, TypeOK, IsScreen, Shows, Paths
  <2>2. Fetched' /\ filters' \in Selections /\ highlight' \in Clicks
    BY <1>2, <2>1, DrillType DEF DrillDown
  <2>3. acts' \in 0..MaxActs
    BY <1>2, ActType DEF DrillDown, TypeOK
  <2>4. QED
    BY <1>2, <2>2, <2>3 DEF DrillDown, Drill, TypeOK, Fetched
<1>3. ASSUME NEW v \in Visuals, NEW path \in Paths, DrillBack(v, path) PROVE TypeOK'
  <2>1. Fetched' /\ filters' \in Selections /\ highlight' \in Clicks
    BY <1>3, DrillType DEF DrillBack
  <2>2. acts' \in 0..MaxActs
    BY <1>3, ActType DEF DrillBack, TypeOK
  <2>3. QED
    BY <1>3, <2>1, <2>2 DEF DrillBack, Drill, TypeOK, Fetched
<1>4. ASSUME NEW v \in Visuals, DrillUp(v) \/ DrillReset(v) PROVE TypeOK'
  <2>1. screen[v].path \in Paths
    BY DEF TypeOK, IsScreen, Shows
  <2>2. SubSeq(screen[v].path, 1, Len(screen[v].path) - 1) \in Paths /\ <<>> \in Paths
    BY <2>1, PathBack
  <2>3. QED
    BY <1>3, <1>4, <2>2 DEF DrillUp, DrillReset
<1>5. ASSUME NEW v \in Visuals, NEW x \in Values, Click(v, x) PROVE TypeOK'
  <2>1. ShownDim(v) \in Dims
    BY <1>5, ShownDimType DEF Click, TypeOK
  <2>2. filters' \in Selections
    BY <1>5, <2>1, RestoredType, WithoutClickType DEF Click, Unclicked, TypeOK, Selections
  <2>3. highlight' \in Clicks
    BY <1>5, <2>1, NoneTypes DEF Click, Clicks
  <2>4. Fetched'
    BY <1>0, <1>5, <2>2, FetchIfChangedType DEF Click, TypeOK
  <2>5. acts' \in 0..MaxActs
    BY <1>5, ActType DEF Click, TypeOK
  <2>6. QED
    BY <1>5, <2>2, <2>3, <2>4, <2>5 DEF Click, TypeOK, Fetched
<1>6. CASE Refresh
  <2>1. filters' \in Selections
    BY <1>6 DEF Refresh, reader, TypeOK
  <2>2. Fetched'
    BY <1>0, <1>6, <2>1, RefetchType DEF Refresh, Fetched
  <2>3. acts' \in 0..MaxActs
    BY <1>6, ActType DEF Refresh, TypeOK
  <2>4. QED
    BY <1>6, <2>1, <2>2, <2>3 DEF Refresh, reader, TypeOK, Fetched
<1>7. ASSUME NEW p \in Pages, Turn(p) PROVE TypeOK'
  <2>1. NoSelection \in Selections /\ NoClick \in Clicks
    BY NoneTypes
  <2>2. Fetched' /\ filters' \in Selections /\ slicers' \in Selections /\ highlight' \in Clicks
    <3>1. CASE Visit(p)
      <4>1. filters' \in Selections /\ slicers' \in Selections
        BY <2>1, <3>1, SyncedFiltersType DEF Visit, TypeOK
      <4>2. Fetched'
        BY <1>0, <3>1, <4>1, StageType, RefetchType DEF Visit, Fetched
      <4>3. QED
        BY <2>1, <3>1, <4>1, <4>2 DEF Visit
    <3>2. CASE aside[p].kept /\ Revisit(p)
      <4>1. IsKept(aside[p])
        BY <3>2 DEF TypeOK
      <4>2. QED
        BY <1>0, <3>2, <4>1 DEF Revisit, IsKept, Fetched, IsRequest
    <3>3. CASE aside[p].kept /\ RevisitSynced(p)
      <4>1. IsKept(aside[p])
        BY <3>3 DEF TypeOK
      <4>2. (IF aside[p].highlight = NoClick THEN aside[p].filters
             ELSE [aside[p].filters EXCEPT ![aside[p].highlight.dim] = aside[p].slicers[aside[p].highlight.dim]])
            \in Selections
        BY <4>1 DEF IsKept, Selections, Clicks
      <4>3. filters' \in Selections /\ slicers' \in Selections
        BY <3>3, <4>1, <4>2, SyncedFiltersType DEF RevisitSynced, IsKept, TypeOK
      <4>4. Fetched'
        BY <1>0, <3>3, <4>1, <4>3, RefetchType DEF RevisitSynced, IsKept, Fetched
      <4>5. QED
        BY <2>1, <3>3, <4>3, <4>4 DEF RevisitSynced
    <3>4. QED
      BY <1>7, <3>1, <3>2, <3>3 DEF Turn, Restorable
  <2>3. aside' = [q \in Pages |-> aside'[q]]
        /\ \A q \in Pages : aside'[q].kept \in BOOLEAN /\ (aside'[q].kept => IsKept(aside'[q]))
    BY <1>7, LeftType DEF Turn
  <2>4. acts' \in 0..MaxActs
    BY <1>7, ActType DEF Turn, TypeOK
  <2>5. QED
    BY <1>7, <2>2, <2>3, <2>4 DEF Turn, TypeOK, Fetched
<1>8. CASE SaveBookmark
  <2>1. bookmark' \in [page : Pages \cup {None}, filters : Selections, slicers : Selections]
    BY <1>8 DEF SaveBookmark, TypeOK
  <2>2. acts' \in 0..MaxActs
    BY <1>8, ActType DEF SaveBookmark, TypeOK
  <2>3. QED
    BY <1>8, <2>1, <2>2 DEF SaveBookmark, reader, TypeOK, IsRequest
<1>9. CASE ApplyBookmark
  <2>1. bookmark.page \in Pages /\ bookmark.filters \in Selections /\ bookmark.slicers \in Selections
    BY <1>9 DEF ApplyBookmark, TypeOK
  <2>2. shared' \in [Groups -> Values \cup {None}]
    BY <1>9, <2>1, SharedWithType DEF ApplyBookmark, LandsOn, TypeOK
  <2>3. Fetched'
    BY <1>0, <1>9, <2>1, StageType, RefetchType DEF ApplyBookmark, Fetched
  <2>4. aside' = [q \in Pages |-> aside'[q]]
        /\ \A q \in Pages : aside'[q].kept \in BOOLEAN /\ (aside'[q].kept => IsKept(aside'[q]))
    BY <1>9, <2>1, LeftType DEF ApplyBookmark, TypeOK
  <2>5. acts' \in 0..MaxActs
    BY <1>9, ActType DEF ApplyBookmark, TypeOK
  <2>6. QED
    BY <1>9, <2>1, <2>2, <2>3, <2>4, <2>5, NoneTypes DEF ApplyBookmark, TypeOK, Fetched
<1>10. CASE Reload
  <2>1. Initial(page) \in Selections
    BY InitialType DEF TypeOK
  <2>2. filters' \in Selections /\ slicers' \in Selections
    BY <1>10, <2>1 DEF Reload, TypeOK, Selections
  <2>3. Fetched'
    BY <1>0, <1>10, <2>2, StageType, FetchIfChangedType DEF Reload
  <2>4. aside' = [q \in Pages |-> aside'[q]] /\ \A q \in Pages : ~aside'[q].kept /\ aside'[q].kept \in BOOLEAN
    BY <1>10 DEF Reload, NotKept
  <2>5. acts' \in 0..MaxActs /\ loads' \subseteq 0..MaxActs
    BY <1>10, ActType DEF Reload, TypeOK
  <2>6. QED
    BY <1>10, <2>2, <2>3, <2>4, <2>5 DEF Reload, TypeOK, Fetched
<1>11. ASSUME NEW n \in loads, ModelArrives(n) \/ ModelFails(n) PROVE TypeOK'
  <2>1. ModelRead(n) /\ model' \in BOOLEAN
    BY <1>11 DEF ModelArrives, ModelFails, TypeOK
  <2>2. filters' \in Selections
    BY <2>1 DEF ModelRead, reader, TypeOK
  <2>3. IsScreen(Cleared)
    BY DEF TypeOK, IsScreen, Cleared, Shows
  <2>4. Fetched'
    <3>1. CASE n > 0 \/ model' # model
      BY <1>0, <2>1, <2>2, <2>3, <3>1, RefetchType DEF ModelRead, Fetched
    <3>2. CASE ~(n > 0 \/ model' # model)
      BY <1>0, <2>1, <3>2 DEF ModelRead, Fetched, IsRequest
    <3>3. QED
      BY <3>1, <3>2
  <2>5. QED
    BY <2>1, <2>2, <2>4 DEF ModelRead, reader, TypeOK, Fetched
<1>12. ASSUME NEW r \in requests, Answer(r) \/ AnswerFails(r) PROVE TypeOK'
  <2>1. PICK rows \in {r.key, Failed} : Arrives(r, rows)
    BY <1>12 DEF Answer, AnswerFails
  <2>2. r.visual \in Visuals /\ r.key \in Keys(r.visual)
    BY DEF TypeOK, IsRequest
  <2>3. IsScreen(screen')
    BY <2>1, <2>2 DEF Arrives, TypeOK, IsScreen, Shows
  <2>4. QED
    BY <2>1, <2>3 DEF Arrives, reader, TypeOK, IsRequest
<1>13. CASE UNCHANGED vars
  BY <1>13 DEF vars, reader, TypeOK, IsRequest
<1>14. QED
  BY <1>1, <1>2, <1>4, <1>5, <1>6, <1>7, <1>8, <1>9, <1>10, <1>11, <1>12, <1>13 DEF Next, Arrivals

\* Every variable has its type: a path leads down levels that its visual has,
\* rows and requests are of such a level, and the pages put aside are whole.
THEOREM TypeCorrect == Spec => []TypeOK
<1>1. Init => TypeOK
  BY TypeInit
<1>2. TypeOK /\ [Next]_vars => TypeOK'
  BY TypeStep
<1>3. QED
  BY <1>1, <1>2, PTL DEF Spec

-----------------------------------------------------------------------------
(* Synced pages. *)

\* A selection shared from a page is the page's group's.
LEMMA SharedFrom ==
    ASSUME NEW p \in Pages, NEW ds, NEW sel, NEW d \in Dims, Synced(d, p)
    PROVE  SharedWith(p, ds, sel)[<<d, Group(d, p)>>] = IF d \in ds THEN sel[d] ELSE shared[<<d, Group(d, p)>>]
BY GroupHoldsPage DEF SharedWith

LEMMA SyncedFiltersAgree ==
    ASSUME NEW p \in Pages, NEW own, NEW d \in Dims, Synced(d, p)
    PROVE  SyncedFilters(own, p)[d] = shared[<<d, Group(d, p)>>]
BY DEF SyncedFilters

LEMMA SyncedInit == Init => SyncedPagesAgree
<1> SUFFICES ASSUME Init, NEW d \in Dims, Synced(d, page) PROVE slicers[d] = shared[<<d, Group(d, page)>>]
  BY DEF SyncedPagesAgree
<1>1. QED
  BY FirstPageType, SyncedFiltersAgree DEF Init, Initial

LEMMA SyncedStep == TypeOK /\ SyncedPagesAgree /\ [Next]_vars => SyncedPagesAgree'
<1> SUFFICES ASSUME TypeOK, SyncedPagesAgree, [Next]_vars, NEW d \in Dims, Synced(d, page')
             PROVE  slicers'[d] = shared'[<<d, Group(d, page')>>]
  BY DEF SyncedPagesAgree, Synced, Group, Near
<1>0. page \in Pages /\ (page' = page => slicers[d] = shared[<<d, Group(d, page)>>])
  BY DEF TypeOK, SyncedPagesAgree
<1>1. CASE page' = page /\ slicers' = slicers /\ shared' = shared
  BY <1>0, <1>1
<1>2. ASSUME NEW e \in Dims, NEW x \in Values \cup {None}, Pick(e, x) PROVE slicers'[d] = shared'[<<d, Group(d, page')>>]
  <2>1. page' = page /\ slicers' = [slicers EXCEPT ![e] = x] /\ shared' = SharedWith(page, {e}, [NoSelection EXCEPT ![e] = x])
    BY <1>2 DEF Pick, PickForGroup
  <2>2. slicers \in [Dims -> Values \cup {None}]
    BY DEF TypeOK, Selections
  <2>3. [NoSelection EXCEPT ![e] = x][e] = x
    BY DEF NoSelection
  <2>4. shared'[<<d, Group(d, page)>>] = IF d = e THEN x ELSE shared[<<d, Group(d, page)>>]
    <3> DEFINE sel == [NoSelection EXCEPT ![e] = x]
    <3> HIDE DEF sel
    <3>1. shared' = SharedWith(page, {e}, sel) /\ sel[e] = x /\ Synced(d, page)
      BY <2>1, <2>3 DEF sel
    <3>2. shared'[<<d, Group(d, page)>>] = IF d \in {e} THEN sel[d] ELSE shared[<<d, Group(d, page)>>]
      BY <1>0, <3>1, SharedFrom
    <3>3. QED
      BY <3>1, <3>2
  <2>5. QED
    BY <1>0, <2>1, <2>2, <2>4
<1>3. ASSUME NEW p \in Pages, Turn(p) PROVE slicers'[d] = shared'[<<d, Group(d, page')>>]
  <2>1. page' = p /\ shared' = shared
    BY <1>3 DEF Turn
  <2>2. \E own : slicers' = SyncedFilters(own, p)
    <3>1. CASE Visit(p)
      BY <3>1 DEF Visit
    <3>2. CASE RevisitSynced(p)
      BY <3>2 DEF RevisitSynced
    <3>3. CASE SyncedFilters(aside[p].slicers, p) = aside[p].slicers /\ Revisit(p)
      BY <3>3 DEF Revisit
    <3>4. QED
      BY <1>3, <3>1, <3>2, <3>3 DEF Turn
  <2>3. QED
    BY <2>1, <2>2, SyncedFiltersAgree
<1>4. CASE ApplyBookmark
  <2>1. bookmark.page \in Pages
    BY <1>4 DEF ApplyBookmark, TypeOK
  <2>2. page' = bookmark.page /\ slicers' = bookmark.slicers /\ shared' = SharedWith(bookmark.page, Dims, bookmark.slicers)
    BY <1>4 DEF ApplyBookmark, LandsOn
  <2>3. QED
    BY <2>1, <2>2, SharedFrom
<1>5. CASE Reload
  <2>1. page' = page /\ shared' = shared
    BY <1>5 DEF Reload
  <2>2. Initial(page)[d] = shared[<<d, Group(d, page)>>]
    BY <1>0, <2>1, SyncedFiltersAgree DEF Initial
  <2>3. slicers' = IF Initial(page) = NoSelection THEN slicers ELSE Initial(page)
    BY <1>5 DEF Reload
  <2>4. QED
    BY <1>0, <2>1, <2>2, <2>3
<1>6. ASSUME NEW v \in Visuals, NEW x \in Values, DrillDown(v, x) \/ Click(v, x)
      PROVE  page' = page /\ slicers' = slicers /\ shared' = shared
  BY <1>6 DEF DrillDown, Drill, Click
<1>7. ASSUME NEW v \in Visuals, DrillUp(v) \/ DrillReset(v)
      PROVE  page' = page /\ slicers' = slicers /\ shared' = shared
  BY <1>7 DEF DrillUp, DrillReset, DrillBack, Drill
<1>8. CASE SaveBookmark \/ Refresh \/ Arrivals \/ UNCHANGED vars
  BY <1>1, <1>8 DEF SaveBookmark, Refresh, Arrivals, ModelArrives, ModelFails, ModelRead, Answer, AnswerFails, Arrives, reader, vars
<1>9. QED
  BY <1>1, <1>2, <1>3, <1>4, <1>5, <1>6, <1>7, <1>8 DEF Next

\* The page on screen holds the last selection made on any page that is synced
\* with it, through turns, bookmarks and reloads.
THEOREM SyncedPagesShareTheirSelection == Spec => []SyncedPagesAgree
<1>1. Init => TypeOK /\ SyncedPagesAgree
  BY TypeInit, SyncedInit
<1>2. TypeOK /\ SyncedPagesAgree /\ [Next]_vars => (TypeOK /\ SyncedPagesAgree)'
  BY TypeStep, SyncedStep
<1>3. QED
  BY <1>1, <1>2, PTL DEF Spec

-----------------------------------------------------------------------------
(* Filters and what set them, under the steady acts. *)

LEMMA SteadyIsNext == [SteadyNext]_vars => [Next]_vars
BY DEF SteadyNext, Next

LEMMA SyncedFiltersSame ==
    ASSUME NEW p, NEW s, NEW t, \A d \in Dims : s[d] = t[d]
    PROVE  SyncedFilters(s, p) = SyncedFilters(t, p)
BY DEF SyncedFilters

\* A click taken back gives way to the slicer's selection.
LEMMA WithoutClickIsSourced ==
    ASSUME TypeOK, Sourced(filters, slicers, highlight)
    PROVE  \A d \in Dims : WithoutClick[d] = slicers[d]
BY ViewingAssumption DEF WithoutClick, Restored, Sourced, TypeOK, Selections, NoClick

LEMMA FiltersInit == Init => FiltersHaveSources
BY DEF Init, FiltersHaveSources, Sourced, NotKept

LEMMA FiltersStep == TypeOK /\ FiltersHaveSources /\ [SteadyNext]_vars => FiltersHaveSources'
<1> SUFFICES ASSUME TypeOK, FiltersHaveSources, [SteadyNext]_vars PROVE FiltersHaveSources'
  OBVIOUS
<1> DEFINE Kept1(k) == k.kept => Sourced(k.filters, k.slicers, k.highlight)
<1>0. /\ Sourced(filters, slicers, highlight) /\ bookmark.filters = bookmark.slicers
      /\ \A p \in Pages : Kept1(aside[p])
  BY DEF FiltersHaveSources
<1>1. ASSUME Sourced(filters', slicers', highlight'), UNCHANGED <<aside, bookmark>> PROVE FiltersHaveSources'
  BY <1>0, <1>1 DEF FiltersHaveSources
<1>2. ASSUME NEW p PROVE \A q \in Pages : Kept1(Left(p)[q])
  <2>1. Kept1(Kept)
    BY <1>0 DEF Kept
  <2>2. Kept1(NotKept)
    BY DEF NotKept
  <2>3. QED
    BY <1>0, <2>1, <2>2 DEF Left
<1>3. ASSUME UNCHANGED <<filters, slicers, highlight, aside, bookmark>> PROVE FiltersHaveSources'
  BY <1>0, <1>1, <1>3
<1>4. ASSUME NEW d \in Dims, NEW x \in Values \cup {None}, Pick(d, x) PROVE FiltersHaveSources'
  <2>1. /\ slicers' = [slicers EXCEPT ![d] = x] /\ UNCHANGED <<highlight, aside, bookmark>>
        /\ filters' = [filters EXCEPT ![d] = IF x = None /\ highlight.dim = d THEN highlight.value ELSE x]
    BY <1>4 DEF Pick
  <2>2. Sourced(filters', slicers', highlight')
    BY <1>0, <2>1 DEF Sourced, TypeOK, Selections
  <2>3. QED
    BY <1>1, <2>1, <2>2
<1>5. ASSUME NEW v \in Visuals, NEW x \in Values, DrillDown(v, x) /\ DrillsAlone(v) PROVE FiltersHaveSources'
  BY <1>3, <1>5 DEF DrillDown, Drill, DrillsAlone
<1>6. ASSUME NEW v \in Visuals, DrillUp(v) \/ DrillReset(v), DrillsAlone(v) PROVE FiltersHaveSources'
  BY <1>3, <1>6 DEF DrillUp, DrillReset, DrillBack, Drill, DrillsAlone
<1>7. ASSUME NEW v \in Visuals, NEW x \in Values, Click(v, x), KeepsItsFilters(v) PROVE FiltersHaveSources'
  <2> DEFINE d == ShownDim(v)
  <2>1. d \in Dims
    BY <1>7, ShownDimType DEF Click, TypeOK
  <2>2. UNCHANGED <<slicers, aside, bookmark>>
    BY <1>7 DEF Click
  <2>3. filters \in [Dims -> Values \cup {None}] /\ slicers \in [Dims -> Values \cup {None}]
    BY DEF TypeOK, Selections
  <2> HIDE DEF d
  <2>4. CASE highlight.visual = v /\ highlight.value = x /\ highlight' = NoClick /\ filters' = Restored(d)
    <3>1. highlight.dim \in Dims /\ highlight.value \in Values
      BY <2>4, ViewingAssumption DEF TypeOK, Clicks, NoClick
    <3>2. \A e \in Dims : filters'[e] = IF e = d THEN slicers[e] ELSE filters[e]
      BY <2>3, <2>4 DEF Restored
    <3>3. ASSUME NEW e \in Dims, highlight.dim = e PROVE filters'[e] = None
      <4>1. Filtered(v, e, filters, highlight) = None
        BY <2>4, <3>3 DEF Filtered
      <4>2. Filtered(v, e, filters', highlight') = filters'[e]
        BY <2>4, ViewingAssumption DEF Filtered, NoClick
      <4>3. QED
        BY <1>7, <4>1, <4>2 DEF KeepsItsFilters
    <3>4. ASSUME NEW e \in Dims PROVE filters'[e] = slicers[e]
      <4>1. CASE e = d
        BY <3>2, <4>1
      <4>2. CASE e # d /\ highlight.dim = e
        <5>1. filters[e] = None
          BY <3>2, <3>3, <4>2
        <5>2. filters[e] # highlight.value
          BY <3>1, <5>1, ViewingAssumption
        <5>3. QED
          BY <1>0, <3>2, <4>2, <5>2 DEF Sourced
      <4>3. CASE e # d /\ highlight.dim # e
        BY <1>0, <3>2, <4>3 DEF Sourced
      <4>4. QED
        BY <4>1, <4>2, <4>3
    <3>5. QED
      BY <1>1, <2>2, <3>4 DEF Sourced
  <2>5. CASE highlight' = [visual |-> v, dim |-> d, value |-> x] /\ filters' = [WithoutClick EXCEPT ![d] = x]
    <3>1. \A e \in Dims : WithoutClick[e] = slicers[e]
      BY <1>0, WithoutClickIsSourced
    <3>2. WithoutClick \in [Dims -> Values \cup {None}]
      BY WithoutClickType DEF TypeOK, Selections
    <3>3. \A e \in Dims : filters'[e] = IF e = d THEN x ELSE slicers[e]
      BY <2>5, <3>1, <3>2
    <3>4. Sourced(filters', slicers', highlight')
      BY <2>2, <2>5, <3>3 DEF Sourced
    <3>5. QED
      BY <1>1, <2>2, <3>4
  <2>6. QED
    BY <1>7, <2>4, <2>5 DEF Click, Unclicked, d
<1>8. ASSUME NEW p \in Pages, Turn(p) PROVE FiltersHaveSources'
  <2>1. aside' = Left(p) /\ bookmark' = bookmark
    BY <1>8 DEF Turn
  <2>2. Sourced(filters', slicers', highlight')
    <3>1. CASE Visit(p)
      BY <3>1 DEF Visit, Sourced
    <3>2. CASE aside[p].kept /\ Revisit(p)
      BY <1>0, <3>2 DEF Revisit
    <3>3. CASE aside[p].kept /\ RevisitSynced(p)
      <4> DEFINE was == aside[p]
                 own == IF was.highlight = NoClick THEN was.filters
                        ELSE [was.filters EXCEPT ![was.highlight.dim] = was.slicers[was.highlight.dim]]
      <4>1. Sourced(was.filters, was.slicers, was.highlight) /\ was.filters \in Selections
        BY <1>0, <3>3 DEF TypeOK, IsKept
      <4>2. \A e \in Dims : own[e] = was.slicers[e]
        BY <4>1, ViewingAssumption DEF Sourced, NoClick, Selections
      <4>3. filters' = SyncedFilters(own, p) /\ slicers' = SyncedFilters(was.slicers, p)
        BY <3>3 DEF RevisitSynced
      <4>4. filters' = slicers'
        BY <4>2, <4>3, SyncedFiltersSame
      <4>5. QED
        BY <4>4 DEF Sourced
    <3>4. QED
      BY <1>8, <3>1, <3>2, <3>3 DEF Turn, Restorable
  <2>3. QED
    BY <1>0, <1>2, <2>1, <2>2 DEF FiltersHaveSources
<1>9. CASE SaveBookmark /\ highlight = NoClick
  <2>1. \A d \in Dims : filters[d] = slicers[d]
    BY <1>0, <1>9, ViewingAssumption DEF Sourced, NoClick
  <2>2. filters = slicers
    BY <2>1 DEF TypeOK, Selections
  <2>3. bookmark'.filters = bookmark'.slicers
    BY <1>9, <2>2 DEF SaveBookmark
  <2>4. QED
    BY <1>0, <1>9, <2>3 DEF SaveBookmark, FiltersHaveSources, reader
<1>10. CASE ApplyBookmark
  <2>1. filters' = slicers' /\ bookmark' = bookmark
    BY <1>0, <1>10 DEF ApplyBookmark
  <2>2. \A q \in Pages : Kept1(aside'[q])
    BY <1>0, <1>2, <1>10 DEF ApplyBookmark
  <2>3. QED
    BY <1>0, <2>1, <2>2 DEF FiltersHaveSources, Sourced
<1>11. CASE Reload /\ PicksAreSaved
  <2>1. Initial(page) \in Selections
    BY InitialType DEF TypeOK
  <2>2. /\ slicers' = IF Initial(page) = NoSelection THEN slicers ELSE Initial(page)
        /\ filters' = [d \in Dims |-> IF filters[d] # None THEN filters[d] ELSE Initial(page)[d]]
        /\ highlight' = highlight /\ bookmark' = bookmark /\ \A p \in Pages : ~aside'[p].kept
    BY <1>11 DEF Reload, NotKept
  <2>3. ASSUME NEW d \in Dims PROVE filters'[d] = slicers'[d] \/ (highlight.dim = d /\ filters'[d] = highlight.value)
    <3>1. filters'[d] = IF filters[d] # None THEN filters[d] ELSE Initial(page)[d]
      BY <2>2
    <3>2. CASE highlight.dim = d /\ filters[d] = highlight.value
      <4>1. highlight.value \in Values
        BY <3>2, ViewingAssumption DEF TypeOK, Clicks, NoClick
      <4>2. QED
        BY <3>1, <3>2, <4>1, ViewingAssumption
    <3>3. CASE filters[d] = slicers[d]
      <4>1. CASE Initial(page) = NoSelection
        BY <2>2, <3>1, <3>3, <4>1 DEF NoSelection
      <4>2. CASE Initial(page) # NoSelection
        BY <1>11, <2>2, <3>1, <3>3, <4>2 DEF PicksAreSaved
      <4>3. QED
        BY <4>1, <4>2
    <3>4. QED
      BY <1>0, <3>2, <3>3 DEF Sourced
  <2>4. QED
    BY <1>0, <2>2, <2>3 DEF FiltersHaveSources, Sourced
<1>12. CASE Refresh \/ Arrivals \/ UNCHANGED vars
  BY <1>3, <1>12 DEF Refresh, Arrivals, ModelArrives, ModelFails, ModelRead, Answer, AnswerFails, Arrives, reader, vars
<1>13. QED
  BY <1>4, <1>5, <1>6, <1>7, <1>8, <1>9, <1>10, <1>11, <1>12 DEF SteadyNext

\* Nothing filters a page that is not on screen as a slicer's selection or a
\* click, under the acts the fetch effect can follow: taking a click back,
\* bookmarks, reloads, and pages left and shown again keep it.
THEOREM FiltersHaveTheirSource == SteadySpec => []FiltersAreShown
<1>1. Init => TypeOK /\ FiltersHaveSources
  BY TypeInit, FiltersInit
<1>2. TypeOK /\ FiltersHaveSources /\ [SteadyNext]_vars => (TypeOK /\ FiltersHaveSources)'
  BY SteadyIsNext, TypeStep, FiltersStep
<1>3. FiltersHaveSources => FiltersAreShown
  BY DEF FiltersHaveSources, Sourced, FiltersAreShown
<1>4. QED
  BY <1>1, <1>2, <1>3, PTL DEF SteadySpec

-----------------------------------------------------------------------------
(* The fetch effect, once and for all: what is asked for awaits its answer, *)
(* what is not stays as it was.                                             *)

LEMMA AskDoes ==
    ASSUME \A r \in requests : IsRequest(r), OneNewest, NEW scr, IsScreen(scr), NEW asked \in SUBSET Visuals, Ask(asked, scr)
    PROVE  /\ \A v \in Visuals \ asked : screen'[v] = scr[v]
           /\ \A v \in asked : screen'[v] = [scr[v] EXCEPT !.loading = TRUE]
           /\ \A v \in asked : [visual |-> v, key |-> Key(v, scr[v].path, filters', highlight'), newest |-> TRUE] \in requests'
           /\ \A r \in requests' : r.newest =>
                 IF r.visual \in asked
                 THEN r = [visual |-> r.visual, key |-> Key(r.visual, scr[r.visual].path, filters', highlight'), newest |-> TRUE]
                 ELSE r \in requests
           /\ \A r \in requests : r.visual \notin asked => r \in requests'
           /\ OneNewest'
<1>1. \A v \in Visuals : screen'[v] = IF v \in asked THEN [scr[v] EXCEPT !.loading = TRUE] ELSE scr[v]
  BY DEF Ask
<1> DEFINE new(v) == [visual |-> v, key |-> Key(v, scr[v].path, filters', highlight'), newest |-> TRUE]
<1>2. \A v \in asked : new(v) \in requests'
  BY DEF Ask
<1>3. ASSUME NEW r \in requests', r.newest PROVE IF r.visual \in asked THEN r = new(r.visual) ELSE r \in requests
  <2>1. CASE \E q \in requests : r = IF q.visual \in asked THEN [q EXCEPT !.newest = FALSE] ELSE q
    <3>1. PICK q \in requests : r = IF q.visual \in asked THEN [q EXCEPT !.newest = FALSE] ELSE q
      BY <2>1
    <3>2. q \in [visual : {q.visual}, key : Keys(q.visual), newest : BOOLEAN]
      BY DEF IsRequest
    <3>3. q.visual \notin asked
      BY <1>3, <3>1, <3>2
    <3>4. QED
      BY <3>1, <3>3
  <2>2. CASE \E v \in asked : r = new(v)
    BY <2>2
  <2>3. QED
    BY <2>1, <2>2 DEF Ask
<1>4. \A r \in requests : r.visual \notin asked => r \in requests'
  BY DEF Ask
<1>5. OneNewest'
  BY <1>3 DEF OneNewest
<1>6. QED
  BY <1>1, <1>2, <1>3, <1>4, <1>5

\* Asking nothing is leaving all alone.
LEMMA AskNothing ==
    ASSUME NEW scr, IsScreen(scr), screen' = scr, requests' = requests
    PROVE  Ask({}, scr)
<1>1. scr = [v \in Visuals |-> scr[v]]
  BY DEF IsScreen
<1>2. requests = {IF r.visual \in {} THEN [r EXCEPT !.newest = FALSE] ELSE r : r \in requests}
  OBVIOUS
<1>3. {[visual |-> v, key |-> Key(v, scr[v].path, filters', highlight'), newest |-> TRUE] : v \in {}} = {}
  OBVIOUS
<1>4. QED
  BY <1>1, <1>2, <1>3 DEF Ask

LEMMA Effect ==
    ASSUME \A r \in requests : IsRequest(r), OneNewest, NEW scr, IsScreen(scr),
           NEW asked \in SUBSET On(page'), Ask(asked, scr),
           \A v \in On(page') \ asked : model' => Spins(v, scr),
           \A v \in On(page') \ asked : Settled' => Answers(v, scr, filters', highlight') /\ Awaits(v, scr, filters', highlight'),
           \A p \in Pages : model' /\ aside'[p].kept =>
               p # page' /\ \A v \in On(p) : Answers(v, aside'[p].screen, aside'[p].filters, aside'[p].highlight)
    PROVE  OneNewest' /\ PageSpins' /\ PageAnswers' /\ KeptAnswer'
<1>0. asked \in SUBSET Visuals
  BY DEF On
<1> DEFINE new(v) == [visual |-> v, key |-> Key(v, scr[v].path, filters', highlight'), newest |-> TRUE]
<1>1. /\ \A v \in Visuals \ asked : screen'[v] = scr[v]
      /\ \A v \in asked : screen'[v] = [scr[v] EXCEPT !.loading = TRUE]
      /\ \A v \in asked : new(v) \in requests'
      /\ \A r \in requests' : r.newest => IF r.visual \in asked THEN r = new(r.visual) ELSE r \in requests
      /\ \A r \in requests : r.visual \notin asked => r \in requests'
      /\ OneNewest'
  BY <1>0, AskDoes
<1>2. ASSUME NEW v \in asked PROVE screen'[v].loading /\ screen'[v].path = scr[v].path
  <2>1. scr[v] \in Shows(v)
    BY <1>0 DEF IsScreen
  <2>2. QED
    BY <1>1, <2>1 DEF Shows
<1>3. ASSUME model', NEW v \in On(page'), screen'[v].loading PROVE \E r \in requests' : r.visual = v /\ r.newest
  <2>1. CASE v \in asked
    <3>1. new(v) \in requests' /\ new(v).visual = v /\ new(v).newest
      BY <1>1, <2>1
    <3>2. QED
      BY <3>1
  <2>2. CASE v \notin asked
    <3>1. screen'[v] = scr[v]
      BY <1>1, <2>2 DEF On
    <3>2. QED
      BY <1>1, <1>3, <2>2, <3>1 DEF Spins
  <2>3. QED
    BY <2>1, <2>2
<1>4. ASSUME Settled', NEW v \in On(page')
      PROVE  /\ ~screen'[v].loading => screen'[v].rows \in {Key(v, screen'[v].path, filters', highlight'), Failed}
             /\ \A r \in requests' : r.newest /\ r.visual = v =>
                   screen'[v].loading /\ r.key = Key(v, screen'[v].path, filters', highlight')
  <2>1. CASE v \in asked
    BY <1>1, <1>2, <2>1
  <2>2. CASE v \notin asked
    <3>1. screen'[v] = scr[v]
      BY <1>1, <2>2 DEF On
    <3>2. QED
      BY <1>1, <1>4, <2>2, <3>1 DEF Answers, Awaits
  <2>3. QED
    BY <2>1, <2>2
<1>5. ASSUME model', NEW p \in Pages, aside'[p].kept, NEW v \in On(p)
      PROVE  /\ ~aside'[p].screen[v].loading =>
                   aside'[p].screen[v].rows \in {Key(v, aside'[p].screen[v].path, aside'[p].filters, aside'[p].highlight), Failed}
             /\ \A r \in requests' : r.newest /\ r.visual = v => aside'[p].screen[v].loading
  <2>1. p # page' /\ Answers(v, aside'[p].screen, aside'[p].filters, aside'[p].highlight)
    BY <1>5
  <2>2. v \notin asked
    BY <2>1 DEF On
  <2>3. QED
    BY <1>1, <2>1, <2>2 DEF Answers
<1>6. PageSpins'
  BY <1>3 DEF PageSpins, Spins, On
<1>7. PageAnswers'
  BY <1>4 DEF PageAnswers, Answers, Awaits, On
<1>8. KeptAnswer'
  BY <1>5 DEF KeptAnswer, Answers, On
<1>9. QED
  BY <1>1, <1>6, <1>7, <1>8

LEMMA RefetchAsks ==
    ASSUME NEW scr, IsScreen(scr), NEW drilled, Refetch(scr, drilled)
    PROVE  Ask(IF model' THEN {v \in On(page') : drilled \in {None, v}} ELSE {}, scr)
BY AskNothing DEF Refetch

LEMMA FetchIfChangedAsks ==
    ASSUME NEW scr, IsScreen(scr), NEW source, FetchIfChanged(scr, source)
    PROVE  Ask(IF model /\ (filters' # filters \/ source # None) THEN On(page) \ {source} ELSE {}, scr)
BY AskNothing DEF FetchIfChanged

\* Where nothing but the rest of a page is asked for, what its visuals ask for
\* and the pages aside stay.
LEMMA SamePage ==
    ASSUME TypeOK, Steady, UNCHANGED <<page, model, aside>>, loads' = loads
    PROVE  /\ \A v \in On(page') : model' => Spins(v, screen)
           /\ Settled' => Settled
           /\ \A v \in On(page') : Settled' =>
                 Answers(v, screen, filters, highlight) /\ Awaits(v, screen, filters, highlight)
           /\ \A p \in Pages : model' /\ aside'[p].kept =>
                 p # page' /\ \A v \in On(p) : Answers(v, aside'[p].screen, aside'[p].filters, aside'[p].highlight)
BY DEF Steady, PageSpins, PageAnswers, KeptAnswer, NothingWaits, Settled

\* A page that is left answered its filters; so do those left before.
LEMMA LeavingAnswers ==
    ASSUME TypeOK, Steady, NEW p \in Pages, p # page, page' = p, loads = {}, aside' = Left(p), model' = model
    PROVE  \A q \in Pages : model' /\ aside'[q].kept =>
               q # page' /\ \A v \in On(q) : Answers(v, aside'[q].screen, aside'[q].filters, aside'[q].highlight)
<1> SUFFICES ASSUME NEW q \in Pages, model, Left(p)[q].kept
             PROVE  q # p /\ \A v \in On(q) : Answers(v, Left(p)[q].screen, Left(p)[q].filters, Left(p)[q].highlight)
  OBVIOUS
<1>1. CASE q = page
  <2>1. Settled
    BY DEF Settled
  <2>2. Left(p)[q] = Kept
    BY <1>1 DEF Left
  <2>3. \A v \in On(q) : Answers(v, screen, filters, highlight)
    BY <1>1, <2>1 DEF Steady, PageAnswers
  <2>4. QED
    BY <1>1, <2>2, <2>3 DEF Kept
<1>2. CASE q = p
  BY <1>2 DEF Left, NotKept
<1>3. CASE q # page /\ q # p
  BY <1>3 DEF Left, Steady, KeptAnswer
<1>4. QED
  BY <1>1, <1>2, <1>3

LEMMA WaitsInit == Init => NothingWaits
<1>1. ASSUME Init, NEW p \in Pages PROVE aside[p].kept = FALSE
  BY <1>1 DEF Init, NotKept
<1>2. QED
  BY <1>1, FirstPageType DEF Init, NothingWaits

\* No drill waits for a model, and no page is aside while the report is read.
LEMMA WaitsStep == TypeOK /\ NothingWaits /\ [SteadyNext]_vars => NothingWaits'
<1> SUFFICES ASSUME TypeOK, NothingWaits, [SteadyNext]_vars PROVE NothingWaits'
  OBVIOUS
<1>0. /\ drilling = None /\ (~model => requests = {}) /\ ~aside[page].kept /\ page \in Pages
      /\ (loads # {} => \A p \in Pages : ~aside[p].kept)
  BY DEF NothingWaits, TypeOK
<1>1. ASSUME UNCHANGED <<page, model, aside>>, drilling' = None, ~model => requests' = requests, loads' \subseteq loads
      PROVE  NothingWaits'
  BY <1>0, <1>1 DEF NothingWaits
<1>2. ASSUME NEW scr, Refetch(scr, drilling) PROVE drilling' = None /\ (~model' => requests' = requests)
  BY <1>0, <1>2 DEF Refetch
<1>3. ASSUME NEW scr, NEW source, FetchIfChanged(scr, source)
      PROVE  drilling' = None /\ (~model => requests' = requests)
  BY <1>0, <1>3 DEF FetchIfChanged
<1>4. ASSUME NEW v, NEW path, Drill(v, path), DrillsAlone(v) PROVE NothingWaits'
  BY <1>1, <1>4 DEF Drill, DrillsAlone, Refetch
<1>5. ASSUME NEW d \in Dims, NEW x \in Values \cup {None}, Pick(d, x) PROVE NothingWaits'
  BY <1>1, <1>3, <1>5 DEF Pick
<1>6. ASSUME NEW v \in Visuals, NEW x \in Values, DrillDown(v, x), DrillsAlone(v) PROVE NothingWaits'
  BY <1>4, <1>6 DEF DrillDown
<1>7. ASSUME NEW v \in Visuals, DrillUp(v) \/ DrillReset(v), DrillsAlone(v) PROVE NothingWaits'
  BY <1>4, <1>7 DEF DrillUp, DrillReset, DrillBack
<1>8. ASSUME NEW v \in Visuals, NEW x \in Values, Click(v, x) PROVE NothingWaits'
  BY <1>1, <1>3, <1>8 DEF Click
<1>9. CASE Refresh
  BY <1>1, <1>2, <1>9 DEF Refresh
<1>10. ASSUME NEW p \in Pages, p # page, page' = p, aside' = Left(p), loads = {}, loads' = loads, model' = model,
              drilling' = None, ~model' => requests' = requests
       PROVE  NothingWaits'
  <2>1. aside'[page'] = NotKept
    BY <1>10 DEF Left
  <2>2. QED
    BY <1>0, <1>10, <2>1 DEF NothingWaits, NotKept
<1>11. ASSUME NEW p \in Pages, Turn(p), loads = {} PROVE NothingWaits'
  <2>1. p # page /\ page' = p /\ aside' = Left(p) /\ UNCHANGED <<loads, model>>
    BY <1>11 DEF Turn
  <2>2. drilling' = None /\ (~model' => requests' = requests)
    <3>1. CASE Visit(p)
      BY <1>2, <3>1 DEF Visit
    <3>2. CASE Revisit(p)
      BY <1>0, <3>2 DEF Revisit
    <3>3. CASE RevisitSynced(p)
      BY <1>2, <3>3 DEF RevisitSynced
    <3>4. QED
      BY <1>11, <3>1, <3>2, <3>3 DEF Turn
  <2>3. QED
    BY <1>10, <1>11, <2>1, <2>2
<1>12. CASE ApplyBookmark /\ (loads = {} \/ bookmark.page = page)
  <2>1. /\ bookmark.page \in Pages /\ page' = bookmark.page /\ UNCHANGED <<loads, model>>
        /\ aside' = IF bookmark.page = page THEN aside ELSE Left(bookmark.page)
    BY <1>12 DEF ApplyBookmark, TypeOK
  <2>2. drilling' = None /\ (~model' => requests' = requests)
    BY <1>2, <1>12 DEF ApplyBookmark
  <2>3. CASE bookmark.page = page
    BY <1>1, <2>1, <2>2, <2>3
  <2>4. CASE bookmark.page # page
    BY <1>10, <1>12, <2>1, <2>2, <2>4
  <2>5. QED
    BY <2>3, <2>4
<1>13. CASE Reload
  <2>1. page' = page /\ model' = model /\ \A p \in Pages : aside'[p] = NotKept
    BY <1>13 DEF Reload
  <2>2. drilling' = None /\ (~model => requests' = requests)
    BY <1>3, <1>13 DEF Reload
  <2>3. QED
    BY <1>0, <2>1, <2>2 DEF NothingWaits, NotKept
<1>14. ASSUME NEW n \in loads, ModelArrives(n) \/ ModelFails(n) PROVE NothingWaits'
  <2>1. UNCHANGED <<page, aside>> /\ loads' \subseteq loads /\ (model => model')
    BY <1>14 DEF ModelArrives, ModelFails, ModelRead
  <2>2. drilling' = None /\ (~model' => requests' = requests)
    BY <1>0, <1>2, <1>14 DEF ModelArrives, ModelFails, ModelRead
  <2>3. QED
    BY <1>0, <2>1, <2>2 DEF NothingWaits
<1>15. ASSUME NEW r \in requests, Answer(r) \/ AnswerFails(r) PROVE NothingWaits'
  <2>1. UNCHANGED <<page, model, aside, loads, drilling>> /\ model
    BY <1>0, <1>15 DEF Answer, AnswerFails, Arrives
  <2>2. QED
    BY <1>0, <1>1, <2>1
<1>16. CASE SaveBookmark \/ UNCHANGED vars
  BY <1>0, <1>1, <1>16 DEF SaveBookmark, vars
<1>17. QED
  BY <1>5, <1>6, <1>7, <1>8, <1>9, <1>11, <1>12, <1>13, <1>14, <1>15, <1>16 DEF SteadyNext, Arrivals

LEMMA SteadyInit == Init => Steady
<1>1. Init => \A p \in Pages : ~aside[p].kept
  BY DEF Init, NotKept
<1>2. QED
  BY <1>1, WaitsInit DEF Init, Steady, OneNewest, PageSpins, PageAnswers, KeptAnswer, Settled

\* One lemma per kind of step: drills, clicks, and what fetches the page.
LEMMA DrillKeepsSteady ==
    ASSUME TypeOK, Steady, NEW v \in On(page), NEW path \in Paths, Drill(v, path), DrillsAlone(v)
    PROVE  OneNewest' /\ PageSpins' /\ PageAnswers' /\ KeptAnswer'
<1> DEFINE scr == [screen EXCEPT ![v].path = path, ![v].loading = TRUE]
<1>0. v \in Visuals /\ screen = [u \in Visuals |-> screen[u]]
  BY DEF On, TypeOK, IsScreen
<1>1. scr = [u \in Visuals |-> IF u = v THEN [screen[v] EXCEPT !.path = path, !.loading = TRUE] ELSE screen[u]]
  BY <1>0
<1>2. IsScreen(scr)
  <2>1. [screen[v] EXCEPT !.path = path, !.loading = TRUE] \in Shows(v)
    BY <1>0 DEF TypeOK, IsScreen, Shows
  <2> HIDE DEF scr
  <2>2. QED
    BY <1>1, <2>1 DEF TypeOK, IsScreen
<1>3. UNCHANGED <<page, model, aside, loads, filters, highlight>> /\ model /\ Refetch(scr, v)
  BY DEF Drill, DrillsAlone
<1> HIDE DEF scr
<1>4. v # None
  BY <1>0, ViewingAssumption
<1>5. Ask({v}, scr)
  <2>1. {u \in On(page) : v \in {None, u}} = {v}
    BY <1>4
  <2>2. QED
    BY <1>2, <1>3, <2>1, RefetchAsks
<1>6. \A u \in On(page) \ {v} : scr[u] = screen[u]
  BY <1>1 DEF On
<1>7. \A u \in On(page') \ {v} : model' => Spins(u, scr)
  BY <1>3, <1>6, SamePage DEF Spins
<1>8. \A u \in On(page') \ {v} : Settled' => Answers(u, scr, filters', highlight') /\ Awaits(u, scr, filters', highlight')
  BY <1>3, <1>6, SamePage DEF Answers, Awaits
<1>9. \A p \in Pages : model' /\ aside'[p].kept =>
          p # page' /\ \A u \in On(p) : Answers(u, aside'[p].screen, aside'[p].filters, aside'[p].highlight)
  BY <1>3, SamePage
<1>10. {v} \in SUBSET On(page') /\ (\A r \in requests : IsRequest(r)) /\ OneNewest
  BY <1>3 DEF TypeOK, Steady
<1>11. QED
  BY <1>2, <1>5, <1>7, <1>8, <1>9, <1>10, Effect

\* A click changes nothing of what its own visual is asked for.
LEMMA KeyKept ==
    ASSUME NEW v, NEW path, KeepsItsFilters(v)
    PROVE  Key(v, path, filters', highlight') = Key(v, path, filters, highlight)
<1>1. \A d \in Dims : Filtered(v, d, filters', highlight') = Filtered(v, d, filters, highlight)
  BY DEF KeepsItsFilters, Filtered
<1> DEFINE depth == Depth(v, path)
           drilled(d) == \E i \in 1..depth : path[i].dim = d
           value(d) == path[CHOOSE i \in 1..depth : path[i].dim = d /\ \A k \in i + 1..depth : path[k].dim # d].value
           reaches(fs, click) == [d \in Dims |-> IF drilled(d) THEN value(d) ELSE Filtered(v, d, fs, click)]
<1>2. \A fs, click : Key(v, path, fs, click) = [level |-> depth + 1, filters |-> reaches(fs, click)]
  BY DEF Key
<1>3. reaches(filters', highlight') = reaches(filters, highlight)
  <2> HIDE DEF drilled, value
  <2>1. QED
    BY <1>1
<1> HIDE DEF reaches
<1>4. QED
  BY <1>2, <1>3

LEMMA ClickKeepsSteady ==
    ASSUME TypeOK, Steady, NEW v \in Visuals, NEW x, Click(v, x), KeepsItsFilters(v)
    PROVE  OneNewest' /\ PageSpins' /\ PageAnswers' /\ KeptAnswer'
<1>1. UNCHANGED <<page, model, aside, loads>> /\ FetchIfChanged(screen, v) /\ IsScreen(screen)
  BY DEF Click, TypeOK
<1>2. v # None
  BY ViewingAssumption
<1>3. Ask(IF model THEN On(page) \ {v} ELSE {}, screen)
  BY <1>1, <1>2, FetchIfChangedAsks
<1> DEFINE asked == IF model THEN On(page) \ {v} ELSE {}
<1>4. \A u \in On(page') : model' => Spins(u, screen)
  BY <1>1, SamePage
<1>5. \A u \in On(page') \ asked : Settled' =>
          Answers(u, screen, filters', highlight') /\ Awaits(u, screen, filters', highlight')
  <2>1. SUFFICES ASSUME NEW u \in On(page) \ asked, Settled'
                 PROVE  Answers(u, screen, filters', highlight') /\ Awaits(u, screen, filters', highlight')
    BY <1>1
  <2>2. u = v
    BY <1>1, <2>1 DEF Settled
  <2>3. Answers(v, screen, filters, highlight) /\ Awaits(v, screen, filters, highlight)
    BY <1>1, <2>1, <2>2, SamePage
  <2>4. Key(v, screen[v].path, filters', highlight') = Key(v, screen[v].path, filters, highlight)
    BY KeyKept
  <2>5. QED
    BY <2>2, <2>3, <2>4 DEF Answers, Awaits
<1>6. \A p \in Pages : model' /\ aside'[p].kept =>
          p # page' /\ \A u \in On(p) : Answers(u, aside'[p].screen, aside'[p].filters, aside'[p].highlight)
  BY <1>1, SamePage
<1>7. asked \in SUBSET On(page') /\ (\A r \in requests : IsRequest(r)) /\ OneNewest
  BY <1>1 DEF TypeOK, Steady
<1> HIDE DEF asked
<1>8. QED
  BY <1>1, <1>3, <1>4, <1>5, <1>6, <1>7, Effect DEF asked

\* A whole page asked for awaits all it needs.
LEMMA WholePage ==
    ASSUME TypeOK, Steady, NEW scr, IsScreen(scr), Ask(IF model' THEN On(page') ELSE {}, scr),
           \A p \in Pages : model' /\ aside'[p].kept =>
               p # page' /\ \A v \in On(p) : Answers(v, aside'[p].screen, aside'[p].filters, aside'[p].highlight)
    PROVE  OneNewest' /\ PageSpins' /\ PageAnswers' /\ KeptAnswer'
<1> DEFINE asked == IF model' THEN On(page') ELSE {}
<1>1. asked \in SUBSET On(page') /\ (\A r \in requests : IsRequest(r)) /\ OneNewest
  BY DEF TypeOK, Steady
<1>2. \A v \in On(page') \ asked : ~model' /\ ~Settled'
  BY DEF Settled
<1>3. Ask(asked, scr)
  OBVIOUS
<1> HIDE DEF asked
<1>4. QED
  BY <1>1, <1>2, <1>3, Effect

LEMMA RefetchKeepsSteady ==
    ASSUME TypeOK, Steady, NEW scr, IsScreen(scr), Refetch(scr, drilling),
           \A p \in Pages : model' /\ aside'[p].kept =>
               p # page' /\ \A v \in On(p) : Answers(v, aside'[p].screen, aside'[p].filters, aside'[p].highlight)
    PROVE  OneNewest' /\ PageSpins' /\ PageAnswers' /\ KeptAnswer'
<1>1. drilling = None
  BY DEF Steady, NothingWaits
<1>2. Ask(IF model' THEN {v \in On(page') : drilling \in {None, v}} ELSE {}, scr)
  BY RefetchAsks
<1>3. {v \in On(page') : drilling \in {None, v}} = On(page')
  BY <1>1
<1>4. Ask(IF model' THEN On(page') ELSE {}, scr)
  BY <1>2, <1>3
<1>5. QED
  BY <1>4, WholePage

LEMMA ReloadKeepsSteady ==
    ASSUME TypeOK, Steady, Reload PROVE OneNewest' /\ PageSpins' /\ PageAnswers' /\ KeptAnswer'
<1>1. /\ UNCHANGED <<page, model>> /\ loads' = loads \cup {acts'} /\ acts' > 0
      /\ \A p \in Pages : aside'[p].kept = FALSE
      /\ FetchIfChanged(Stage(page), None)
  BY DEF Reload, NotKept, Act, TypeOK
<1> DEFINE asked == IF model /\ (filters' # filters \/ None # None) THEN On(page) \ {None} ELSE {}
<1>2. IsScreen(Stage(page)) /\ Ask(asked, Stage(page))
  BY <1>1, StageType, FetchIfChangedAsks
<1>3. \A v \in On(page') : Spins(v, Stage(page)) /\ ~Stage(page)[v].loading
  BY DEF Spins, Stage, Blank, On
<1>4. ~Settled'
  BY <1>1 DEF Settled
<1>5. asked \in SUBSET On(page') /\ (\A r \in requests : IsRequest(r)) /\ OneNewest
  BY <1>1 DEF TypeOK, Steady
<1> HIDE DEF asked
<1>6. QED
  BY <1>1, <1>2, <1>3, <1>4, <1>5, Effect

LEMMA AnswersKeepSteady ==
    ASSUME TypeOK, Steady, NEW r \in requests, NEW rows \in {r.key, Failed}, Arrives(r, rows)
    PROVE  OneNewest' /\ PageSpins' /\ PageAnswers' /\ KeptAnswer'
<1>1. /\ requests' = requests \ {r} /\ UNCHANGED <<page, loads, model, filters, slicers, highlight, aside>>
      /\ screen' = IF Lands(r) THEN [screen EXCEPT ![r.visual].rows = rows, ![r.visual].loading = FALSE] ELSE screen
  BY DEF Arrives, reader
<1>2. OneNewest /\ OneNewest'
  BY <1>1 DEF Steady, OneNewest
<1>3. r.visual \in Visuals /\ screen = [v \in Visuals |-> screen[v]] /\ screen[r.visual] \in Shows(r.visual)
  BY DEF TypeOK, IsRequest, IsScreen
<1>4. ASSUME NEW v \in On(page), v # r.visual \/ ~Lands(r) PROVE screen'[v] = screen[v]
  BY <1>1, <1>3, <1>4 DEF On
<1>5. ASSUME Lands(r) PROVE screen'[r.visual] = [screen[r.visual] EXCEPT !.rows = rows, !.loading = FALSE]
  BY <1>1, <1>3, <1>5
<1>6. ASSUME Lands(r)
      PROVE  ~screen'[r.visual].loading /\ screen'[r.visual].rows = rows /\ screen'[r.visual].path = screen[r.visual].path
  BY <1>3, <1>5, <1>6 DEF Shows
<1>7. ASSUME NEW v \in On(page), NEW s \in requests, s.visual = v, s.newest, v # r.visual \/ ~Lands(r) PROVE s \in requests'
  <2>1. s # r
    BY <1>7 DEF Lands, On
  <2>2. QED
    BY <1>1, <2>1
<1>8. ASSUME model, NEW v \in On(page), screen'[v].loading PROVE \E s \in requests' : s.visual = v /\ s.newest
  <2>1. v # r.visual \/ ~Lands(r)
    BY <1>6, <1>8
  <2>2. screen[v].loading
    BY <1>4, <1>8, <2>1
  <2>3. PICK s \in requests : s.visual = v /\ s.newest
    BY <1>8, <2>2 DEF Steady, PageSpins, Spins
  <2>4. QED
    BY <1>7, <2>1, <2>3
<1>9. PageSpins'
  BY <1>1, <1>8 DEF PageSpins, Spins, On
<1>10. ASSUME Settled, NEW v \in On(page)
       PROVE  /\ ~screen'[v].loading => screen'[v].rows \in {Key(v, screen'[v].path, filters, highlight), Failed}
              /\ \A s \in requests' : s.newest /\ s.visual = v =>
                    screen'[v].loading /\ s.key = Key(v, screen'[v].path, filters, highlight)
  <2>1. Answers(v, screen, filters, highlight) /\ Awaits(v, screen, filters, highlight)
    BY <1>10 DEF Steady, PageAnswers
  <2>2. CASE v = r.visual /\ Lands(r)
    <3>1. r.key = Key(v, screen[v].path, filters, highlight)
      BY <2>1, <2>2 DEF Awaits, Lands
    <3>2. \A s \in requests' : ~(s.newest /\ s.visual = v)
      BY <1>1, <1>2, <2>2 DEF OneNewest, Lands
    <3>3. QED
      BY <1>6, <2>2, <3>1, <3>2
  <2>3. CASE v # r.visual \/ ~Lands(r)
    BY <1>1, <1>4, <2>1, <2>3 DEF Answers, Awaits
  <2>4. QED
    BY <2>2, <2>3
<1>11. PageAnswers'
  <2>1. (Settled' => Settled) /\ filters' = filters /\ highlight' = highlight /\ page' = page
    BY <1>1 DEF Settled
  <2>2. QED
    BY <1>10, <2>1 DEF PageAnswers, Answers, Awaits, On
<1>12. KeptAnswer'
  BY <1>1 DEF Steady, KeptAnswer, Answers, On
<1>13. QED
  BY <1>2, <1>9, <1>11, <1>12

LEMMA SteadyStep == TypeOK /\ Steady /\ [SteadyNext]_vars => Steady'
<1> SUFFICES ASSUME TypeOK, Steady, [SteadyNext]_vars PROVE OneNewest' /\ PageSpins' /\ PageAnswers' /\ KeptAnswer'
  BY WaitsStep DEF Steady
<1> DEFINE Goal == OneNewest' /\ PageSpins' /\ PageAnswers' /\ KeptAnswer'
<1>0. IsScreen(screen) /\ page \in Pages /\ (\A r \in requests : IsRequest(r)) /\ OneNewest
  BY DEF TypeOK, Steady
<1>1. ASSUME NEW d \in Dims, NEW x \in Values \cup {None}, Pick(d, x) PROVE Goal
  <2>1. UNCHANGED <<page, loads, model, highlight, aside>> /\ FetchIfChanged(screen, None)
    BY <1>1 DEF Pick
  <2>2. CASE model /\ filters' # filters
    <3>1. None \notin On(page)
      BY ViewingAssumption DEF On
    <3>2. Ask(IF model' THEN On(page') ELSE {}, screen)
      BY <1>0, <2>1, <2>2, <3>1 DEF FetchIfChanged
    <3>3. QED
      BY <1>0, <2>1, <3>2, SamePage, WholePage
  <2>3. CASE ~(model /\ filters' # filters)
    <3>1. screen' = screen /\ requests' = requests
      BY <2>1, <2>3 DEF FetchIfChanged
    <3>2. Settled' => Settled /\ filters' = filters
      BY <2>1, <2>3 DEF Settled
    <3>3. QED
      BY <2>1, <3>1, <3>2 DEF Steady, OneNewest, PageSpins, Spins, PageAnswers, KeptAnswer, Answers, Awaits, On
  <2>4. QED
    BY <2>2, <2>3
<1>2. ASSUME NEW v \in Visuals, NEW x \in Values, DrillDown(v, x), DrillsAlone(v) PROVE Goal
  <2>1. Append(screen[v].path, [dim |-> ShownDim(v), value |-> x]) \in Paths
    BY <1>2, ShownDimType, AppendProperties DEF DrillDown, TypeOK, IsScreen, Shows, Paths
  <2>2. v \in On(page)
    BY <1>2 DEF DrillDown, HasRows
  <2>3. QED
    BY <1>2, <2>1, <2>2, DrillKeepsSteady DEF DrillDown
<1>3. ASSUME NEW v \in Visuals, DrillUp(v) \/ DrillReset(v), DrillsAlone(v) PROVE Goal
  <2>1. SubSeq(screen[v].path, 1, Len(screen[v].path) - 1) \in Paths /\ <<>> \in Paths
    BY PathBack DEF TypeOK, IsScreen, Shows
  <2>2. v \in On(page)
    BY <1>3 DEF DrillUp, DrillReset, DrillBack, HasRows
  <2>3. QED
    BY <1>3, <2>1, <2>2, DrillKeepsSteady DEF DrillUp, DrillReset, DrillBack
<1>4. ASSUME NEW v \in Visuals, NEW x \in Values, Click(v, x), KeepsItsFilters(v) PROVE Goal
  BY <1>4, ClickKeepsSteady
<1>5. CASE Refresh
  BY <1>0, <1>5, SamePage, RefetchKeepsSteady DEF Refresh
<1>6. ASSUME NEW p \in Pages, Turn(p), loads = {} PROVE Goal
  <2>1. p # page /\ page' = p /\ aside' = Left(p) /\ UNCHANGED <<loads, model>>
    BY <1>6 DEF Turn
  <2>2. \A q \in Pages : model' /\ aside'[q].kept =>
            q # page' /\ \A v \in On(q) : Answers(v, aside'[q].screen, aside'[q].filters, aside'[q].highlight)
    BY <1>6, <2>1, LeavingAnswers
  <2>3. CASE Visit(p)
    BY <2>2, <2>3, StageType, RefetchKeepsSteady DEF Visit
  <2>4. CASE Restorable(p) /\ RevisitSynced(p)
    <3>1. IsScreen(aside[p].screen) /\ Refetch(aside[p].screen, drilling)
      BY <2>4 DEF Restorable, RevisitSynced, TypeOK, IsKept
    <3>2. QED
      BY <2>2, <3>1, RefetchKeepsSteady
  <2>5. CASE Restorable(p) /\ Revisit(p)
    <3>1. /\ screen' = aside[p].screen /\ filters' = aside[p].filters /\ highlight' = aside[p].highlight
          /\ requests' = requests /\ IsScreen(aside[p].screen)
      BY <2>5 DEF Restorable, Revisit, TypeOK, IsKept
    <3>2. Ask({}, aside[p].screen)
      BY <3>1, AskNothing
    <3>3. \A v \in On(p) : ~aside[p].screen[v].loading /\ Spins(v, aside[p].screen)
      BY <2>5 DEF Restorable, Spins
    <3>4. ASSUME model, NEW v \in On(p)
          PROVE  Answers(v, aside[p].screen, filters', highlight') /\ Awaits(v, aside[p].screen, filters', highlight')
      <4>1. Answers(v, aside[p].screen, aside[p].filters, aside[p].highlight)
        BY <2>5, <3>4 DEF Steady, KeptAnswer, Restorable
      <4>2. QED
        BY <3>1, <3>3, <4>1 DEF Answers, Awaits
    <3>5. \A v \in On(page') \ {} : model' => Spins(v, aside[p].screen)
      BY <2>1, <3>3
    <3>6. \A v \in On(page') \ {} : Settled' =>
              Answers(v, aside[p].screen, filters', highlight') /\ Awaits(v, aside[p].screen, filters', highlight')
      BY <2>1, <3>4 DEF Settled
    <3>7. QED
      BY <1>0, <2>2, <3>1, <3>2, <3>5, <3>6, Effect
  <2>6. QED
    BY <1>6, <2>3, <2>4, <2>5 DEF Turn
<1>7. CASE ApplyBookmark /\ (loads = {} \/ bookmark.page = page)
  <2>1. /\ bookmark.page \in Pages /\ page' = bookmark.page /\ UNCHANGED <<loads, model>>
        /\ aside' = IF bookmark.page = page THEN aside ELSE Left(bookmark.page)
        /\ Refetch(IF bookmark.page = page THEN screen ELSE Stage(bookmark.page), drilling)
    BY <1>7 DEF ApplyBookmark, TypeOK
  <2>2. CASE bookmark.page = page
    BY <1>0, <2>1, <2>2, SamePage, RefetchKeepsSteady
  <2>3. CASE bookmark.page # page
    BY <1>7, <2>1, <2>3, LeavingAnswers, StageType, RefetchKeepsSteady
  <2>4. QED
    BY <2>2, <2>3
<1>8. CASE Reload
  BY <1>8, ReloadKeepsSteady
<1>9. ASSUME NEW n \in loads, ModelArrives(n) \/ ModelFails(n) PROVE Goal
  <2>1. /\ UNCHANGED <<page, aside, filters, highlight>> /\ loads' = loads \ {n} /\ (model => model')
        /\ \A p \in Pages : ~aside'[p].kept
    BY <1>9 DEF ModelArrives, ModelFails, ModelRead, reader, Steady, NothingWaits
  <2>2. IsScreen(Cleared)
    BY DEF TypeOK, IsScreen, Cleared, Shows
  <2>3. CASE n > 0 \/ model' # model
    <3>1. Refetch(IF model' # model THEN Cleared ELSE screen, drilling)
      BY <1>9, <2>3 DEF ModelArrives, ModelFails, ModelRead
    <3>2. QED
      BY <1>0, <2>1, <2>2, <3>1, RefetchKeepsSteady
  <2>4. CASE n = 0 /\ model' = model
    <3>1. screen' = screen /\ requests' = requests
      BY <1>9, <2>4 DEF ModelArrives, ModelFails, ModelRead
    <3>2. Settled' => Settled
      BY <2>1, <2>4 DEF Settled
    <3>3. QED
      BY <2>1, <2>4, <3>1, <3>2 DEF Steady, OneNewest, PageSpins, Spins, PageAnswers, KeptAnswer, Answers, Awaits, On
  <2>5. n \in Nat
    BY DEF TypeOK
  <2>6. QED
    BY <2>3, <2>4, <2>5
<1>10. ASSUME NEW r \in requests, Answer(r) \/ AnswerFails(r) PROVE Goal
  BY <1>10, AnswersKeepSteady DEF Answer, AnswerFails
<1>11. CASE SaveBookmark \/ UNCHANGED vars
  BY <1>11 DEF SaveBookmark, vars, reader, Steady, OneNewest, PageSpins, Spins, PageAnswers, KeptAnswer, Answers, Awaits, Settled, On
<1>12. QED
  BY <1>1, <1>2, <1>3, <1>4, <1>5, <1>6, <1>7, <1>8, <1>9, <1>10, <1>11 DEF SteadyNext, Arrivals

LEMMA SteadyHolds == SteadySpec => [](TypeOK /\ Steady)
<1>1. Init => TypeOK /\ Steady
  BY TypeInit, SteadyInit
<1>2. TypeOK /\ Steady /\ [SteadyNext]_vars => (TypeOK /\ Steady)'
  BY SteadyIsNext, TypeStep, SteadyStep
<1>3. QED
  BY <1>1, <1>2, PTL DEF SteadySpec

\* Once there is a model, a spinner on screen awaits an answer that will be
\* shown: its visual's newest request is in flight, whichever pages were turned
\* or restored meanwhile.
THEOREM SpinnersEnd == SteadySpec => []SpinnersAwait
<1>1. Steady => SpinnersAwait
  BY DEF Steady, PageSpins, Spins, SpinnersAwait
<1>2. QED
  BY <1>1, SteadyHolds, PTL

\* Once the report is loaded, a visual that does not spin shows what its drill,
\* the slicers and the clicks ask for, or an error, in whatever order answers
\* came and pages were turned, restored, bookmarked and reloaded.
THEOREM RowsAreCurrent == SteadySpec => []VisualsAreCurrent
<1>1. Steady => VisualsAreCurrent
  BY DEF Steady, PageAnswers, Answers, Settled, Loaded, KeyOf, VisualsAreCurrent
<1>2. QED
  BY <1>1, SteadyHolds, PTL
=============================================================================
