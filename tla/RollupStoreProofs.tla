-------------------------- MODULE RollupStoreProofs --------------------------
(***************************************************************************)
(* Theorems about RollupStore for every number of keys, queries, drops,    *)
(* generations and revisions.  ServedFaithfully is not inductive by        *)
(* itself: that a row never names a table being written needs to know that *)
(* the one writer works on keys not yet published in its generation, that  *)
(* cold partitions are copied from a finished table of an older one, and   *)
(* what a pending read still has to find.                                  *)
(***************************************************************************)
EXTENDS RollupStore, TLAPS

\* Rows are of generations handed out.
RowsBehind == \A k \in Keys : manifest[k] # NoRow => manifest[k].gen <= lastGen

\* A key of the build in flight that has not landed.
Pending(k) == build.pc # "idle" /\ (k \in build.todo \/ k = build.key)

\* The writer works alone: nothing pending is published in its generation.
WriterAlone ==
    \A k \in Keys : Pending(k) /\ manifest[k] # NoRow => manifest[k].gen # lastGen

\* An item is taken up once.
Fresh == build.key \in Keys => build.key \notin build.todo

\* What each step of an item knows.
ItemPcs == {"plan", "ask", "create", "insert", "copy", "upsert"}
Item ==
    /\ build.pc # "idle" => lastGen \in Gens
    /\ build.pc \in ItemPcs => build.key \in Keys
    /\ build.pc \in {"create", "insert"} => build.rows \in Stamps
    /\ build.pc = "copy" => build.data.hot \in Stamps /\ build.from # 0
    /\ build.pc = "upsert" =>
         /\ build.data \in Complete
         /\ tables[lastGen][build.key] \in {NoTable, build.data}

\* An incremental item copies from a finished table of an older generation.
ColdSource ==
    build.pc \in {"ask", "create", "insert", "copy"} /\ build.from # 0 =>
        /\ build.from < lastGen
        /\ tables[build.from][build.key] \in Complete \cup {NoTable}

\* A pending read finds what it was promised, or nothing.
Promises ==
    \A q \in Queries : query[q].pc = "reading" =>
        /\ query[q].gen \in Gens
        /\ query[q].gen <= lastGen
        /\ \A k \in query[q].keys :
             /\ query[q].promised[k] \in Complete
             /\ tables[query[q].gen][k] \in {NoTable, query[q].promised[k]}
             /\ query[q].gen = lastGen => ~Pending(k)

\* Nothing is promised for a key that was not asked.
OnlyAsked ==
    \A q \in Queries : query[q].pc = "reading" =>
        \A k \in Keys \ query[q].keys : query[q].promised[k] = NoTable

IInv ==
    /\ TypeOK
    /\ RowsBehind
    /\ WriterAlone
    /\ Fresh
    /\ Item
    /\ ColdSource
    /\ ServedFaithfully
    /\ Promises
    /\ OnlyAsked
    /\ HitsAreWhole

-----------------------------------------------------------------------------
(* Types. *)

LEMMA EmptyIsTable == Empty \in Table /\ Complete \subseteq Table /\ Nothing \in Part
BY DEF Empty, Table, Part, Complete

LEMMA RestStates ==
    /\ Blank \in Tables
    /\ NoBuild \in BuildState
    /\ Idle \in SweepState
    /\ NoDrop \in DropState
    /\ NoQuery \in QueryState
<1>1. Blank \in Tables
  BY DEF Blank, Tables
<1>2. NoBuild \in BuildState
  <2>1. ShapeOf[[model |-> 1, formula |-> 1]] \in Shapes
    <3>1. [model |-> 1, formula |-> 1] \in Stamps
      BY BoundsAssumption DEF Stamps, BoundsAssumption
    <3> QED
      BY <3>1, PlanAssumption DEF PlanAssumption
  <2> QED
    BY <2>1, BoundsAssumption, EmptyIsTable DEF NoBuild, BuildState, BuildPcs, BoundsAssumption
<1>3. NoQuery \in QueryState
  BY <1>1 DEF NoQuery, QueryState
<1>4. Idle \in SweepState /\ NoDrop \in DropState
  BY BoundsAssumption DEF Idle, SweepState, NoDrop, DropState, BoundsAssumption
<1> QED
  BY <1>1, <1>2, <1>3, <1>4

LEMMA StartSweepType ==
    ASSUME NEW keep, onDisk \subseteq Gens
    PROVE  StartSweep(keep) \in SweepState
BY DEF StartSweep, Idle, SweepState

LEMMA TypeInit == Init => TypeOK
BY RestStates, BoundsAssumption, PlanAssumption
DEF Init, TypeOK, BoundsAssumption, PlanAssumption

\* Closing and unlinking files keeps the store well-typed.
LEMMA SweepType ==
    ASSUME TypeOK, NEW p \in Sweepers, SweepStep(p)
    PROVE  /\ sweep' \in [Sweepers -> SweepState]
           /\ onDisk' \subseteq Gens
           /\ open' \subseteq Gens
           /\ tables' \in [Gens -> Tables]
<1> USE DEF TypeOK, Forget, Unlink
<1>1. sweep[p] \in SweepState
  OBVIOUS
<1>2. CASE CloseGen(p)
  <2>1. PICK g \in sweep[p].todo \cap open :
          /\ sweep' = [sweep EXCEPT ![p] = [pc |-> "unlink", todo |-> sweep[p].todo \ {g},
                                            cur |-> g]]
          /\ Forget(g)
    BY <1>2 DEF CloseGen
  <2>2. [pc |-> "unlink", todo |-> sweep[p].todo \ {g}, cur |-> g] \in SweepState
    BY <1>1, <2>1 DEF SweepState
  <2> QED
    BY <1>2, <2>1, <2>2, RestStates DEF CloseGen
<1>3. CASE UnlinkGen(p)
  <2>1. [sweep[p] EXCEPT !.pc = "on", !.cur = 0] \in SweepState
    BY <1>1 DEF SweepState
  <2>2. sweep' \in [Sweepers -> SweepState]
    BY <1>3, <2>1 DEF UnlinkGen
  <2> QED
    BY <1>3, <2>2, RestStates DEF UnlinkGen
<1>4. CASE RemoveClosed(p)
  <2>1. PICK g \in sweep[p].todo \ open :
          /\ sweep' = [sweep EXCEPT ![p].todo = sweep[p].todo \ {g}]
          /\ Unlink(g)
    BY <1>4 DEF RemoveClosed
  <2>2. [sweep[p] EXCEPT !.todo = sweep[p].todo \ {g}] \in SweepState
    BY <1>1 DEF SweepState
  <2>3. sweep' \in [Sweepers -> SweepState]
    BY <2>1, <2>2
  <2> QED
    BY <1>4, <2>1, <2>3, RestStates DEF RemoveClosed
<1> QED
  BY <1>2, <1>3, <1>4 DEF SweepStep

\* So does every step of the builder.
LEMMA BuildType ==
    ASSUME TypeOK, Item, BuildStep
    PROVE  TypeOK'
<1> USE DEF TypeOK, store, world, Gen
<1>0. build \in BuildState /\ build.pc \in BuildPcs /\ build.todo \subseteq Keys
  BY DEF BuildState
<1>1. CASE BeginItem
  <2>1. PICK k \in build.todo :
          build' = [build EXCEPT !.pc = "plan", !.key = k, !.todo = build.todo \ {k},
                      !.outputs = ShapeOf[[model |-> model, formula |-> build.formula]]]
    BY <1>1 DEF BeginItem
  <2>2. [model |-> model, formula |-> build.formula] \in Stamps
    BY <1>0 DEF Stamps, BuildState
  <2>3. ShapeOf[[model |-> model, formula |-> build.formula]] \in Shapes
    BY <2>2, PlanAssumption DEF PlanAssumption
  <2>4. build' \in BuildState
    BY <1>0, <2>1, <2>3 DEF BuildState, BuildPcs
  <2> QED
    BY <1>1, <2>4 DEF BeginItem, OpenDb, Item
<1>2. CASE SkipItem
  <2>1. build' \in BuildState
    BY <1>0, <1>2 DEF SkipItem, BuildState, BuildPcs
  <2> QED
    BY <1>2, <2>1 DEF SkipItem
<1>3. CASE PlanItem
  <2>1. build.key \in Keys
    BY <1>3 DEF PlanItem, Item, ItemPcs
  <2>2. manifest[build.key] # NoRow => manifest[build.key].gen \in Gens
    BY <2>1 DEF Row
  <2>3. build' \in BuildState
    BY <1>0, <1>3, <2>2 DEF PlanItem, BuildState, BuildPcs
  <2> QED
    BY <1>3, <2>3 DEF PlanItem
<1>4. CASE Ask
  <2>1. [model |-> model, formula |-> build.formula] \in Part
    BY <1>0 DEF Part, Stamps, BuildState
  <2>2. build' \in BuildState
    BY <1>0, <1>4, <2>1 DEF Ask, BuildState, BuildPcs
  <2> QED
    BY <1>4, <2>2 DEF Ask
<1>5. CASE CreateTable
  <2>1. build' \in BuildState
    BY <1>0, <1>5 DEF CreateTable, BuildState, BuildPcs
  <2>2. Gen \in Gens
    BY <1>5 DEF CreateTable, Item
  <2>3. tables' \in [Gens -> Tables]
    BY <1>5, EmptyIsTable DEF CreateTable, PutTable, Tables
  <2> QED
    BY <1>5, <2>1, <2>2, <2>3 DEF CreateTable, OpenDb
<1>6. CASE InsertRows
  <2>1. Landed \in Table
    BY <1>0, EmptyIsTable DEF Landed, Table, BuildState
  <2>2. build' \in BuildState
    BY <1>0, <1>6, <2>1 DEF InsertRows, BuildState, BuildPcs
  <2>3. Gen \in Gens
    BY <1>6 DEF InsertRows, Item
  <2>4. tables' \in [Gens -> Tables]
    BY <1>6, <2>1 DEF InsertRows, PutTable, Tables
  <2> QED
    BY <1>6, <2>2, <2>3, <2>4 DEF InsertRows, OpenDb
<1>7. CASE CopyCold
  <2> DEFINE old == tables[build.from][build.key]
             whole == [build.data EXCEPT !.cold = old.cold]
  <2>1. build.from \in Gens /\ build.key \in Keys /\ old # NoTable
    BY <1>0, <1>7 DEF CopyCold, Item, ItemPcs, BuildState
  <2>2. old \in Table
    BY <2>1 DEF Tables
  <2>3. whole \in Table
    BY <1>0, <2>2 DEF Table, BuildState
  <2>4. build' \in BuildState
    BY <1>0, <1>7, <2>3 DEF CopyCold, BuildState, BuildPcs
  <2>5. tables' \in [Gens -> Tables]
    BY <1>7, <2>3 DEF CopyCold, PutTable, Tables
  <2>6. Gen \in Gens
    BY <1>7 DEF CopyCold, Item
  <2> QED
    BY <1>7, <2>4, <2>5, <2>6 DEF CopyCold, OpenDb
<1>8. CASE FallBack
  <2>1. build' \in BuildState
    BY <1>0, <1>8 DEF FallBack, BuildState, BuildPcs
  <2>2. tables' \in [Gens -> Tables]
    BY <1>8 DEF FallBack, PutTable, Tables
  <2>3. Gen \in Gens
    BY <1>8 DEF FallBack, Item
  <2> QED
    BY <1>8, <2>1, <2>2, <2>3 DEF FallBack, OpenDb
<1>9. CASE ItemFails
  <2>1. build' \in BuildState
    BY <1>0, <1>9 DEF ItemFails, BuildState, BuildPcs
  <2> QED
    BY <1>9, <2>1 DEF ItemFails
<1>10. CASE Upsert
  <2>1. [gen |-> Gen, shape |-> build.outputs, data |-> build.data] \in Row
    BY <1>0, <1>10 DEF Upsert, Item, Row, BuildState
  <2>2. build' \in BuildState
    BY <1>0, <1>10 DEF Upsert, BuildState, BuildPcs
  <2> QED
    BY <1>10, <2>1, <2>2 DEF Upsert
<1>11. CASE EndWithoutResult
  BY <1>11, RestStates DEF EndWithoutResult
<1>12. CASE Checkpoint
  <2>1. build' \in BuildState
    BY <1>0, <1>12 DEF Checkpoint, BuildState, BuildPcs
  <2> QED
    BY <1>12, <2>1 DEF Checkpoint, OpenDb, Item
<1>13. CASE PruneRows
  <2>1. build' \in BuildState
    BY <1>0, <1>13 DEF PruneRows, BuildState, BuildPcs
  <2>2. sweep' \in [Sweepers -> SweepState]
    BY <1>13, StartSweepType DEF PruneRows
  <2> QED
    BY <1>13, <2>1, <2>2 DEF PruneRows
<1>14. CASE FinishBuild
  BY <1>14, RestStates DEF FinishBuild
<1> QED
  BY <1>1, <1>2, <1>3, <1>4, <1>5, <1>6, <1>7, <1>8, <1>9, <1>10, <1>11, <1>12,
     <1>13, <1>14 DEF BuildStep

\* And every request, query and restart.
LEMMA OtherType ==
    ASSUME TypeOK, Promises,
           \/ StartBuild \/ EditFormula \/ EditReports \/ Restart
           \/ \E d \in Drops : Request(d) \/ FinishDrop(d)
           \/ \E q \in Queries : ReadTables(q) \/ \E ks \in (SUBSET Keys) \ {{}} : PickRows(q, ks)
    PROVE  TypeOK'
<1> USE DEF TypeOK, store, world
<1>1. CASE StartBuild
  <2>1. build' = [NoBuild EXCEPT !.pc = "next", !.plan = wanted, !.todo = wanted,
                                 !.formula = formula]
    BY <1>1 DEF StartBuild
  <2>2. wanted \subseteq Keys
    BY PlanAssumption DEF PlanAssumption
  <2>3. build' \in BuildState
    BY <2>1, <2>2, RestStates DEF BuildState, BuildPcs
  <2> QED
    BY <1>1, <2>3, BoundsAssumption DEF StartBuild, BoundsAssumption
<1>2. CASE EditFormula \/ EditReports
  BY <1>2, BoundsAssumption DEF EditFormula, EditReports, BoundsAssumption
<1>3. CASE Restart
  <2>1. tables' \in [Gens -> Tables]
    BY <1>3, RestStates DEF Restart
  <2> QED
    BY <1>3, <2>1, RestStates DEF Restart
<1>4. ASSUME NEW d \in Drops, Request(d) \/ FinishDrop(d) PROVE TypeOK'
  <2>0. d \in Sweepers
    BY DEF Sweepers
  <2>1. CASE EditModel(d)
    <3>1. model' \in 1..MaxModel
      BY <2>1, BoundsAssumption DEF EditModel, ReviseModel, BoundsAssumption
    <3>2. [pc |-> "all", ver |-> model'] \in DropState
      BY <3>1 DEF DropState
    <3> QED
      BY <2>0, <2>1, <3>1, <3>2, StartSweepType DEF EditModel, DropAll
  <2>2. CASE EditDatasource(d)
    <3>1. model' \in 1..MaxModel
      BY <2>2, BoundsAssumption DEF EditDatasource, ReviseModel, BoundsAssumption
    <3>2. [pc |-> "queued", ver |-> model'] \in DropState
      BY <3>1 DEF DropState
    <3> QED
      BY <2>2, <3>1, <3>2 DEF EditDatasource
  <2>3. CASE ReachModel(d)
    <3>1. [pc |-> "all", ver |-> drop[d].ver] \in DropState
      BY <2>3 DEF DropState
    <3> QED
      BY <2>0, <2>3, <3>1, StartSweepType DEF ReachModel, DropAll
  <2>4. CASE ClearWorkspace(d)
    <3>1. [pc |-> "all", ver |-> model] \in DropState
      BY <2>4 DEF DropState
    <3> QED
      BY <2>0, <2>4, <3>1, StartSweepType DEF ClearWorkspace, DropAll
  <2>5. ASSUME NEW g, DropRollup(d, g) PROVE TypeOK'
    <3>1. [pc |-> "grain", ver |-> 0] \in DropState
      BY BoundsAssumption DEF DropState, BoundsAssumption
    <3> QED
      BY <2>0, <2>5, <3>1, StartSweepType DEF DropRollup
  <2>6. CASE FinishDrop(d)
    <3>1. settled' \in 0..MaxModel
      BY <2>6 DEF FinishDrop, DropState
    <3> QED
      BY <2>0, <2>6, <3>1, RestStates DEF FinishDrop
  <2> QED
    BY <1>4, <2>1, <2>2, <2>3, <2>4, <2>5, <2>6 DEF Request
<1>5. ASSUME NEW q \in Queries, NEW ks \in (SUBSET Keys) \ {{}}, PickRows(q, ks)
      PROVE  TypeOK'
  <2> DEFINE said == [k \in Keys |-> IF k \in ks THEN manifest[k].data ELSE NoTable]
  <2>1. \A k \in ks : manifest[k].data \in Table
    BY <1>5, EmptyIsTable DEF PickRows, Row
  <2>2. said \in Tables
    BY <2>1 DEF Tables
  <2>3. PICK g \in Gens :
          /\ OpenDb(g)
          /\ query' = [query EXCEPT ![q] =
               [NoQuery EXCEPT !.pc = "reading", !.gen = g, !.keys = ks, !.promised = said]]
    BY <1>5 DEF PickRows
  <2>4. [NoQuery EXCEPT !.pc = "reading", !.gen = g, !.keys = ks, !.promised = said]
          \in QueryState
    BY <2>2, RestStates DEF QueryState
  <2>5. query' \in [Queries -> QueryState]
    BY <2>3, <2>4
  <2>6. onDisk' \subseteq Gens /\ open' \subseteq Gens
    BY <2>3 DEF OpenDb
  <2> QED
    BY <1>5, <2>5, <2>6 DEF PickRows
<1>6. ASSUME NEW q \in Queries, ReadTables(q) PROVE TypeOK'
  <2> DEFINE held == tables[query[q].gen]
             read == [k \in Keys |-> IF k \in query[q].keys THEN held[k] ELSE NoTable]
  <2>1. CASE query' = [query EXCEPT ![q] = NoQuery]
    BY <1>6, <2>1, RestStates DEF ReadTables
  <2>2. CASE /\ \A k \in query[q].keys : held[k] # NoTable
             /\ query' = [query EXCEPT ![q].pc = "hit", ![q].got = read]
    <3>1. query[q].gen \in Gens
      BY <1>6 DEF ReadTables, Promises
    <3>2. read \in Tables
      BY <3>1 DEF Tables
    <3>3. [query[q] EXCEPT !.pc = "hit", !.got = read] \in QueryState
      BY <3>2 DEF QueryState
    <3> QED
      BY <1>6, <2>2, <3>3 DEF ReadTables
  <2> QED
    BY <1>6, <2>1, <2>2 DEF ReadTables
<1> QED
  BY <1>1, <1>2, <1>3, <1>4, <1>5, <1>6

LEMMA TypeStep == TypeOK /\ Item /\ Promises /\ [Next]_vars => TypeOK'
<1> SUFFICES ASSUME TypeOK, Item, Promises, [Next]_vars PROVE TypeOK'
  OBVIOUS
<1>1. ASSUME NEW p \in Sweepers, SweepStep(p) PROVE TypeOK'
  BY <1>1, SweepType DEF TypeOK, SweepStep, CloseGen, UnlinkGen, RemoveClosed, world
<1>2. CASE UNCHANGED vars
  BY <1>2 DEF TypeOK, vars, world, store
<1> QED
  BY <1>1, <1>2, BuildType, OtherType DEF Next

-----------------------------------------------------------------------------
(* The invariant. *)

LEMMA InvInit == Init => IInv
<1> SUFFICES ASSUME Init PROVE IInv
  OBVIOUS
<1>1. TypeOK
  BY TypeInit
<1> QED
  BY <1>1 DEF Init, IInv, RowsBehind, WriterAlone, Pending, Fresh, Item, ItemPcs, ColdSource,
     ServedFaithfully, Served, Backing, Promises, OnlyAsked, HitsAreWhole, NoBuild, NoQuery

\* Sweeps and drops only take away: rows vanish, tables vanish, and neither the
\* build in flight nor the queries have moved.
Shrinks ==
    /\ \A k \in Keys : manifest'[k] \in {manifest[k], NoRow}
    /\ \A g \in Gens, k \in Keys : tables'[g][k] \in {tables[g][k], NoTable}
    /\ UNCHANGED <<lastGen, build, query>>

LEMMA ShrinkStep ==
    ASSUME IInv, TypeOK', Shrinks
    PROVE  IInv'
<1> USE DEF IInv, Shrinks
<1>1. \A k \in Keys : manifest[k] # NoRow => manifest[k].gen \in Gens
  BY DEF TypeOK, Row
<1>2. RowsBehind'
  BY DEF RowsBehind
<1>3. WriterAlone'
  BY DEF WriterAlone, Pending
<1>4. Item' /\ Fresh'
  BY DEF Item, ItemPcs, Fresh
<1>5. ColdSource'
  <2> SUFFICES ASSUME build.pc \in {"ask", "create", "insert", "copy"}, build.from # 0
               PROVE  /\ build.from < lastGen
                      /\ tables'[build.from][build.key] \in Complete \cup {NoTable}
    BY DEF ColdSource
  <2>1. build.from \in Gens /\ build.key \in Keys
    BY DEF TypeOK, BuildState, Item, ItemPcs
  <2> QED
    BY <2>1 DEF ColdSource
<1>6. ServedFaithfully'
  BY <1>1 DEF ServedFaithfully, Served, Backing
<1>7. Promises'
  BY DEF Promises, Pending, TypeOK, QueryState
<1>8. HitsAreWhole' /\ OnlyAsked'
  BY DEF HitsAreWhole, OnlyAsked
<1> QED
  BY <1>2, <1>3, <1>4, <1>5, <1>6, <1>7, <1>8

LEMMA SweepsShrink ==
    ASSUME TypeOK, NEW p \in Sweepers, SweepStep(p)
    PROVE  Shrinks
<1> USE DEF Forget, Unlink, Blank, TypeOK, world
<1>1. CASE CloseGen(p)
  BY <1>1 DEF CloseGen, Shrinks
<1>2. CASE UnlinkGen(p)
  BY <1>2 DEF UnlinkGen, Shrinks
<1>3. CASE RemoveClosed(p)
  BY <1>3 DEF RemoveClosed, Shrinks
<1> QED
  BY <1>1, <1>2, <1>3 DEF SweepStep

LEMMA DropsShrink ==
    ASSUME TypeOK, NEW d \in Drops, Request(d) \/ FinishDrop(d)
    PROVE  Shrinks
<1> USE DEF TypeOK, store, world, Shrinks
<1>1. CASE EditModel(d) \/ EditDatasource(d) \/ ReachModel(d) \/ ClearWorkspace(d)
  BY <1>1 DEF EditModel, EditDatasource, ReachModel, ClearWorkspace
<1>2. ASSUME NEW g, DropRollup(d, g) PROVE Shrinks
  BY <1>2 DEF DropRollup
<1>3. CASE FinishDrop(d)
  BY <1>3 DEF FinishDrop
<1> QED
  BY <1>1, <1>2, <1>3 DEF Request

\* A step of the builder that flips no row: rows only vanish, no key becomes
\* pending, and only pending tables of its own generation are written.
Works ==
    /\ \A k \in Keys : manifest'[k] \in {manifest[k], NoRow}
    /\ \A k \in Keys : Pending(k)' => Pending(k)
    /\ \A g \in Gens, k \in Keys :
         g # lastGen \/ ~Pending(k) => tables'[g][k] \in {tables[g][k], NoTable}
    /\ UNCHANGED <<lastGen, query>>

LEMMA WorkStep ==
    ASSUME IInv, TypeOK', Works
    PROVE  /\ RowsBehind' /\ WriterAlone' /\ ServedFaithfully'
           /\ Promises' /\ OnlyAsked' /\ HitsAreWhole'
<1> USE DEF IInv, Works
<1>1. \A k \in Keys : manifest[k] # NoRow => manifest[k].gen \in Gens
  BY DEF TypeOK, Row
<1>2. RowsBehind'
  BY DEF RowsBehind
<1>3. WriterAlone'
  BY DEF WriterAlone
<1>4. ServedFaithfully'
  BY <1>1 DEF ServedFaithfully, Served, Backing, WriterAlone
<1>5. Promises'
  BY DEF Promises, TypeOK, QueryState
<1>6. HitsAreWhole' /\ OnlyAsked'
  BY DEF HitsAreWhole, OnlyAsked
<1> QED
  BY <1>2, <1>3, <1>4, <1>5, <1>6

\* The steps of an item up to the landed table, and those between items.
LEMMA BuildWorks ==
    ASSUME TypeOK, Item, BuildStep, ~Upsert
    PROVE  Works
<1> USE DEF TypeOK, store, Works, Pending, Gen
<1>0. build \in BuildState /\ build.todo \subseteq Keys
  BY DEF BuildState
<1>1. CASE BeginItem
  <2>1. PICK k \in build.todo :
          build' = [build EXCEPT !.pc = "plan", !.key = k, !.todo = build.todo \ {k},
                      !.outputs = ShapeOf[[model |-> model, formula |-> build.formula]]]
    BY <1>1 DEF BeginItem
  <2>2. build'.todo \subseteq build.todo /\ build'.key \in build.todo
    BY <1>0, <2>1 DEF BuildState
  <2> QED
    BY <1>1, <2>2 DEF BeginItem
<1>2. CASE SkipItem \/ PlanItem \/ Ask \/ ItemFails
  <2>1. build'.todo = build.todo /\ build'.key \in {build.key, NoKey}
    BY <1>0, <1>2 DEF SkipItem, PlanItem, Ask, ItemFails, BuildState
  <2> QED
    BY <1>2, <2>1, NoneAssumption DEF SkipItem, PlanItem, Ask, ItemFails, NoneAssumption
<1>3. CASE CreateTable \/ InsertRows \/ CopyCold \/ FallBack
  <2>1. build'.todo = build.todo /\ build'.key = build.key /\ build.pc # "idle"
    BY <1>0, <1>3 DEF CreateTable, InsertRows, CopyCold, FallBack, BuildState
  <2>2. lastGen \in Gens
    BY <2>1 DEF Item
  <2>3. \A g \in Gens, k \in Keys :
          g # lastGen \/ k # build.key => tables'[g][k] = tables[g][k]
    BY <1>3, <2>2 DEF CreateTable, InsertRows, CopyCold, FallBack, PutTable, Tables
  <2> QED
    BY <1>3, <2>1, <2>3 DEF CreateTable, InsertRows, CopyCold, FallBack
<1>4. CASE Checkpoint \/ PruneRows
  <2>1. build'.todo = build.todo /\ build'.key = build.key /\ build.pc # "idle"
    BY <1>0, <1>4 DEF Checkpoint, PruneRows, BuildState
  <2> QED
    BY <1>4, <2>1 DEF Checkpoint, PruneRows
<1>5. CASE EndWithoutResult \/ FinishBuild
  <2>1. build'.pc = "idle"
    BY <1>5 DEF EndWithoutResult, FinishBuild, NoBuild
  <2> QED
    BY <1>5, <2>1 DEF EndWithoutResult, FinishBuild
<1> QED
  BY <1>1, <1>2, <1>3, <1>4, <1>5 DEF BuildStep

\* What the next step of an item needs is there when the previous one ends.
LEMMA BuildKnows ==
    ASSUME IInv, BuildStep, TypeOK'
    PROVE  Item' /\ ColdSource'
<1> USE DEF TypeOK, store, Gen, IInv
<1>0. build \in BuildState /\ build.todo \subseteq Keys
  BY DEF BuildState
<1>1. CASE BeginItem
  <2>1. PICK k \in build.todo :
          build' = [build EXCEPT !.pc = "plan", !.key = k, !.todo = build.todo \ {k},
                      !.outputs = ShapeOf[[model |-> model, formula |-> build.formula]]]
    BY <1>1 DEF BeginItem
  <2>2. build'.pc = "plan" /\ build'.key \in Keys
    BY <1>0, <2>1 DEF BuildState
  <2> QED
    BY <1>1, <2>2 DEF BeginItem, Item, ItemPcs, ColdSource
<1>2. CASE SkipItem \/ ItemFails \/ Upsert \/ EndWithoutResult \/ Checkpoint \/ PruneRows
           \/ FinishBuild
  <2>1. build'.pc \in {"next", "idle", "prune", "sweep"}
    <3>1. CASE EndWithoutResult \/ FinishBuild
      BY <3>1 DEF EndWithoutResult, FinishBuild, NoBuild
    <3>2. CASE SkipItem \/ ItemFails \/ Upsert \/ Checkpoint \/ PruneRows
      BY <1>0, <3>2 DEF SkipItem, ItemFails, Upsert, Checkpoint, PruneRows, BuildState
    <3> QED
      BY <1>2, <3>1, <3>2
  <2>2. build.pc # "idle" /\ lastGen' = lastGen
    BY <1>2 DEF SkipItem, ItemFails, Upsert, EndWithoutResult, Checkpoint, PruneRows, FinishBuild
  <2> QED
    BY <2>1, <2>2 DEF Item, ItemPcs, ColdSource
<1>3. CASE PlanItem
  <2>1. /\ build.pc = "plan" /\ build'.pc = "ask" /\ build'.key = build.key
        /\ build'.from # 0 =>
             manifest[build.key] # NoRow /\ build'.from = manifest[build.key].gen
        /\ UNCHANGED <<lastGen, tables, manifest>>
    BY <1>0, <1>3 DEF PlanItem, BuildState
  <2>2. build.key \in Keys /\ lastGen \in Gens
    BY <2>1 DEF Item, ItemPcs
  <2>3. ASSUME build'.from # 0
        PROVE  /\ build'.from < lastGen
               /\ tables[build'.from][build.key] \in Complete \cup {NoTable}
    <3>1. manifest[build.key] \in Row /\ manifest[build.key].gen # lastGen
      BY <2>1, <2>2, <2>3 DEF WriterAlone, Pending
    <3>2. manifest[build.key].gen <= lastGen /\ manifest[build.key].gen \in Gens
      BY <2>1, <2>2, <2>3, <3>1 DEF RowsBehind, Row
    <3>3. tables[build'.from][build.key] \in {manifest[build.key].data, NoTable}
      BY <2>1, <2>2, <2>3 DEF ServedFaithfully, Served, Backing
    <3> QED
      BY <2>1, <2>2, <2>3, <3>1, <3>2, <3>3 DEF Row, Gens
  <2> QED
    BY <2>1, <2>2, <2>3 DEF Item, ItemPcs, ColdSource
<1>4. CASE Ask
  <2>1. /\ build.pc = "ask" /\ build'.pc = "create"
        /\ build'.key = build.key /\ build'.from = build.from
        /\ build'.rows = [model |-> model, formula |-> build.formula]
        /\ UNCHANGED <<lastGen, tables>>
    BY <1>0, <1>4 DEF Ask, BuildState
  <2>2. build'.rows \in Stamps
    BY <1>0, <2>1 DEF Stamps, BuildState
  <2> QED
    BY <2>1, <2>2 DEF Item, ItemPcs, ColdSource
<1>5. CASE CreateTable
  <2>1. /\ build.pc = "create" /\ build'.pc = "insert" /\ build'.key = build.key
        /\ build'.from = build.from /\ build'.rows = build.rows /\ lastGen' = lastGen
    BY <1>0, <1>5 DEF CreateTable, BuildState
  <2>2. ASSUME build.from # 0
        PROVE  tables'[build.from][build.key] = tables[build.from][build.key]
    BY <1>0, <1>5, <2>1, <2>2 DEF CreateTable, PutTable, ColdSource, BuildState, Gens
  <2> QED
    BY <2>1, <2>2 DEF Item, ItemPcs, ColdSource
<1>6. CASE InsertRows
  <2>1. /\ build.pc = "insert" /\ build'.key = build.key /\ build'.from = build.from
        /\ build'.pc = (IF build.from = 0 THEN "upsert" ELSE "copy")
        /\ build'.data = Landed /\ lastGen' = lastGen
    BY <1>0, <1>6 DEF InsertRows, BuildState
  <2>2. build.rows \in Stamps /\ build.key \in Keys /\ lastGen \in Gens
    BY <2>1 DEF Item, ItemPcs
  <2>3. build.from = 0 => Landed \in Complete
    BY <2>2 DEF Landed, Complete
  <2>4. Landed.hot \in Stamps
    BY <2>2 DEF Landed
  <2>5. tables'[lastGen][build.key] \in {NoTable, Landed}
    BY <1>6, <2>2 DEF InsertRows, PutTable, Tables
  <2>6. ASSUME build.from # 0
        PROVE  tables'[build.from][build.key] = tables[build.from][build.key]
    BY <1>0, <1>6, <2>1, <2>6 DEF InsertRows, PutTable, ColdSource, BuildState, Gens
  <2>7. Item'
    BY <2>1, <2>2, <2>3, <2>4, <2>5 DEF Item, ItemPcs
  <2>8. ColdSource'
    BY <2>1, <2>6 DEF ColdSource
  <2> QED
    BY <2>7, <2>8
<1>7. CASE CopyCold
  <2> DEFINE old == tables[build.from][build.key]
             whole == [build.data EXCEPT !.cold = old.cold]
  <2>1. /\ build.pc = "copy" /\ build'.pc = "upsert" /\ build'.key = build.key
        /\ build'.data = whole /\ lastGen' = lastGen /\ old # NoTable
    BY <1>0, <1>7 DEF CopyCold, BuildState
  <2>2. build.key \in Keys /\ lastGen \in Gens /\ build.data.hot \in Stamps /\ build.from # 0
    BY <2>1 DEF Item, ItemPcs
  <2>3. old \in Complete
    BY <2>1, <2>2 DEF ColdSource
  <2>4. whole \in Complete
    BY <1>0, <2>2, <2>3 DEF Complete, BuildState, Table
  <2>5. tables'[lastGen][build.key] = whole
    BY <1>7, <2>2 DEF CopyCold, PutTable, Tables
  <2> QED
    BY <2>1, <2>2, <2>4, <2>5 DEF Item, ItemPcs, ColdSource
<1>8. CASE FallBack
  <2>1. /\ build.pc \in ItemPcs /\ build'.pc = "ask" /\ build'.key = build.key
        /\ build'.from = 0 /\ lastGen' = lastGen
    BY <1>0, <1>8 DEF FallBack, BuildState, ItemPcs
  <2> QED
    BY <2>1 DEF Item, ItemPcs, ColdSource
<1> QED
  BY <1>1, <1>2, <1>3, <1>4, <1>5, <1>6, <1>7, <1>8 DEF BuildStep

LEMMA FreshStep ==
    ASSUME TypeOK, Fresh, BuildStep
    PROVE  Fresh'
<1> USE DEF Fresh
<1>0. build \in BuildState
  BY DEF TypeOK
<1>1. CASE BeginItem
  <2>1. PICK k \in build.todo :
          build' = [build EXCEPT !.pc = "plan", !.key = k, !.todo = build.todo \ {k},
                      !.outputs = ShapeOf[[model |-> model, formula |-> build.formula]]]
    BY <1>1 DEF BeginItem
  <2>2. build'.key = k /\ build'.todo = build.todo \ {k}
    BY <1>0, <2>1 DEF BuildState
  <2> QED
    BY <2>2
<1>2. CASE SkipItem \/ ItemFails \/ Upsert
  <2>1. build'.key = NoKey
    BY <1>0, <1>2 DEF SkipItem, ItemFails, Upsert, BuildState
  <2> QED
    BY <2>1, NoneAssumption DEF NoneAssumption
<1>3. CASE EndWithoutResult \/ FinishBuild
  <2>1. build'.key = NoKey
    BY <1>3 DEF EndWithoutResult, FinishBuild, NoBuild
  <2> QED
    BY <2>1, NoneAssumption DEF NoneAssumption
<1>4. CASE PlanItem \/ Ask \/ CreateTable \/ InsertRows \/ CopyCold \/ FallBack
           \/ Checkpoint \/ PruneRows
  <2>1. build'.key = build.key /\ build'.todo = build.todo
    BY <1>0, <1>4 DEF PlanItem, Ask, CreateTable, InsertRows, CopyCold, FallBack,
       Checkpoint, PruneRows, BuildState
  <2> QED
    BY <2>1
<1> QED
  BY <1>1, <1>2, <1>3, <1>4 DEF BuildStep

\* The flip: the key leaves the pending ones as its finished table is named.
LEMMA UpsertStep ==
    ASSUME IInv, TypeOK', Upsert
    PROVE  /\ RowsBehind' /\ WriterAlone' /\ ServedFaithfully'
           /\ Promises' /\ OnlyAsked' /\ HitsAreWhole'
<1> USE DEF IInv, Gen, store
<1> DEFINE row == [gen |-> lastGen, shape |-> build.outputs, data |-> build.data]
<1>1. /\ build.key \in Keys /\ lastGen \in Gens /\ build.pc = "upsert"
      /\ tables[lastGen][build.key] \in {NoTable, build.data}
  BY DEF Upsert, Item, ItemPcs
<1>2. /\ build'.pc = "next" /\ build'.key = NoKey /\ build'.todo = build.todo
      /\ manifest'[build.key] = row
      /\ \A k \in Keys : k # build.key => manifest'[k] = manifest[k]
      /\ UNCHANGED <<lastGen, tables, query>>
  BY <1>1 DEF Upsert, TypeOK, BuildState
<1>3. \A k \in Keys : Pending(k)' => Pending(k) /\ k \in build.todo
  BY <1>1, <1>2, NoneAssumption DEF Pending, NoneAssumption
<1>4. build.key \notin build.todo
  BY <1>1 DEF Fresh
<1>5. RowsBehind'
  BY <1>1, <1>2 DEF RowsBehind, TypeOK
<1>6. WriterAlone'
  BY <1>2, <1>3, <1>4 DEF WriterAlone
<1>7. ServedFaithfully'
  BY <1>1, <1>2 DEF ServedFaithfully, Served, Backing
<1>8. Promises'
  BY <1>2, <1>3 DEF Promises, TypeOK, QueryState
<1>9. HitsAreWhole' /\ OnlyAsked'
  BY <1>2 DEF HitsAreWhole, OnlyAsked
<1> QED
  BY <1>5, <1>6, <1>7, <1>8, <1>9

LEMMA StartStep ==
    ASSUME IInv, TypeOK', StartBuild
    PROVE  IInv'
<1> USE DEF IInv, store
<1>1. /\ lastGen \in Nat /\ lastGen' = lastGen + 1 /\ lastGen' \in Gens
      /\ UNCHANGED <<manifest, tables, query>>
      /\ build'.pc = "next" /\ build'.key = NoKey
  BY BoundsAssumption DEF StartBuild, NoBuild, TypeOK, BoundsAssumption, Gens
<1>2. \A k \in Keys : manifest[k] # NoRow => manifest[k].gen \in Gens
  BY DEF TypeOK, Row
<1>3. \A q \in Queries : query[q].gen \in Gens \cup {0}
  BY DEF TypeOK, QueryState
<1>4. RowsBehind'
  BY <1>1, <1>2 DEF RowsBehind, Gens
<1>5. WriterAlone'
  BY <1>1, <1>2 DEF WriterAlone, RowsBehind, Gens
<1>6. Item' /\ ColdSource'
  BY <1>1 DEF Item, ItemPcs, ColdSource
<1>7. ServedFaithfully'
  BY <1>1 DEF ServedFaithfully, Served, Backing
<1>8. Promises'
  BY <1>1, <1>3 DEF Promises, Gens
<1>9. HitsAreWhole' /\ OnlyAsked'
  BY <1>1 DEF HitsAreWhole, OnlyAsked
<1>10. Fresh'
  BY <1>1, NoneAssumption DEF Fresh, TypeOK, BuildState, NoneAssumption
<1> QED
  BY <1>4, <1>5, <1>6, <1>7, <1>8, <1>9, <1>10

LEMMA PickStep ==
    ASSUME IInv, TypeOK', NEW q \in Queries, NEW ks \in (SUBSET Keys) \ {{}}, PickRows(q, ks)
    PROVE  IInv'
<1> USE DEF IInv, world
<1>1. PICK g \in Gens :
        /\ \A k \in ks : manifest[k].gen = g
        /\ query' = [query EXCEPT ![q] =
             [NoQuery EXCEPT !.pc = "reading", !.gen = g, !.keys = ks,
                !.promised = [k \in Keys |-> IF k \in ks THEN manifest[k].data ELSE NoTable]]]
  BY DEF PickRows
<1>2. /\ UNCHANGED <<manifest, lastGen, tables, build>>
      /\ \A k \in ks : k \in Keys /\ manifest[k] # NoRow
  BY DEF PickRows
<1>3. /\ query'[q].pc = "reading" /\ query'[q].gen = g /\ query'[q].keys = ks
      /\ \A k \in Keys : query'[q].promised[k] = IF k \in ks THEN manifest[k].data
                                                              ELSE NoTable
      /\ \A r \in Queries : r # q => query'[r] = query[r]
  <2> DEFINE said == [k \in Keys |-> IF k \in ks THEN manifest[k].data ELSE NoTable]
             new == [NoQuery EXCEPT !.pc = "reading", !.gen = g, !.keys = ks, !.promised = said]
  <2>1. query'[q] = new /\ \A r \in Queries : r # q => query'[r] = query[r]
    BY <1>1 DEF TypeOK
  <2>2. new.pc = "reading" /\ new.gen = g /\ new.keys = ks /\ new.promised = said
    BY DEF NoQuery
  <2> QED
    BY <1>2, <2>1, <2>2
<1>4. g <= lastGen
  BY <1>1, <1>2 DEF RowsBehind
<1>5. \A k \in ks : /\ manifest[k].data \in Complete
                    /\ tables[g][k] \in {NoTable, manifest[k].data}
                    /\ g = lastGen => ~Pending(k)
  BY <1>1, <1>2 DEF ServedFaithfully, Served, Backing, WriterAlone, TypeOK, Row
<1>6. Promises'
  BY <1>1, <1>2, <1>3, <1>4, <1>5 DEF Promises, Pending
<1>7. HitsAreWhole' /\ OnlyAsked'
  BY <1>3 DEF HitsAreWhole, OnlyAsked
<1>8. RowsBehind' /\ WriterAlone' /\ Item' /\ ColdSource' /\ ServedFaithfully' /\ Fresh'
  BY <1>2 DEF RowsBehind, WriterAlone, Pending, Item, ColdSource, ServedFaithfully, Served,
     Backing, Fresh
<1> QED
  BY <1>6, <1>7, <1>8

LEMMA ReadStep ==
    ASSUME IInv, TypeOK', NEW q \in Queries, ReadTables(q)
    PROVE  IInv'
<1> USE DEF IInv, world, store
<1>1. UNCHANGED <<manifest, lastGen, tables, build>>
  BY DEF ReadTables
<1>2. /\ query'[q].pc # "reading"
      /\ query'[q].pc = "hit" =>
           /\ query'[q].keys = query[q].keys /\ query'[q].promised = query[q].promised
           /\ \A k \in query[q].keys : query'[q].got[k] = query[q].promised[k]
      /\ \A r \in Queries : r # q => query'[r] = query[r]
  <2> DEFINE held == tables[query[q].gen]
             read == [k \in Keys |-> IF k \in query[q].keys THEN held[k] ELSE NoTable]
  <2>1. query[q].keys \subseteq Keys /\ query[q].pc = "reading"
    BY DEF TypeOK, QueryState, ReadTables
  <2>2. CASE query' = [query EXCEPT ![q] = NoQuery]
    BY <2>2 DEF TypeOK, NoQuery
  <2>3. CASE /\ \A k \in query[q].keys : held[k] # NoTable
             /\ query' = [query EXCEPT ![q].pc = "hit", ![q].got = read]
    <3>1. query'[q] = [query[q] EXCEPT !.pc = "hit", !.got = read]
      BY <2>3 DEF TypeOK
    <3>2. \A k \in query[q].keys : held[k] = query[q].promised[k]
      BY <2>1, <2>3 DEF Promises
    <3>3. \A k \in query[q].keys : read[k] = query[q].promised[k]
      BY <2>1, <3>2
    <3>4. /\ query'[q].pc = "hit" /\ query'[q].got = read
          /\ query'[q].keys = query[q].keys /\ query'[q].promised = query[q].promised
      BY <3>1 DEF TypeOK, QueryState
    <3> QED
      BY <2>3, <3>3, <3>4 DEF TypeOK
  <2> QED
    BY <2>2, <2>3 DEF ReadTables
<1>3. Promises'
  BY <1>1, <1>2 DEF Promises, Pending
<1>4. HitsAreWhole' /\ OnlyAsked'
  BY <1>2 DEF HitsAreWhole, OnlyAsked
<1>5. RowsBehind' /\ WriterAlone' /\ Item' /\ ColdSource' /\ ServedFaithfully' /\ Fresh'
  BY <1>1 DEF RowsBehind, WriterAlone, Pending, Item, ColdSource, ServedFaithfully, Served,
     Backing, Fresh
<1> QED
  BY <1>3, <1>4, <1>5

LEMMA RestartStep ==
    ASSUME IInv, TypeOK', Restart
    PROVE  IInv'
<1> USE DEF IInv, world
<1>1. /\ UNCHANGED <<manifest, lastGen>>
      /\ build' = NoBuild
      /\ \A q \in Queries : query'[q].pc = "idle"
      /\ \A g \in Gens, k \in Keys : tables'[g][k] \in {tables[g][k], NoTable}
  BY DEF Restart, NoQuery, Blank, TypeOK
<1>2. build'.pc = "idle"
  BY <1>1 DEF NoBuild
<1>3. \A k \in Keys : manifest[k] # NoRow => manifest[k].gen \in Gens
  BY DEF TypeOK, Row
<1>4. RowsBehind' /\ WriterAlone' /\ Item' /\ ColdSource'
  BY <1>1, <1>2 DEF RowsBehind, WriterAlone, Pending, Item, ItemPcs, ColdSource
<1>5. Promises' /\ OnlyAsked' /\ HitsAreWhole'
  BY <1>1 DEF Promises, OnlyAsked, HitsAreWhole
<1>6. Fresh'
  BY <1>1 DEF NoBuild, Fresh
<1>7. ServedFaithfully'
  BY <1>1, <1>3 DEF ServedFaithfully, Served, Backing
<1> QED
  BY <1>4, <1>5, <1>6, <1>7

LEMMA InvStep == IInv /\ [Next]_vars => IInv'
<1> SUFFICES ASSUME IInv, [Next]_vars PROVE IInv'
  OBVIOUS
<1>0. TypeOK'
  BY TypeStep DEF IInv
<1>1. ASSUME NEW p \in Sweepers, SweepStep(p) PROVE IInv'
  BY <1>0, <1>1, SweepsShrink, ShrinkStep DEF IInv
<1>2. ASSUME NEW d \in Drops, Request(d) \/ FinishDrop(d) PROVE IInv'
  BY <1>0, <1>2, DropsShrink, ShrinkStep DEF IInv
<1>3. CASE EditFormula \/ EditReports \/ UNCHANGED vars
  <2>1. Shrinks
    BY <1>3 DEF EditFormula, EditReports, vars, Shrinks, store
  <2> QED
    BY <1>0, <2>1, ShrinkStep
<1>4. CASE StartBuild
  BY <1>0, <1>4, StartStep
<1>5. CASE BuildStep
  <2>1. Item' /\ ColdSource' /\ Fresh'
    BY <1>0, <1>5, BuildKnows, FreshStep DEF IInv
  <2>2. CASE Upsert
    BY <1>0, <2>1, <2>2, UpsertStep DEF IInv
  <2>3. CASE ~Upsert
    <3>1. Works
      BY <1>5, <2>3, BuildWorks DEF IInv
    <3> QED
      BY <1>0, <2>1, <3>1, WorkStep DEF IInv
  <2> QED
    BY <2>2, <2>3
<1>6. ASSUME NEW q \in Queries, NEW ks \in (SUBSET Keys) \ {{}}, PickRows(q, ks) PROVE IInv'
  BY <1>0, <1>6, PickStep
<1>7. ASSUME NEW q \in Queries, ReadTables(q) PROVE IInv'
  BY <1>0, <1>7, ReadStep
<1>8. CASE Restart
  BY <1>0, <1>8, RestartStep
<1> QED
  BY <1>1, <1>2, <1>3, <1>4, <1>5, <1>6, <1>7, <1>8 DEF Next

THEOREM Invariance == Spec => []IInv
<1> QED
  BY InvInit, InvStep, PTL DEF Spec

-----------------------------------------------------------------------------
(* The results. *)

\* Every state of the store is well-typed: in particular no row ever names a
\* table of which a part was not landed.
THEOREM TypeCorrect == Spec => []TypeOK
<1>1. IInv => TypeOK
  BY DEF IInv
<1> QED
  BY <1>1, Invariance, PTL

\* Whatever sweeps, drops, fallbacks and restarts do, the table a row names is
\* the finished one its build landed, or is not there.
THEOREM ServedIsFinished == Spec => []ServedFaithfully
<1>1. IInv => ServedFaithfully
  BY DEF IInv
<1> QED
  BY <1>1, Invariance, PTL

\* A query answered from the rollups got, for every fact, what the manifest
\* promised before the await.
THEOREM HitsAreFinished == Spec => []HitsAreWhole
<1>1. IInv => HitsAreWhole
  BY DEF IInv
<1> QED
  BY <1>1, Invariance, PTL

-----------------------------------------------------------------------------
(* The store implements RollupServing. *)

\* What the mapping makes of the manifest and of a query.
Shown == [k \in Keys |-> IF manifest[k] = NoRow THEN NoRow ELSE manifest[k].data]
AskedBy(q) ==
    [pc |-> query[q].pc,
     said |-> [k \in Keys |-> ResultOf(IF query[q].pc = "hit" THEN query[q].got[k]
                                                             ELSE query[q].promised[k])]]
Asked == [q \in Queries |-> AskedBy(q)]

LEMMA MapInit == Init => Serving!Init
<1> SUFFICES ASSUME Init PROVE Serving!Init
  OBVIOUS
<1>1. Shown = [k \in Keys |-> NoRow]
  BY DEF Init, Shown
<1>2. \A q \in Queries : AskedBy(q) = Serving!Silent
  BY DEF Init, AskedBy, NoQuery, Blank, ResultOf, Serving!Silent
<1> QED
  BY <1>1, <1>2 DEF Serving!Init, Shown, AskedBy

\* A step that only takes rows away retracts them.
LEMMA MapRetract ==
    ASSUME TypeOK, TypeOK', \A k \in Keys : manifest'[k] \in {manifest[k], NoRow}, query' = query
    PROVE  Serving!Retract
<1> DEFINE gone == {k \in Keys : manifest'[k] = NoRow}
<1>1. Shown' = [k \in Keys |-> IF k \in gone THEN NoRow ELSE Shown[k]]
  BY DEF Shown
<1>2. Asked' = Asked
  BY DEF Asked, AskedBy
<1>3. gone \in SUBSET Keys
  OBVIOUS
<1> QED
  BY <1>1, <1>2, <1>3 DEF Serving!Retract, Shown, Asked, AskedBy

LEMMA MapUpsert ==
    ASSUME IInv, Upsert
    PROVE  Serving!Publish
<1> USE DEF IInv, TypeOK
<1>1. build.key \in Keys /\ build.data \in Complete
  BY DEF Upsert, Item, ItemPcs
<1> DEFINE row == [gen |-> lastGen, shape |-> build.outputs, data |-> build.data]
<1>2. manifest' = [manifest EXCEPT ![build.key] = row] /\ query' = query
  BY DEF Upsert, Gen
<1>3. row # NoRow
  <2>1. row \in Row
    BY <1>1 DEF Upsert, Item, Row, BuildState
  <2> QED
    BY <2>1, NoneAssumption DEF NoneAssumption
<1>4. Shown' = [Shown EXCEPT ![build.key] = build.data]
  BY <1>1, <1>2, <1>3 DEF Shown
<1>5. Asked' = Asked
  BY <1>2 DEF Asked, AskedBy
<1> QED
  BY <1>1, <1>4, <1>5 DEF Serving!Publish, Shown, Asked, AskedBy

LEMMA MapPick ==
    ASSUME IInv, NEW q \in Queries, NEW ks \in (SUBSET Keys) \ {{}}, PickRows(q, ks)
    PROVE  Serving!Look(q)
<1> USE DEF IInv, TypeOK
<1> DEFINE said == [k \in Keys |-> IF k \in ks THEN manifest[k].data ELSE NoTable]
           shown == [k \in Keys |-> IF k \in ks THEN Shown[k] ELSE NoRow]
<1>1. PICK g \in Gens : query' = [query EXCEPT ![q] =
        [NoQuery EXCEPT !.pc = "reading", !.gen = g, !.keys = ks, !.promised = said]]
  BY DEF PickRows
<1>2. manifest' = manifest /\ query[q].pc # "reading" /\ \A k \in ks : manifest[k] # NoRow
  BY DEF PickRows
<1>3. query'[q].pc = "reading" /\ query'[q].promised = said
  BY <1>1 DEF NoQuery
<1>4. \A k \in ks : manifest[k].data \in Table
  BY <1>2, EmptyIsTable DEF Row
<1>5. \A k \in ks : Shown[k] = manifest[k].data /\ Shown[k] # NoRow
  <2>1. \A k \in ks : k \in Keys /\ manifest[k].data \in Complete
    BY <1>2 DEF Row
  <2>2. \A r \in Complete : r # NoRow
    BY NoneAssumption DEF NoneAssumption
  <2> QED
    BY <1>2, <2>1, <2>2 DEF Shown
<1>6. \A k \in Keys : ResultOf(said[k]) = shown[k]
  BY <1>4, <1>5, NoneAssumption DEF ResultOf, NoneAssumption
<1>7. AskedBy(q)' = [pc |-> "reading", said |-> shown]
  <2>1. AskedBy(q)' = [pc |-> "reading", said |-> [k \in Keys |-> ResultOf(said[k])]]
    BY <1>3 DEF AskedBy
  <2>2. [k \in Keys |-> ResultOf(said[k])] = shown
    BY <1>6
  <2> QED
    BY <2>1, <2>2
<1>8. \A r \in Queries : r # q => AskedBy(r)' = AskedBy(r)
  BY <1>1 DEF AskedBy
<1>9. Asked' = [Asked EXCEPT ![q] = [pc |-> "reading", said |-> shown]]
  BY <1>7, <1>8 DEF Asked
<1>10. Asked[q].pc # "reading"
  BY <1>2 DEF Asked, AskedBy
<1>11. Shown' = Shown
  BY <1>2 DEF Shown
<1> QED
  BY <1>5, <1>9, <1>10, <1>11 DEF Serving!Look, Shown, Asked, AskedBy

LEMMA MapRead ==
    ASSUME IInv, NEW q \in Queries, ReadTables(q)
    PROVE  Serving!Answer(q) \/ Serving!GoLive(q)
<1> USE DEF IInv, TypeOK
<1> DEFINE held == tables[query[q].gen]
           read == [k \in Keys |-> IF k \in query[q].keys THEN held[k] ELSE NoTable]
<1>1. /\ query[q].pc = "reading" /\ query[q].keys \subseteq Keys
      /\ manifest' = manifest
  BY DEF ReadTables, QueryState
<1>2. Shown' = Shown /\ Asked[q].pc = "reading"
  BY <1>1 DEF Shown, Asked, AskedBy
<1>3. CASE query' = [query EXCEPT ![q] = NoQuery]
  <2>1. AskedBy(q)' = Serving!Silent
    <3>1. query'[q] = NoQuery
      BY <1>3
    <3> QED
      BY <3>1 DEF AskedBy, NoQuery, Blank, ResultOf, Serving!Silent
  <2>2. \A r \in Queries : r # q => AskedBy(r)' = AskedBy(r)
    BY <1>3 DEF AskedBy
  <2>3. Asked' = [Asked EXCEPT ![q] = Serving!Silent]
    BY <2>1, <2>2 DEF Asked
  <2> QED
    BY <1>2, <2>3 DEF Serving!GoLive, Shown, Asked, AskedBy
<1>4. CASE /\ \A k \in query[q].keys : held[k] # NoTable
           /\ query' = [query EXCEPT ![q].pc = "hit", ![q].got = read]
  <2>1. query'[q].pc = "hit" /\ query'[q].got = read
    BY <1>4 DEF QueryState
  <2>2. \A k \in query[q].keys : held[k] = query[q].promised[k]
    BY <1>1, <1>4 DEF Promises
  <2>3. \A k \in Keys : k \notin query[q].keys => query[q].promised[k] = NoTable
    BY <1>1 DEF OnlyAsked
  <2>4. \A k \in Keys : read[k] = query[q].promised[k]
    BY <2>2, <2>3
  <2>5. AskedBy(q) = [pc |-> "reading",
                      said |-> [k \in Keys |-> ResultOf(query[q].promised[k])]]
    BY <1>1 DEF AskedBy
  <2>6. AskedBy(q)' = [pc |-> "hit",
                       said |-> [k \in Keys |-> ResultOf(query[q].promised[k])]]
    <3>1. AskedBy(q)' = [pc |-> "hit", said |-> [k \in Keys |-> ResultOf(read[k])]]
      BY <2>1 DEF AskedBy
    <3> QED
      BY <2>4, <3>1
  <2>7. \A r \in Queries : r # q => AskedBy(r)' = AskedBy(r)
    BY <1>4 DEF AskedBy
  <2>8. Asked' = [Asked EXCEPT ![q].pc = "hit"]
    <3>1. AskedBy(q)' = [AskedBy(q) EXCEPT !.pc = "hit"]
      BY <2>5, <2>6
    <3>2. Asked' = [Asked EXCEPT ![q] = AskedBy(q)']
      BY <2>7 DEF Asked
    <3>3. Asked[q] = AskedBy(q)
      BY DEF Asked
    <3> QED
      BY <3>1, <3>2, <3>3
  <2> QED
    BY <1>2, <2>8 DEF Serving!Answer, Shown, Asked, AskedBy
<1> QED
  BY <1>3, <1>4 DEF ReadTables

LEMMA MapRestart ==
    ASSUME IInv, Restart
    PROVE  Serving!Crash
<1>1. Shown' = Shown
  BY DEF Restart, Shown
<1>2. \A q \in Queries : AskedBy(q)' = Serving!Silent
  BY DEF Restart, AskedBy, NoQuery, Blank, ResultOf, Serving!Silent
<1> QED
  BY <1>1, <1>2 DEF Serving!Crash, Shown, AskedBy

LEMMA MapStep == IInv /\ IInv' /\ [Next]_vars => [Serving!Next]_(Serving!vars)
<1> SUFFICES ASSUME IInv, IInv', [Next]_vars PROVE [Serving!Next]_(Serving!vars)
  OBVIOUS
<1>1. TypeOK /\ TypeOK'
  BY DEF IInv
<1>2. ASSUME NEW p \in Sweepers, SweepStep(p) PROVE Serving!Next
  BY <1>1, <1>2, SweepsShrink, MapRetract DEF Shrinks, Serving!Next
<1>3. ASSUME NEW d \in Drops, Request(d) \/ FinishDrop(d) PROVE Serving!Next
  BY <1>1, <1>3, DropsShrink, MapRetract DEF Shrinks, Serving!Next
<1>4. CASE EditFormula \/ EditReports \/ StartBuild \/ UNCHANGED vars
  BY <1>1, <1>4, MapRetract DEF EditFormula, EditReports, StartBuild, vars, Serving!Next
<1>5. CASE BuildStep
  <2>1. CASE Upsert
    BY <2>1, MapUpsert DEF Serving!Next
  <2>2. CASE ~Upsert
    <3>1. Works
      BY <1>5, <2>2, BuildWorks DEF IInv
    <3> QED
      BY <1>1, <3>1, MapRetract DEF Works, Serving!Next
  <2> QED
    BY <2>1, <2>2
<1>6. ASSUME NEW q \in Queries, NEW ks \in (SUBSET Keys) \ {{}}, PickRows(q, ks)
      PROVE  Serving!Next
  BY <1>6, MapPick DEF Serving!Next
<1>7. ASSUME NEW q \in Queries, ReadTables(q) PROVE Serving!Next
  BY <1>7, MapRead DEF Serving!Next
<1>8. CASE Restart
  BY <1>8, MapRestart DEF Serving!Next
<1> QED
  BY <1>2, <1>3, <1>4, <1>5, <1>6, <1>7, <1>8 DEF Next

\* The whole machinery of files, generations, builds, drops and sweeps serves
\* what RollupServing promises: a query gets what was published when it looked.
THEOREM Implementation == Spec => ImplementsServing
<1> QED
  BY MapInit, MapStep, Invariance, PTL DEF Spec, ImplementsServing, Serving!Spec

-----------------------------------------------------------------------------
(* No cache loss.  While nobody asks for a drop the only sweep is the one    *)
(* that ends a build, over files no row references.                         *)

Kept ==
    /\ open \subseteq onDisk
    /\ \A g \in Gens : g \in onDisk \/ tables[g] = Blank
    /\ sweep[Builder].pc # "off" =>
         /\ build.pc = "sweep"
         /\ sweep[Builder].todo \cap Referenced(manifest) = {}
         /\ sweep[Builder].pc = "unlink" => sweep[Builder].cur \notin Referenced(manifest) \cup open
    /\ build.pc \in {"insert", "copy", "upsert"} => tables[lastGen][build.key] # NoTable

\* What the rows name keeps its tables, with its file.
Spared == \A k \in Keys : manifest[k] # NoRow => tables'[manifest[k].gen] = tables[manifest[k].gen]

LEMMA ReferencedFacts ==
    ASSUME NEW k \in Keys, manifest[k] # NoRow
    PROVE  manifest[k].gen \in Referenced(manifest)
BY DEF Referenced

LEMMA KeptInit == Init => Kept
BY DEF Init, Kept, Idle, NoBuild, Sweepers

LEMMA SweepsSpare ==
    ASSUME TypeOK, Kept, SweepStep(Builder)
    PROVE  Kept' /\ Spared
<1> USE DEF TypeOK, Kept, Forget, Unlink, world
<1>1. Builder \in Sweepers /\ sweep[Builder] \in SweepState
  BY DEF Sweepers
<1>2. \A k \in Keys : manifest[k] # NoRow => manifest[k].gen \in Referenced(manifest) /\ manifest[k].gen \in Gens
  BY ReferencedFacts DEF Row
<1>3. sweep[Builder].pc # "off" /\ build.pc = "sweep"
  BY DEF SweepStep, CloseGen, UnlinkGen, RemoveClosed
<1>4. CASE CloseGen(Builder)
  <2>1. PICK g \in sweep[Builder].todo \cap open :
          /\ sweep' = [sweep EXCEPT ![Builder] =
                         [pc |-> "unlink", todo |-> sweep[Builder].todo \ {g}, cur |-> g]]
          /\ Forget(g)
    BY <1>4 DEF CloseGen
  <2>2. UNCHANGED <<manifest, onDisk, build, lastGen>>
    BY <1>4 DEF CloseGen
  <2>3. sweep'[Builder] = [pc |-> "unlink", todo |-> sweep[Builder].todo \ {g}, cur |-> g]
    BY <1>1, <2>1
  <2>4. g \notin Referenced(manifest) /\ g \in onDisk
    BY <1>3
  <2>5. Referenced(manifest)' = Referenced(manifest)
    BY <2>2 DEF Referenced
  <2>6. open' = open \ {g} /\ tables' = tables
    BY <2>1, <2>4
  <2>7. /\ sweep'[Builder].pc = "unlink" /\ sweep'[Builder].cur = g
        /\ sweep'[Builder].todo = sweep[Builder].todo \ {g}
    BY <2>3
  <2>8. sweep'[Builder].todo \cap Referenced(manifest)' = {}
    BY <1>3, <2>5, <2>7
  <2>9. sweep'[Builder].cur \notin Referenced(manifest)' \cup open'
    BY <2>4, <2>5, <2>6, <2>7
  <2> QED
    BY <1>3, <2>2, <2>6, <2>8, <2>9 DEF Spared
<1>5. ASSUME NEW g \in Gens, Unlink(g), g \notin Referenced(manifest) \cup open,
             UNCHANGED <<manifest, open, build, lastGen>>,
             sweep'[Builder].pc = "on", sweep'[Builder].todo \subseteq sweep[Builder].todo
      PROVE  Kept' /\ Spared
  <2>1. \/ onDisk' = onDisk \ {g} /\ tables' = [tables EXCEPT ![g] = Blank]
        \/ UNCHANGED <<onDisk, tables>>
    BY <1>5
  <2>2. Referenced(manifest)' = Referenced(manifest)
    BY <1>5 DEF Referenced
  <2>3. open' \subseteq onDisk'
    BY <1>5, <2>1
  <2>4. \A h \in Gens : h \in onDisk' \/ tables'[h] = Blank
    BY <2>1
  <2>5. sweep'[Builder].todo \cap Referenced(manifest)' = {}
    BY <1>3, <1>5, <2>2
  <2>6. \A h \in Gens \ {g} : tables'[h] = tables[h]
    BY <2>1
  <2>7. Spared
    BY <1>2, <1>5, <2>6 DEF Spared
  <2> QED
    BY <1>3, <1>5, <2>3, <2>4, <2>5, <2>7
<1>6. CASE UnlinkGen(Builder)
  <2>1. /\ Unlink(sweep[Builder].cur) /\ sweep[Builder].pc = "unlink"
        /\ UNCHANGED <<manifest, open, build, lastGen>>
        /\ sweep' = [sweep EXCEPT ![Builder].pc = "on", ![Builder].cur = 0]
    BY <1>6 DEF UnlinkGen
  <2>2. sweep'[Builder].pc = "on" /\ sweep'[Builder].todo = sweep[Builder].todo
    BY <1>1, <2>1 DEF SweepState
  <2>3. CASE sweep[Builder].cur \in Gens
    BY <1>3, <1>5, <2>1, <2>2, <2>3
  <2>4. CASE sweep[Builder].cur \notin Gens
    <3>1. tables' = tables /\ (onDisk' = onDisk)
      BY <1>1, <2>1, <2>4
    <3>2. Referenced(manifest)' = Referenced(manifest)
      BY <2>1 DEF Referenced
    <3>3. sweep'[Builder].todo \cap Referenced(manifest)' = {}
      BY <1>3, <2>2, <3>2
    <3> QED
      BY <1>3, <2>1, <2>2, <3>1, <3>3 DEF Spared
  <2> QED
    BY <2>3, <2>4
<1>7. CASE RemoveClosed(Builder)
  <2>1. PICK g \in sweep[Builder].todo \ open :
          sweep' = [sweep EXCEPT ![Builder].todo = @ \ {g}] /\ Unlink(g)
    BY <1>7 DEF RemoveClosed
  <2>2. sweep[Builder].pc = "on" /\ UNCHANGED <<manifest, open, build, lastGen>>
    BY <1>7 DEF RemoveClosed
  <2>3. sweep'[Builder].pc = "on" /\ sweep'[Builder].todo \subseteq sweep[Builder].todo
    BY <1>1, <2>1, <2>2 DEF SweepState
  <2>4. g \in Gens /\ g \notin Referenced(manifest) \cup open
    BY <1>1, <1>3 DEF SweepState
  <2> QED
    BY <1>5, <2>1, <2>2, <2>3, <2>4
<1> QED
  BY <1>4, <1>6, <1>7 DEF SweepStep

\* A step of the build that opens its generation and writes at most its own key.
LEMMA BuildSpares ==
    ASSUME IInv, Kept, BuildStep, ~PruneRows
    PROVE  /\ open' \subseteq onDisk'
           /\ \A g \in Gens : g \in onDisk' \/ tables'[g] = Blank
           /\ \A k \in Keys : manifest[k] # NoRow => tables'[manifest[k].gen][k] = tables[manifest[k].gen][k]
           /\ build'.pc \in {"insert", "copy", "upsert"} => tables'[lastGen'][build'.key] # NoTable
           /\ \/ sweep' = sweep /\ build.pc # "sweep"
              \/ sweep'[Builder].pc = "off"
<1> USE DEF IInv, Kept, TypeOK, store, Gen
<1>1. build \in BuildState /\ lastGen' = lastGen /\ (build.pc # "idle" => lastGen \in Gens)
  BY DEF BuildStep, BeginItem, SkipItem, PlanItem, Ask, CreateTable, InsertRows, CopyCold, FallBack,
         ItemFails, Upsert, EndWithoutResult, Checkpoint, FinishBuild, Item
<1>2. build.pc # "idle"
  BY DEF BuildStep, BeginItem, SkipItem, PlanItem, Ask, CreateTable, InsertRows, CopyCold, FallBack,
         ItemFails, Upsert, EndWithoutResult, Checkpoint, FinishBuild
<1>3. \A k \in Keys : manifest[k] # NoRow => manifest[k].gen \in Gens
  BY DEF Row
<1>4. ASSUME OpenDb(lastGen)
      PROVE  open' \subseteq onDisk' /\ lastGen \in onDisk' /\ onDisk \subseteq onDisk'
  BY <1>4 DEF OpenDb
<1>5. ASSUME build.key \in Keys, NEW t \in Table \cup {NoTable}, PutTable(lastGen, build.key, t)
      PROVE  /\ \A g \in Gens \ {lastGen} : tables'[g] = tables[g]
             /\ tables'[lastGen][build.key] = t
             /\ \A k \in Keys : manifest[k] # NoRow => tables'[manifest[k].gen][k] = tables[manifest[k].gen][k]
  <2>1. tables' = [tables EXCEPT ![lastGen] = [tables[lastGen] EXCEPT ![build.key] = t]]
    BY <1>5 DEF PutTable
  <2>2. tables[lastGen] \in Tables /\ lastGen \in Gens
    BY <1>1, <1>2
  <2>3. tables'[lastGen] = [tables[lastGen] EXCEPT ![build.key] = t]
    BY <2>1, <2>2
  <2>4. tables'[lastGen][build.key] = t /\ \A k \in Keys \ {build.key} : tables'[lastGen][k] = tables[lastGen][k]
    BY <1>5, <2>2, <2>3 DEF Tables
  <2>5. \A g \in Gens \ {lastGen} : tables'[g] = tables[g]
    BY <2>1, <2>2
  <2>6. manifest[build.key] # NoRow => manifest[build.key].gen # lastGen
    BY <1>2, <1>5 DEF WriterAlone, Pending
  <2> QED
    BY <1>3, <2>4, <2>5, <2>6
<1>6. CASE UNCHANGED store /\ build'.pc \notin {"insert", "copy", "upsert"} /\ sweep' = sweep /\ build.pc # "sweep"
  BY <1>6
<1>7. CASE BeginItem \/ Checkpoint
  <2>1. /\ OpenDb(lastGen) /\ tables' = tables /\ sweep' = sweep /\ build.pc # "sweep"
        /\ build'.pc \in {"plan", "prune"}
    BY <1>1, <1>7 DEF BeginItem, Checkpoint, BuildState
  <2> QED
    BY <1>4, <2>1
<1>8. CASE SkipItem \/ PlanItem \/ Ask \/ ItemFails \/ Upsert \/ EndWithoutResult
  <2>1. build'.pc \in {"next", "ask", "create", "idle"}
    <3>1. CASE SkipItem
      BY <1>1, <3>1 DEF SkipItem, BuildState
    <3>2. CASE PlanItem
      BY <1>1, <3>2 DEF PlanItem, BuildState
    <3>3. CASE Ask
      BY <1>1, <3>3 DEF Ask, BuildState
    <3>4. CASE ItemFails
      BY <1>1, <3>4 DEF ItemFails, BuildState
    <3>5. CASE Upsert
      BY <1>1, <3>5 DEF Upsert, BuildState
    <3>6. CASE EndWithoutResult
      BY <3>6 DEF EndWithoutResult, NoBuild
    <3> QED
      BY <1>8, <3>1, <3>2, <3>3, <3>4, <3>5, <3>6
  <2>2. UNCHANGED store /\ sweep' = sweep /\ build.pc # "sweep"
    BY <1>8 DEF SkipItem, PlanItem, Ask, ItemFails, Upsert, EndWithoutResult
  <2> QED
    BY <1>6, <2>1, <2>2
<1>9. CASE FinishBuild
  <2>1. build'.pc = "idle" /\ UNCHANGED store
    BY <1>9 DEF FinishBuild, NoBuild
  <2>2. sweep'[Builder].pc = "off"
    BY <1>9 DEF FinishBuild, Idle, Sweepers
  <2> QED
    BY <2>1, <2>2
<1>10. CASE CreateTable
  <2>1. /\ OpenDb(lastGen) /\ PutTable(lastGen, build.key, Empty) /\ build.pc = "create"
        /\ build' = [build EXCEPT !.pc = "insert"] /\ sweep' = sweep
    BY <1>10 DEF CreateTable
  <2>2. build.key \in Keys /\ Empty \in Table /\ Empty # NoTable
    BY <2>1, EmptyIsTable, NoneAssumption DEF NoneAssumption, Item, ItemPcs
  <2>3. build'.key = build.key
    BY <1>1, <2>1 DEF BuildState
  <2> QED
    BY <1>1, <1>4, <1>5, <2>1, <2>2, <2>3
<1>11. CASE FallBack
  <2>1. /\ OpenDb(lastGen) /\ PutTable(lastGen, build.key, NoTable)
        /\ build.pc \in {"create", "insert", "copy"} /\ sweep' = sweep
        /\ build'.pc = "ask"
    BY <1>1, <1>11 DEF FallBack, BuildState
  <2>2. build.key \in Keys
    BY <2>1 DEF Item, ItemPcs
  <2> QED
    BY <1>4, <1>5, <2>1, <2>2
<1>12. CASE InsertRows
  <2>1. /\ build.pc = "insert" /\ sweep' = sweep
        /\ tables[lastGen][build.key] # NoTable
        /\ OpenDb(lastGen) /\ PutTable(lastGen, build.key, Landed)
    BY <1>12 DEF InsertRows
  <2>2. build'.key = build.key
    BY <1>1, <1>12 DEF InsertRows, BuildState
  <2>3. build.key \in Keys
    BY <2>1 DEF Item, ItemPcs
  <2>4. Landed \in Table /\ Landed # NoTable
    BY <1>1, EmptyIsTable, NoneAssumption DEF NoneAssumption, Landed, Table, BuildState
  <2> QED
    BY <1>1, <1>4, <1>5, <2>1, <2>2, <2>3, <2>4
<1>13. CASE CopyCold
  <2> DEFINE whole == [build.data EXCEPT !.cold = tables[build.from][build.key].cold]
  <2>1. /\ build.pc = "copy" /\ sweep' = sweep
        /\ OpenDb(lastGen) /\ PutTable(lastGen, build.key, whole)
        /\ tables[build.from][build.key] # NoTable
    BY <1>13 DEF CopyCold
  <2>2. build'.key = build.key
    BY <1>1, <1>13 DEF CopyCold, BuildState
  <2>3. build.key \in Keys /\ build.from # 0
    BY <2>1 DEF Item, ItemPcs
  <2>4. tables[build.from][build.key] \in Complete
    BY <2>1, <2>3 DEF ColdSource
  <2>5. whole \in Table /\ whole # NoTable
    BY <1>1, <2>4, EmptyIsTable, NoneAssumption DEF NoneAssumption, Table, BuildState, Complete, Part
  <2> HIDE DEF whole
  <2> QED
    BY <1>1, <1>4, <1>5, <2>1, <2>2, <2>3, <2>5
<1> QED
  BY <1>7, <1>8, <1>9, <1>10, <1>11, <1>12, <1>13 DEF BuildStep

\* No step but one of Next without drops.
LEMMA StepsWithoutDrops ==
    ASSUME Drops = {}, [Next]_vars
    PROVE  \/ StartBuild \/ BuildStep \/ SweepStep(Builder)
           \/ EditFormula \/ EditReports
           \/ \E q \in Queries : ReadTables(q) \/ \E ks \in (SUBSET Keys) \ {{}} : PickRows(q, ks)
           \/ Restart \/ UNCHANGED vars
BY DEF Next, Sweepers

LEMMA KeptStep == ASSUME Drops = {}, IInv, Kept, [Next]_vars PROVE Kept'
<1> USE DEF IInv, Kept, TypeOK
<1>q. ASSUME UNCHANGED <<manifest, onDisk, open, tables, build, sweep, lastGen>> PROVE Kept'
  BY <1>q DEF Referenced
<1>1. CASE StartBuild
  <2>1. /\ UNCHANGED <<manifest, sweep, onDisk, open, tables>> /\ build.pc = "idle" /\ build'.pc = "next"
    BY <1>1 DEF StartBuild, NoBuild, store
  <2> QED
    BY <2>1
<1>2. CASE PruneRows
  <2>1. /\ sweep' = [sweep EXCEPT ![Builder] = StartSweep(Referenced(manifest'))]
        /\ UNCHANGED <<onDisk, open, tables>>
        /\ build'.pc = "sweep"
    BY <1>2 DEF PruneRows, store, BuildState
  <2>2. sweep'[Builder] = StartSweep(Referenced(manifest'))
    BY <2>1 DEF Sweepers
  <2>3. sweep'[Builder].pc = "on" /\ sweep'[Builder].todo \cap Referenced(manifest') = {}
    BY <2>2 DEF StartSweep, Idle
  <2>4. Referenced(manifest)' = Referenced(manifest')
    BY DEF Referenced
  <2> QED
    BY <2>1, <2>3, <2>4
<1>3. CASE BuildStep /\ ~PruneRows
  <2>1. \/ sweep' = sweep /\ build.pc # "sweep"
        \/ sweep'[Builder].pc = "off"
    BY <1>3, BuildSpares
  <2>2. sweep'[Builder].pc = "off"
    BY <2>1
  <2> QED
    BY <1>3, <2>2, BuildSpares
<1>4. CASE SweepStep(Builder)
  BY <1>4, SweepsSpare
<1>5. CASE EditFormula \/ EditReports \/ (\E q \in Queries : ReadTables(q)) \/ UNCHANGED vars
  BY <1>5, <1>q DEF EditFormula, EditReports, ReadTables, vars, store
<1>6. ASSUME NEW q \in Queries, NEW ks \in (SUBSET Keys) \ {{}}, PickRows(q, ks) PROVE Kept'
  <2>1. PICK g \in Gens : (\A k \in ks : manifest[k] # NoRow /\ manifest[k].gen = g) /\ OpenDb(g)
    BY <1>6 DEF PickRows
  <2>2. UNCHANGED <<manifest, tables, build, sweep, lastGen>>
    BY <1>6 DEF PickRows
  <2>3. g \in Referenced(manifest)
    BY <2>1, ReferencedFacts
  <2>4. open' = open \cup {g} /\ onDisk \subseteq onDisk' /\ open' \subseteq onDisk'
    BY <2>1 DEF OpenDb
  <2>5. Referenced(manifest)' = Referenced(manifest)
    BY <2>2 DEF Referenced
  <2>6. sweep[Builder].pc = "unlink" => sweep[Builder].cur \notin Referenced(manifest)' \cup open'
    BY <2>3, <2>4, <2>5
  <2> QED
    BY <2>2, <2>4, <2>5, <2>6
<1>7. CASE Restart
  <2>1. sweep'[Builder].pc = "off" /\ build'.pc = "idle" /\ open' = {} /\ onDisk' = onDisk
    BY <1>7 DEF Restart, Idle, NoBuild, Sweepers
  <2>2. \A g \in Gens : g \in onDisk' \/ tables'[g] = Blank
    BY <1>7 DEF Restart
  <2> QED
    BY <2>1, <2>2
<1> QED
  BY <1>1, <1>2, <1>3, <1>4, <1>5, <1>6, <1>7, StepsWithoutDrops

LEMMA NothingLost ==
    ASSUME Drops = {}, IInv, Kept, [Next]_vars, NEW k \in Keys, Served(k)
    PROVE  Served(k)' \/ k \notin build.plan \/ (build.key = k /\ build.drifted)
<1> USE DEF IInv, TypeOK
<1>1. manifest[k] # NoRow /\ tables[manifest[k].gen][k] # NoTable
  BY DEF Served, Backing
<1>2. manifest[k].gen \in Gens /\ manifest[k] \in Row
  BY <1>1 DEF Row
<1>3. ASSUME manifest'[k] = manifest[k], tables'[manifest[k].gen][k] # NoTable PROVE Served(k)'
  BY <1>1, <1>3 DEF Served, Backing
<1>4. CASE manifest' = manifest /\ tables' = tables
  BY <1>1, <1>3, <1>4
<1>5. CASE SweepStep(Builder)
  <2>1. manifest' = manifest
    BY <1>5 DEF SweepStep, CloseGen, UnlinkGen, RemoveClosed
  <2> QED
    BY <1>1, <1>3, <1>5, <2>1, SweepsSpare DEF Spared
<1>6. CASE Upsert
  <2>1. build.key = k => manifest'[k] = [gen |-> lastGen, shape |-> build.outputs, data |-> build.data]
    BY <1>6 DEF Upsert, Gen
  <2>2. build.key # k => manifest'[k] = manifest[k]
    BY <1>6 DEF Upsert
  <2>3. tables' = tables /\ build.pc = "upsert"
    BY <1>6 DEF Upsert, store
  <2>4. CASE build.key # k
    BY <1>1, <1>3, <2>2, <2>3, <2>4
  <2>5. CASE build.key = k
    <3>1. tables[lastGen][k] # NoTable
      BY <2>3, <2>5 DEF Kept
    <3>2. manifest'[k] \in Row
      <4>1. lastGen \in Gens /\ build.data \in Complete /\ build.outputs \in Shapes
        BY <2>3 DEF Item, BuildState
      <4> QED
        BY <2>1, <2>5, <4>1 DEF Row
    <3>3. manifest'[k] # NoRow /\ manifest'[k].gen = lastGen
      BY <2>1, <2>5, <3>2, NoneAssumption DEF NoneAssumption
    <3> QED
      BY <2>3, <3>1, <3>3 DEF Served, Backing
  <2> QED
    BY <2>4, <2>5
<1>7. CASE ItemFails
  <2>1. tables' = tables /\ (manifest'[k] = manifest[k] \/ (build.key = k /\ build.drifted))
    BY <1>7 DEF ItemFails, store
  <2> QED
    BY <1>1, <1>3, <2>1
<1>8. CASE PruneRows
  <2>1. tables' = tables /\ (k \in build.plan => manifest'[k] = manifest[k])
    BY <1>8 DEF PruneRows, store
  <2> QED
    BY <1>1, <1>3, <2>1
<1>9. CASE BuildStep /\ ~Upsert /\ ~ItemFails /\ ~PruneRows
  <2>1. manifest' = manifest
    BY <1>9 DEF BuildStep, BeginItem, SkipItem, PlanItem, Ask, CreateTable, InsertRows, CopyCold,
                FallBack, EndWithoutResult, Checkpoint, FinishBuild
  <2>2. tables'[manifest[k].gen][k] = tables[manifest[k].gen][k]
    BY <1>1, <1>9, BuildSpares
  <2> QED
    BY <1>1, <1>3, <2>1, <2>2
<1>10. CASE StartBuild \/ EditFormula \/ EditReports \/ UNCHANGED vars
            \/ \E q \in Queries : ReadTables(q) \/ \E ks \in (SUBSET Keys) \ {{}} : PickRows(q, ks)
  BY <1>4, <1>10 DEF StartBuild, EditFormula, EditReports, vars, store, ReadTables, PickRows
<1>11. CASE Restart
  <2>1. manifest' = manifest /\ \A g \in Gens : tables'[g] = IF g \in onDisk THEN tables[g] ELSE Blank
    BY <1>11 DEF Restart
  <2>2. tables[manifest[k].gen] # Blank
    BY <1>1 DEF Blank
  <2>3. manifest[k].gen \in onDisk
    BY <1>2, <2>2 DEF Kept
  <2> QED
    BY <1>1, <1>2, <1>3, <2>1, <2>3
<1> QED
  BY <1>5, <1>6, <1>7, <1>8, <1>9, <1>10, <1>11, StepsWithoutDrops

\* While nobody asks for a drop, a key that serves goes on serving through failed
\* items, fallbacks, the final pruning and restarts (NoCacheLoss), for any plans,
\* recipes and queries: but for keys out of the plan and drifted rows.
THEOREM NothingIsLost ==
    ASSUME Drops = {}
    PROVE  Spec => NoCacheLoss
<1>1. IInv /\ Kept /\ [Next]_vars =>
        \A k \in Keys : Served(k) =>
          Served(k)' \/ k \notin build.plan \/ (build.key = k /\ build.drifted)
  BY NothingLost
<1>2. IInv /\ Kept /\ [Next]_vars => Kept'
  BY KeptStep
<1>3. Init => Kept
  BY KeptInit
<1> QED
  BY <1>1, <1>2, <1>3, Invariance, PTL DEF Spec, NoCacheLoss
=============================================================================
