----------------------------- MODULE RollupStore -----------------------------
(***************************************************************************)
(* The materialised-rollup store of ONE model: the manifest (the SQLite    *)
(* table `rollups`), the DuckDB generation files, the blue-green builder,  *)
(* the drops, and the planner that reads a row and then, after an await,   *)
(* the table the row named.  server/utils/rollupBuilder.js,                *)
(* server/utils/rollupDuckDB.js, server/utils/rollupPlanner.js.            *)
(*                                                                         *)
(* Node runs one callback at a time, so an action is what the code does    *)
(* between two awaits; every await is an interleaving point.               *)
(*                                                                         *)
(* Data.  A key stands for (grain, base filter, fact).  What a table holds *)
(* is the revision its rows were computed at (of the model with its        *)
(* source, and of the formulas the reports add), for the recent window     *)
(* (`hot`) and for the older partitions (`cold`) apart: an incremental     *)
(* build re-reads the first and copies the second.                         *)
(***************************************************************************)
EXTENDS Naturals, FiniteSets

CONSTANTS
    Keys,           \* (grain, base filter, fact) keys the planner may plan
    GrainOf,        \* key -> its grain: DELETE /api/rollups/:model/:grain drops by grain
    Incremental,    \* keys whose grain carries the incremental date parts
    PlanSets,       \* the sets of keys the reports of the model may call for
    Drops,          \* concurrent drop requests (model edits, operator drops)
    Queries,        \* concurrent /query requests that reach the planner
    MaxGen,         \* bound: builds started
    MaxModel,       \* bound: revisions of the model and its source
    MaxFormula,     \* bound: revisions of the formulas kept in reports
    Shapes,         \* the `outputs` recipes a set of formulas may decompose into
    ShapeOf,        \* the recipe of each revision
    Barren,         \* <<key, shape>> pairs that leave no atom to materialise
    NoRow, NoTable, NoKey, Builder

Gens == 1..MaxGen
Stamps == [model : 1..MaxModel, formula : 1..MaxFormula]
Nothing == [model |-> 0, formula |-> 0]
Part == Stamps \cup {Nothing}
Table == [hot : Part, cold : Part]
Empty == [hot |-> Nothing, cold |-> Nothing]
Complete == [hot : Stamps, cold : Stamps]
Row == [gen : Gens, shape : Shapes, data : Complete]

ASSUME BoundsAssumption ==
    /\ MaxGen \in Nat
    /\ MaxModel \in Nat \ {0}
    /\ MaxFormula \in Nat \ {0}

ASSUME PlanAssumption ==
    /\ Incremental \subseteq Keys
    /\ PlanSets \subseteq SUBSET Keys
    /\ PlanSets # {}
    /\ ShapeOf \in [Stamps -> Shapes]

ASSUME NoneAssumption ==
    /\ NoRow \notin Row \cup Complete
    /\ NoTable \notin Table
    /\ NoKey \notin Keys
    /\ Builder \notin Drops

Sweepers == Drops \cup {Builder}

VARIABLES
    model,      \* revision of the model's definitions and of its datasource
    formula,    \* revision of the formulas the reports keep for themselves
    wanted,     \* keys the visuals of the model's reports call for now
    settled,    \* latest model revision whose dropAllRollups ran to its end
    manifest,   \* Keys -> Row or NoRow: the rows of `rollups`
    lastGen,    \* the latest generation token handed out
    onDisk,     \* generations whose file is in the data directory
    open,       \* generations with a connection in _dbByPath
    tables,     \* what each generation's file (or its unlinked inode) holds
    build,      \* the one build of the model in flight
    sweep,      \* pruneGenFiles of the build and of each drop
    drop,       \* the drop requests
    query       \* the /query requests

store == <<onDisk, open, tables>>
world == <<model, formula, wanted, settled>>
vars == <<world, manifest, lastGen, store, build, sweep, drop, query>>

-----------------------------------------------------------------------------
(* The store: rollupDuckDB.js. *)

Blank == [k \in Keys |-> NoTable]

\* getDb: the cached connection, or open the path read_write, which creates
\* the file when it is not there.
OpenDb(g) ==
    /\ open' = open \cup {g}
    /\ onDisk' = IF g \in open THEN onDisk ELSE onDisk \cup {g}

\* The tables a connection to g sees and leaves after t is put under k.
PutTable(g, k, t) == tables' = [tables EXCEPT ![g][k] = t]

\* closePath: the connection is forgotten, and with it an unlinked inode.
Forget(g) ==
    /\ open' = open \ {g}
    /\ tables' = IF g \in onDisk THEN tables ELSE [tables EXCEPT ![g] = Blank]

\* rmFile: the inode lives on while a connection has it; the call gives up
\* silently on a file the system will not let go.
Unlink(g) ==
    \/ /\ onDisk' = onDisk \ {g}
       /\ tables' = IF g \in open THEN tables ELSE [tables EXCEPT ![g] = Blank]
    \/ UNCHANGED <<onDisk, tables>>

\* referencedGensFor: the generations the rows of m point at.
Referenced(m) == {m[k].gen : k \in {j \in Keys : m[j] # NoRow}}

-----------------------------------------------------------------------------
(* pruneGenFiles.  What to keep is settled by the caller and the directory  *)
(* listed before the first wait (the legacy single file is not modelled);   *)
(* the files then go one by one, and closing a connection really waits.     *)

Idle == [pc |-> "off", todo |-> {}, cur |-> 0]
StartSweep(keep) == [Idle EXCEPT !.pc = "on", !.todo = onDisk \ keep]

CloseGen(p) ==
    /\ sweep[p].pc = "on"
    /\ \E g \in sweep[p].todo \cap open :
         /\ sweep' = [sweep EXCEPT ![p] = [pc |-> "unlink", todo |-> @.todo \ {g}, cur |-> g]]
         /\ Forget(g)
    /\ UNCHANGED <<world, manifest, lastGen, onDisk, build, drop, query>>

UnlinkGen(p) ==
    /\ sweep[p].pc = "unlink"
    /\ Unlink(sweep[p].cur)
    /\ sweep' = [sweep EXCEPT ![p].pc = "on", ![p].cur = 0]
    /\ UNCHANGED <<world, manifest, lastGen, open, build, drop, query>>

\* A generation with no connection open: nothing to wait for.
RemoveClosed(p) ==
    /\ sweep[p].pc = "on"
    /\ \E g \in sweep[p].todo \ open :
         /\ sweep' = [sweep EXCEPT ![p].todo = @ \ {g}]
         /\ Unlink(g)
    /\ UNCHANGED <<world, manifest, lastGen, open, build, drop, query>>

Swept(p) == sweep[p].pc = "on" /\ sweep[p].todo = {}

-----------------------------------------------------------------------------
(* Edits and drops. *)

NoDrop == [pc |-> "idle", ver |-> 0]

\* dropAllRollups up to its first await: the whole store is to go.
DropAll(d, m) ==
    /\ drop' = [drop EXCEPT ![d] = [pc |-> "all", ver |-> m]]
    /\ sweep' = [sweep EXCEPT ![d] = StartSweep({})]

ReviseModel ==
    /\ model < MaxModel
    /\ model' = model + 1

\* PUT model, report fields moved into the model: the change is saved, then
\* the drop is fired and not awaited.
EditModel(d) ==
    /\ drop[d].pc = "idle"
    /\ ReviseModel
    /\ DropAll(d, model')
    /\ UNCHANGED <<formula, wanted, settled, manifest, lastGen, store, build, query>>

\* PUT datasource, a refreshed file: the drop of this model waits for the
\* retired file or for the models dropped before it.
EditDatasource(d) ==
    /\ drop[d].pc = "idle"
    /\ ReviseModel
    /\ drop' = [drop EXCEPT ![d] = [pc |-> "queued", ver |-> model']]
    /\ UNCHANGED <<formula, wanted, settled, manifest, lastGen, store, build,
                   sweep, query>>

ReachModel(d) ==
    /\ drop[d].pc = "queued"
    /\ DropAll(d, drop[d].ver)
    /\ UNCHANGED <<world, manifest, lastGen, store, build, query>>

\* POST /cache-schedules/clear-workspace: the same drop, nothing edited.
ClearWorkspace(d) ==
    /\ drop[d].pc = "idle"
    /\ DropAll(d, model)
    /\ UNCHANGED <<world, manifest, lastGen, store, build, query>>

\* dropRollup: every row of the grain, then the files nobody references NOW.
DropRollup(d, grain) ==
    LET doomed == {k \in Keys : GrainOf[k] = grain /\ manifest[k] # NoRow}
        left == [k \in Keys |-> IF k \in doomed THEN NoRow ELSE manifest[k]]
    IN  /\ drop[d].pc = "idle"
        /\ doomed # {}
        /\ manifest' = left
        /\ drop' = [drop EXCEPT ![d] = [pc |-> "grain", ver |-> 0]]
        /\ sweep' = [sweep EXCEPT ![d] = StartSweep(Referenced(left))]
        /\ UNCHANGED <<world, lastGen, store, build, query>>

\* After the sweep, dropAllRollups deletes the rows; dropRollup is done.
FinishDrop(d) ==
    /\ drop[d].pc \in {"all", "grain"}
    /\ Swept(d)
    /\ IF drop[d].pc = "all"
         THEN /\ manifest' = [k \in Keys |-> NoRow]
              /\ settled' = IF drop[d].ver > settled THEN drop[d].ver ELSE settled
         ELSE UNCHANGED <<manifest, settled>>
    /\ drop' = [drop EXCEPT ![d] = NoDrop]
    /\ sweep' = [sweep EXCEPT ![d] = Idle]
    /\ UNCHANGED <<model, formula, wanted, lastGen, store, build, query>>

\* PUT report with changed formulas (report measures, overrides): the query
\* cache of the model is invalidated, the rollups are not touched.
EditFormula ==
    /\ formula < MaxFormula
    /\ formula' = formula + 1
    /\ UNCHANGED <<model, wanted, settled, manifest, lastGen, store, build,
                   sweep, drop, query>>

\* Saving reports changes which keys the visuals call for.
EditReports ==
    /\ wanted' \in PlanSets \ {wanted}
    /\ UNCHANGED <<model, formula, settled, manifest, lastGen, store, build,
                   sweep, drop, query>>

-----------------------------------------------------------------------------
(* The builder: buildRollupsForModel, one at a time per model. *)

\* `formula` is what the plan captured, `outputs` the recipe of the item.
NoBuild == [pc |-> "idle", plan |-> {}, todo |-> {}, formula |-> 1,
            key |-> NoKey, outputs |-> ShapeOf[[model |-> 1, formula |-> 1]],
            drifted |-> FALSE, from |-> 0, rows |-> Nothing, data |-> Empty,
            built |-> FALSE]

\* _buildRollupsForModelInner up to the first item.  A build asked for while
\* one is in flight joins it; an empty plan returns at once.
StartBuild ==
    /\ build.pc = "idle"
    /\ lastGen < MaxGen
    /\ wanted # {}
    /\ lastGen' = lastGen + 1
    /\ build' = [NoBuild EXCEPT !.pc = "next", !.plan = wanted, !.todo = wanted,
                                !.formula = formula]
    /\ UNCHANGED <<world, manifest, store, sweep, drop, query>>

Gen == lastGen  \* the generation of the build in flight

\* buildRollup up to `await getDb`: the measures are read from the model as
\* it is now, with the report formulas of the plan; opening the generation
\* file (to see whether HLL sketches are available) creates it.
BeginItem ==
    /\ build.pc = "next"
    /\ \E k \in build.todo :
         build' = [build EXCEPT !.pc = "plan", !.key = k, !.todo = build.todo \ {k},
                     !.outputs = ShapeOf[[model |-> model, formula |-> build.formula]]]
    /\ OpenDb(Gen)
    /\ UNCHANGED <<world, manifest, lastGen, tables, sweep, drop, query>>

HasNoAtoms == <<build.key, build.outputs>> \in Barren

SkipItem ==
    /\ build.pc = "plan"
    /\ HasNoAtoms
    /\ build' = [build EXCEPT !.pc = "next", !.key = NoKey]
    /\ UNCHANGED <<world, manifest, lastGen, store, sweep, drop, query>>

\* Spec drift against the existing row, and whether an incremental refresh
\* may start from it: only the outputs are compared.
PlanItem ==
    LET row == manifest[build.key]
        drifted == row # NoRow /\ row.shape # build.outputs
        mayCopy == row # NoRow /\ ~drifted /\ build.key \in Incremental
    IN  /\ build.pc = "plan"
        /\ ~HasNoAtoms
        /\ build' = [build EXCEPT !.pc = "ask", !.drifted = drifted,
                                  !.from = IF mayCopy THEN row.gen ELSE 0]
        /\ UNCHANGED <<world, manifest, lastGen, store, sweep, drop, query>>

\* fetchRollupRows: the loopback /query reads the model in force now and is
\* sent the plan's formulas; its answer comes later.
Ask ==
    /\ build.pc = "ask"
    /\ build' = [build EXCEPT !.pc = "create",
                              !.rows = [model |-> model, formula |-> build.formula]]
    /\ UNCHANGED <<world, manifest, lastGen, store, sweep, drop, query>>

\* Bug: the row flips as soon as the table exists.
CreateTableAndFlip ==
    /\ build.pc = "create"
    /\ OpenDb(Gen)
    /\ tables[Gen][build.key] = NoTable
    /\ PutTable(Gen, build.key, Empty)
    /\ build' = [build EXCEPT !.pc = "upsert",
                              !.data = [hot |-> build.rows, cold |-> build.rows]]
    /\ UNCHANGED <<world, manifest, lastGen, sweep, drop, query>>

\* The rows are in: CREATE TABLE in the new generation's file.
CreateTable ==
    /\ build.pc = "create"
    /\ OpenDb(Gen)
    /\ tables[Gen][build.key] = NoTable
    /\ PutTable(Gen, build.key, Empty)
    /\ build' = [build EXCEPT !.pc = "insert"]
    /\ UNCHANGED <<world, manifest, lastGen, sweep, drop, query>>

Landed == [hot |-> build.rows, cold |-> IF build.from = 0 THEN build.rows ELSE Nothing]

\* insertRows: without its table the insert fails, unless the source had no
\* row to insert and the table is never looked at.
InsertRows ==
    /\ build.pc = "insert"
    /\ IF tables[Gen][build.key] # NoTable
         THEN OpenDb(Gen) /\ PutTable(Gen, build.key, Landed)
         ELSE UNCHANGED store
    /\ build' = [build EXCEPT !.pc = IF build.from = 0 THEN "upsert" ELSE "copy",
                              !.data = Landed]
    /\ UNCHANGED <<world, manifest, lastGen, sweep, drop, query>>

\* copyFromGen: the cold partitions of the previous table, from its file.
CopyCold ==
    LET old == tables[build.from][build.key]
        whole == [build.data EXCEPT !.cold = old.cold]
    IN  /\ build.pc = "copy"
        /\ build.from \in onDisk
        /\ old # NoTable
        /\ OpenDb(Gen)
        /\ tables[Gen][build.key] # NoTable
        /\ PutTable(Gen, build.key, whole)
        /\ build' = [build EXCEPT !.pc = "upsert", !.data = whole]
        /\ UNCHANGED <<world, manifest, lastGen, sweep, drop, query>>

\* Bug: the retry is incremental again.
FallBackIncrementally ==
    /\ build.pc \in {"create", "insert", "copy"}
    /\ build.from # 0
    /\ OpenDb(Gen)
    /\ PutTable(Gen, build.key, NoTable)
    /\ build' = [build EXCEPT !.pc = "ask"]
    /\ UNCHANGED <<world, manifest, lastGen, sweep, drop, query>>

\* An incremental attempt that fails anywhere: drop what it left, start over
\* from the source.
FallBack ==
    /\ build.pc \in {"create", "insert", "copy"}
    /\ build.from # 0
    /\ OpenDb(Gen)
    /\ PutTable(Gen, build.key, NoTable)
    /\ build' = [build EXCEPT !.pc = "ask", !.from = 0]
    /\ UNCHANGED <<world, manifest, lastGen, sweep, drop, query>>

\* A full build that fails anywhere (source error, deadline, lost file): a
\* drifted row goes, any other stays; the next item starts.
ItemFails ==
    /\ build.pc \in {"create", "insert"}
    /\ build.from = 0
    /\ manifest' = IF build.drifted THEN [manifest EXCEPT ![build.key] = NoRow]
                                    ELSE manifest
    /\ build' = [build EXCEPT !.pc = "next", !.key = NoKey]
    /\ UNCHANGED <<world, lastGen, store, sweep, drop, query>>

\* The manifest row flips to the new generation's table.
Upsert ==
    /\ build.pc = "upsert"
    /\ manifest' = [manifest EXCEPT ![build.key] =
                      [gen |-> Gen, shape |-> build.outputs, data |-> build.data]]
    /\ build' = [build EXCEPT !.pc = "next", !.key = NoKey, !.from = 0, !.built = TRUE]
    /\ UNCHANGED <<world, lastGen, store, sweep, drop, query>>

\* Nothing was built: the build returns without pruning anything.
EndWithoutResult ==
    /\ build.pc = "next"
    /\ build.todo = {}
    /\ ~build.built
    /\ build' = NoBuild
    /\ UNCHANGED <<world, manifest, lastGen, store, sweep, drop, query>>

\* checkpoint goes through getDb.
Checkpoint ==
    /\ build.pc = "next"
    /\ build.todo = {}
    /\ build.built
    /\ OpenDb(Gen)
    /\ build' = [build EXCEPT !.pc = "prune"]
    /\ UNCHANGED <<world, manifest, lastGen, tables, sweep, drop, query>>

\* Bug: only the new generation is kept, whatever failed to build.
PruneRowsOfOlderBuilds ==
    LET left == [k \in Keys |-> IF k \in build.plan THEN manifest[k] ELSE NoRow]
    IN  /\ build.pc = "prune"
        /\ manifest' = left
        /\ sweep' = [sweep EXCEPT ![Builder] = StartSweep({Gen})]
        /\ build' = [build EXCEPT !.pc = "sweep"]
        /\ UNCHANGED <<world, lastGen, store, drop, query>>

\* Rows outside the plan go, then the files no surviving row references.
PruneRows ==
    LET left == [k \in Keys |-> IF k \in build.plan THEN manifest[k] ELSE NoRow]
    IN  /\ build.pc = "prune"
        /\ manifest' = left
        /\ sweep' = [sweep EXCEPT ![Builder] = StartSweep(Referenced(left))]
        /\ build' = [build EXCEPT !.pc = "sweep"]
        /\ UNCHANGED <<world, lastGen, store, drop, query>>

FinishBuild ==
    /\ build.pc = "sweep"
    /\ Swept(Builder)
    /\ build' = NoBuild
    /\ sweep' = [sweep EXCEPT ![Builder] = Idle]
    /\ UNCHANGED <<world, manifest, lastGen, store, drop, query>>

-----------------------------------------------------------------------------
(* The planner: tryServeFromRollup.  A query needs one row per fact it reads. *)

NoQuery == [pc |-> "idle", gen |-> 0, keys |-> {}, promised |-> Blank, got |-> Blank]

\* Everything up to `await rollupDuckDB.query`: the rows are found and must
\* live in one generation, else the query goes live without reading anything.
\* The call opens that generation at once.
PickRows(q, ks) ==
    /\ query[q].pc # "reading"
    /\ \A k \in ks : manifest[k] # NoRow
    /\ \E g \in Gens :
         /\ \A k \in ks : manifest[k].gen = g
         /\ OpenDb(g)
         /\ query' = [query EXCEPT ![q] =
              [NoQuery EXCEPT !.pc = "reading", !.gen = g, !.keys = ks,
                 !.promised = [k \in Keys |-> IF k \in ks THEN manifest[k].data
                                                          ELSE NoTable]]]
    /\ UNCHANGED <<world, manifest, lastGen, tables, build, sweep, drop>>

\* Bug: an error of the read counts as an empty result.
ReadTablesAnyway(q) ==
    /\ query[q].pc = "reading"
    /\ query' = [query EXCEPT ![q].pc = "hit", ![q].got = tables[query[q].gen]]
    /\ UNCHANGED <<world, manifest, lastGen, store, build, sweep, drop>>

\* The tables named before the await are read after it: a missing table, or a
\* connection closed underneath, sends the query live.
ReadTables(q) ==
    LET held == tables[query[q].gen]
        found == \A k \in query[q].keys : held[k] # NoTable
    IN  /\ query[q].pc = "reading"
        /\ \/ /\ found
              /\ query' = [query EXCEPT ![q].pc = "hit",
                   ![q].got = [k \in Keys |-> IF k \in query[q].keys THEN held[k]
                                                                      ELSE NoTable]]
           \/ query' = [query EXCEPT ![q] = NoQuery]
        /\ UNCHANGED <<world, manifest, lastGen, store, build, sweep, drop>>

-----------------------------------------------------------------------------
(* The server stops and starts again: everything in memory is lost, the      *)
(* metadata database and the files in the directory stay.                    *)

Restart ==
    /\ open' = {}
    /\ tables' = [g \in Gens |-> IF g \in onDisk THEN tables[g] ELSE Blank]
    /\ build' = NoBuild
    /\ sweep' = [p \in Sweepers |-> Idle]
    /\ drop' = [d \in Drops |-> NoDrop]
    /\ query' = [q \in Queries |-> NoQuery]
    /\ UNCHANGED <<world, manifest, lastGen, onDisk>>

Init ==
    /\ model = 1
    /\ formula = 1
    /\ wanted \in PlanSets
    /\ settled = 0
    /\ manifest = [k \in Keys |-> NoRow]
    /\ lastGen = 0
    /\ onDisk = {}
    /\ open = {}
    /\ tables = [g \in Gens |-> Blank]
    /\ build = NoBuild
    /\ sweep = [p \in Sweepers |-> Idle]
    /\ drop = [d \in Drops |-> NoDrop]
    /\ query = [q \in Queries |-> NoQuery]

BuildStep ==
    \/ BeginItem \/ SkipItem \/ PlanItem \/ Ask
    \/ CreateTable \/ InsertRows \/ CopyCold \/ FallBack \/ ItemFails \/ Upsert
    \/ EndWithoutResult \/ Checkpoint \/ PruneRows \/ FinishBuild

SweepStep(p) == CloseGen(p) \/ UnlinkGen(p) \/ RemoveClosed(p)

Request(d) ==
    \/ EditModel(d) \/ EditDatasource(d) \/ ReachModel(d) \/ ClearWorkspace(d)
    \/ \E k \in Keys : DropRollup(d, GrainOf[k])

Next ==
    \/ StartBuild \/ BuildStep
    \/ \E p \in Sweepers : SweepStep(p)
    \/ \E d \in Drops : Request(d) \/ FinishDrop(d)
    \/ EditFormula \/ EditReports
    \/ \E q \in Queries : ReadTables(q) \/ \E ks \in (SUBSET Keys) \ {{}} : PickRows(q, ks)
    \/ Restart

Spec == Init /\ [][Next]_vars

\* The builder is never abandoned by the event loop: its fetch has a deadline
\* (FETCH_TIMEOUT_MS) and its files are local.
FairSpec == Spec /\ WF_vars(BuildStep) /\ WF_vars(SweepStep(Builder))

-----------------------------------------------------------------------------
(* What must hold. *)

BuildPcs == {"idle", "next", "plan", "ask", "create", "insert", "copy",
             "upsert", "prune", "sweep"}
BuildState ==
    [pc : BuildPcs, plan : SUBSET Keys, todo : SUBSET Keys, formula : 1..MaxFormula,
     key : Keys \cup {NoKey}, outputs : Shapes, drifted : BOOLEAN, from : Gens \cup {0},
     rows : Part, data : Table, built : BOOLEAN]
SweepState == [pc : {"off", "on", "unlink"}, todo : SUBSET Gens, cur : Gens \cup {0}]
DropState == [pc : {"idle", "queued", "all", "grain"}, ver : 0..MaxModel]
Tables == [Keys -> Table \cup {NoTable}]
QueryState == [pc : {"idle", "reading", "hit"}, gen : Gens \cup {0}, keys : SUBSET Keys,
               promised : Tables, got : Tables]

TypeOK ==
    /\ model \in 1..MaxModel
    /\ formula \in 1..MaxFormula
    /\ wanted \in PlanSets
    /\ settled \in 0..MaxModel
    /\ manifest \in [Keys -> Row \cup {NoRow}]
    /\ lastGen \in 0..MaxGen
    /\ onDisk \subseteq Gens
    /\ open \subseteq Gens
    /\ tables \in [Gens -> Tables]
    /\ build \in BuildState
    /\ sweep \in [Sweepers -> SweepState]
    /\ drop \in [Drops -> DropState]
    /\ query \in [Queries -> QueryState]

\* The table a row names, when it is still there.
Backing(k) == tables[manifest[k].gen][k]
Served(k) == manifest[k] # NoRow /\ Backing(k) # NoTable

\* A table reachable through the manifest is finished: whatever drops, sweeps
\* and fallbacks did to the files meanwhile, what a row serves is exactly what
\* its build landed, never a table being filled.
ServedFaithfully == \A k \in Keys : Served(k) => Backing(k) = manifest[k].data

\* A query answered from the rollups read, for every fact, the table its row
\* promised before the await: no sweep, restart of a build or new generation
\* in between changes or empties it.
HitsAreWhole ==
    \A q \in Queries : query[q].pc = "hit" =>
        \A k \in query[q].keys : query[q].got[k] = query[q].promised[k]

\* "Zero cache loss": as long as nobody asks for a drop, no step of a build -
\* failed items, fallbacks, the final pruning, a restart in the middle - takes
\* away a rollup that serves, but for keys out of the plan and drifted rows.
NoCacheLoss ==
    [][\A k \in Keys : Served(k) =>
          Served(k)' \/ k \notin build.plan \/ (build.key = k /\ build.drifted)]_vars

\* A build in flight comes to its end whatever fails under it.
BuildEnds == build.pc # "idle" ~> build.pc = "idle"

\* The store implements RollupServing: the manifest rows are what is published,
\* and a query is answered with what was published when it looked, or goes live.
ResultOf(t) == IF t = NoTable THEN NoRow ELSE t
Serving == INSTANCE RollupServing WITH
    Results <- Complete,
    NoResult <- NoRow,
    published <- [k \in Keys |-> IF manifest[k] = NoRow THEN NoRow ELSE manifest[k].data],
    asked <- [q \in Queries |->
                [pc |-> query[q].pc,
                 said |-> [k \in Keys |-> ResultOf(IF query[q].pc = "hit"
                                                     THEN query[q].got[k]
                                                     ELSE query[q].promised[k])]]]
ImplementsServing == Serving!Spec

-----------------------------------------------------------------------------
(* What the comments and the documentation say, and the code does not do.   *)

\* "we're never deleting the file that's actively serving": a sweep unlinks no
\* file a row of the manifest points at, except to clear the whole store.
NeverDeletesServingFile ==
    [][\A p \in Sweepers : SweepStep(p) /\ (p = Builder \/ drop[p].pc = "grain") =>
          (onDisk \ onDisk') \cap Referenced(manifest) = {}]_vars

\* "Model edit / datasource change -> dropAllRollups": once the drop of a model
\* edit is over, nothing computed before that edit is served.
NothingOlderThanTheDrop ==
    \A k \in Keys : Served(k) => /\ manifest[k].data.hot.model >= settled
                                 /\ manifest[k].data.cold.model >= settled

\* "an un-deleted OLD gen file is harmless, the next build/boot cleans it": the
\* files a boot finds are those the manifest points at.
BootCleans == [][Restart => onDisk' \subseteq Referenced(manifest')]_vars

\* "editing a formula left the previous result being served": once a report's
\* formula is saved, no query is promised rows of the previous one.
NoOutdatedFormula ==
    [][\A q \in Queries : query'[q] # query[q] /\ query'[q].pc = "reading" =>
          \A k \in query'[q].keys : query'[q].promised[k].hot.formula = formula]_vars

\* "Skipped -> no rollup for that (grain, fact)": a build that skips a key
\* leaves no row for the planner to serve it from.
SkippedMeansNoRollup == [][SkipItem => manifest'[build.key] = NoRow]_vars

\* "its outputs match the current plan (no spec drift) ... correctness never
\* depends on the optimisation": a table is of one formula throughout.
OneFormulaPerTable ==
    \A k \in Keys : Served(k) =>
        manifest[k].data.hot.formula = manifest[k].data.cold.formula
=============================================================================
