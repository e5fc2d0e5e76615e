# OpenReport in TLA+

TLA+ modules, TLC runs and TLAPS proofs for OpenReport: a report server
(Node/Express, SQLite for its metadata, DuckDB files for materialised rollups,
connectors to the customers' databases) and a React client. The modules model the
places where several requests, timers, builds and files meet; what is plain
request-in, response-out code is listed below and left to the test suite.

Node runs one callback at a time. Throughout, an action is therefore what the
code does between two `await`s, and every `await` is a point where any other
action may happen. Comments in the modules name the function an action stands for.

## 1. The system

| Part | State it keeps | Operations | What makes it hard |
|---|---|---|---|
| Rollup store, `utils/rollupDuckDB.js` | one DuckDB file per (model, build generation), a map of open connections | open, create/insert/copy tables, checkpoint, prune files | files unlinked while connections live; the sweep waits on each close |
| Rollup builder, `utils/rollupBuilder.js` | rows of `rollups` (the manifest), the build in flight per model | build (blue-green, incremental, with fallback), drop a grain, drop a model, drop a datasource | an edit, a drop and a build interleave over minutes |
| Rollup planner, `utils/rollupPlanner.js` | none | find the rows a query needs, read their tables, recompose | the row is read before an await, the table after it |
| Query cache, `utils/queryCache.js` | LRU of results, three indexes, metadata per key | get, set, invalidate a model / datasource, flush | result computed before an invalidation, stored after it; indexes must follow every removal |
| Query route, `routes/models.js` | none | rollup, then cache, then live database | three sources of an answer, each stale in its own way |
| Alert runner, `utils/alertRunner.js` | cron tasks, `last_state` and events of each alert | register, unregister, run one, notify | overlapping runs each act on the state they read before a query and a webhook |
| Rollup planning, `utils/rollupPlanning.js`, `utils/rollupBuilder.js` | none | the grains, selections and measures the saved reports need; the row that serves a query | the plan and the planner are two programs that must agree, over what a third one (the client) sends |
| Cache scheduler, `utils/cacheScheduler.js`, `hooks/useCardCacheWarming.js` | cron tasks per schedule, builds in flight, loaders of the tabs | register, unregister, run one; poll, rebuild from a page | schedules edited or deleted while a tick runs; a run joins a build under way; a tab learns of it in two ways |
| Joins of a model, `utils/joinChecks.js`, `relationships.js`, `sqlBuilder/fromClause.js`, `components/SchemaCanvas` | the draft in the model editor | draw, detect, take a proposal; walk the joins of a query | four places add joins, each with its own checks, to a draft that changes while a server answers |
| Reports, `routes/reports.js`, `reportDrafts.js` | row, versions, draft flag | save, restore, append, discard, purge | several tabs of one report, saves in flight, drafts left |
| Editing, `pages/Editor.jsx`, `pages/AiStudio.jsx`, `hooks/useHistory.jsx` | page on screen, pages aside, history, what is saved | edit, undo, turn pages, save, leave | one history for all pages; edits during a save; leaving a draft |
| Connections, `utils/dbConnector.js` | shared DuckDB instances and pending opens, pools per datasource | open, share, close, retire a file, invalidate | a file closed while an open of it is pending |
| Widget fetching, `client/src/hooks/useWidgetFetch.js` | what each widget shows, the binding it was fetched for, a debounce timer, requests in flight | schedule, fetch, apply or discard an answer | answers out of order, a timer that one widget's change cancels for another |
| Viewer, `client/src/pages/Viewer.jsx`, `utils/syncedSlicers.js`, `pageState.js` | rows and spinners of the page on screen, pages as they were left, filters, slicers' selections, the click that highlights | pick, click, drill, turn pages, bookmark, reload | four sources of filters write one object; a page comes back as it was, or does not |
| Sessions, tokens, drafts | rows in the metadata database | sign, verify, revoke, claim a draft | expiry and revocation |
| Imported sources, `routes/fileUpload.js`, `utils/duckdbFiles.js` | the file a source's row names, files still to remove | import, refresh in a child process, retire, retry, delete | minutes pass between reading the row and writing it; files outlive the process |
| SQL generation (`utils/sqlBuilder`, `measureType`, `sqlDialect`, `rls`) | none | pure translation of a query into SQL | large input space, no state |
| AI assistant, accounting, PBIT and file import, metadata connectors | files and rows | request / response | external services |
| Client pages and components | React state | rendering, editing, undo | mostly view code |

What makes each correct:

- **Rollups**: what a manifest row leads to is a finished table, of one revision;
  a query gets what its row promised or goes to the source; a build loses
  nothing that serves; a drop leaves nothing older than it.
- **Query cache**: every index names exactly the stored entries of its owner, so
  that an invalidation removes what a scan would; nothing outlives a change of
  its source; quotas and the cap hold.
- **Alerts**: the registry follows the rows; an alert's history agrees with its
  state; a transition is told once; an alert left alone reaches the right state.
- **Imported sources**: a row's file exists and is its own; a file no row names
  is removed or written down; connectors and instances are of current files.
- **Planning**: what a rollup answers is what the source would; a visual of a
  saved report finds one.
- **Cache scheduler**: the registry follows the rows; what the scheduler builds is
  never older than what was there, and catches up; a tab shows what was rebuilt
  once its loader goes, and the loader goes.
- **Joins**: the incremental checks say what checking the whole draft would; a
  FROM clause connects all that is asked, and multiplies no dimension.
- **Reports and editing**: nothing saved is lost; what looks saved is stored; a page's
  content stays its page's.
- **Widget fetching**: answers are shown in the order asked; once nothing is
  awaited a visual shows what it is bound to; a spinner awaits something.
- **Viewer**: the same, across pages; no filter outlives what set it; pages with a
  synced slicer agree on its selection.

## 2. The modules

| Module | Models | Beside it |
|---|---|---|
| `RollupStore` | the store, the builder, the drops, the planner's read | `RollupServing` (abstract), `RollupStoreProofs`, `MCRollupStore` |
| `QueryCache` | the result cache and the route that fills it | `ScanCache` (abstract), `QueryCacheProofs`, `MCQueryCache` |
| `CronTasks` | which rows get a cron task: expressions, timezones, what a boot registers | (extended by the two below) |
| `AlertRunner` | alerts, their cron tasks, evaluations and notices | `CronProofs`, `MCAlertRunner` |
| `SourceFiles` | imported files, their rows, connectors and instances | `CalmFiles`, `SourceFilesProofs`, `MCSourceFiles`, `MCCalmFiles` |
| `ReportRow`, `ReportEditing` | a report's row, versions and draft; the tabs that edit it | `ReportEditingProofs`, `MCReportEditing` |
| `CacheScheduler`, `CacheWarming` | schedules, cron tasks and shared builds; a tab that watches them | `CronProofs`, `MCCacheWarming` |
| `JoinGraph`, `JoinEditing` | what is read off a set of joins; the ways a draft gets them | `JoinEditingProofs`, `MCJoinEditing` |
| `RollupMatching` | from saved reports to rollups to answers | `MCRollupMatching` |
| `WidgetFetch` | the editor's fetch effect, the acts that wake it, the undo history | `WidgetFetchProofs`, `MCWidgetFetch` |
| `ReportViewing` | a report as its readers turn, filter and drill it | `ReportViewingProofs`, `MCReportViewing` |

An MC module gives the constants of its model their sets and names the symmetry;
a `.cfg` picks among them and names the specification and the properties.
Definitions headed `Bug:` are not used: they are mutated forms of the definition
they stand next to, the mistakes the properties have been shown to catch.

### RollupStore

One model's manifest (`manifest`), generation files (`onDisk`, `open`, `tables`:
a file unlinked while a connection is open keeps its contents for that
connection), the one build in flight (`build`, a program counter over the awaits
of `_buildRollupsForModelInner` and `buildRollup`), a sweep for the build and one
for each drop (`sweep`: `pruneGenFiles` waits at each close), the drops and the
queries. What a table holds is the revision of the model and of the report
formulas its rows were computed at, apart for the recent and for the older
partitions, because an incremental build re-reads the former and copies the
latter. `Begin/Skip/PlanItem`, `Ask`, `CreateTable`, `InsertRows`, `CopyCold`,
`FallBack`, `ItemFails`, `Upsert` are one item of a build; `PruneRows` and
`FinishBuild` end it. `EditModel`, `EditDatasource`, `ClearWorkspace`,
`DropRollup` and their continuations are the drops. `PickRows` and `ReadTables`
are the two halves of `tryServeFromRollup`, an await between them.

`RollupServing` is what all this promises to a query: per key a finished result
is published or none; a query looks, and is later answered with exactly what it
saw or goes live. The refinement mapping takes the manifest's rows for what is
published, and the promise of a query in flight for what it saw.

### QueryCache

`entries`, `keyMeta` and `index` are the LRU, the metadata of its keys and the
three indexes (as one function from owners to keys). `flight` holds the options
of queries waiting for their source: what they store later may have been read
before a switch of that source, which is what `late` and the `age` of an entry
record; both are history, and no guard reads them. Which live entry an eviction
takes is a free choice (the code's LRU order decides it).

`ScanCache` is what the cache promises to the route and to those who change sources: one set of
results, each with the options of its query. A result is kept only as far as the settings and the plan allow,
by looking at everything held for the organization, and an invalidation drops what
a look at everything would. It has no index, no metadata and no expired entries. It does not say that a
result is kept, and does not tell a refusal from a failure. The refinement mapping takes the entries a
lookup finds (`Found`) for what is held.

### AlertRunner

An evaluation (`run`) reads the row, waits for a query, waits for the channels if
there is something to say, and writes the row it read the state of. A channel
accepts, refuses or fails. Deletions by cascade leave
the cron task, as in the code; its ticks find no row.

`CronTasks` is what the alerts share with the cache schedules. `NodeCron` is the subset of the
expressions the routes let through (cron-parser) that node-cron accepts too. `KnownZones` is the subset of the
timezones it can schedule in: no route checks a timezone, and `cron.schedule` throws on another one (`Throws`). In a route the row
has been written and the old task stopped by then, so that the row stays, enabled, without a task. At a boot
the throw ends the loop (`alertRunner.js:252`, `cacheScheduler.js:84`), caught only outside it: `Booted` takes any
subset of the rows due, as the `SELECT` orders none.

### SourceFiles

A path is a number: `versionPath` never gives one twice. `ChildDone` is the end
of the child's work, `Switch` the parent's `close` handler, a gap in which the
process may stop. `Load` and `Connect` are the query route's read of the source
and its `createConnection`, with the planner's awaits between. `Restart` keeps
`row`, `disk` and `pending`. Whether the system lets a file be removed at once is a
free choice of `Retire` and `RetryPending`. `RunningSpec` is `Spec` without
`Restart`. `CalmFiles` adds a history variable, `calm`: so far no process has stopped, no source
was the object of two jobs and no query was overtaken by one. The code does not
enforce that, and two of the properties need it.

### WidgetFetch

React renders an act and runs its effects before another act or answer: an act
and the run of the effect it wakes are one step, with the cleanup of the run
before (timer cleared, marks reverted). The report has one slicer, and clicks
filter on the same dimension as it does, the case in which they meet. A `Key` is what
`computeBindingKey` tells apart, as the binding (with the drill level) and the
effective filter. A batch is the queries of one timer; `marked` is
`pendingLoadingRef`. A page of the history carries the visuals' data and spinners
as they were when recorded. `CalmSpec` keeps to acts the effect can follow (see
the comment on `Unhurried`), `SettledSpec` lets the user act only when everything
asked for has been answered.

### ReportViewing

The viewer has no history and no debounce, but pages. `screen` is the page's
visuals, `filters` is `reportFilters`, which slicers, clicks, drills and bookmarks
all write; `slicers` and `highlight` say what of it is whose. `Turn` is
`pageSwitchHandler` with its three outcomes: a page as it was left (`Revisit`), as
it was left but asked for again because a synced slicer moved (`RevisitSynced`),
or afresh (`Visit`). `shared` is the selection of each group of synced pages,
`loads` the versions of the report whose model is being read: the first, then
those the studio makes. A request in flight is `newest` when its number is the
visual's in `fetchSeqRef`. A key is what a visual is asked for, its level and what of
the filters reaches it.

`Spec` has every act the page offers. `SteadySpec`, which is checked, leaves out those the fetch
effect cannot follow; `Spec` shows what they do, in the table below: a visual drilled
before there is a model, or while it is the one clicked; one clicked whose rows
are not of its level yet, or that something else filters on the same field; a
page turned while a model is read; a bookmark saved under a click; a
reload over a selection of another page.

### ReportRow and ReportEditing

`ReportRow` is the server's side, one step per handler: `Put`, the two appends,
`Restore`, and the three ways a report goes (`DropDraft`, `PurgeStaleDrafts`,
`Delete`). A body is the page it was made for and a revision; `log` is the history
of documents, `times` that of the seconds they were written in, and no guard reads either. A
version is a row of `report_versions`: a document, which one it was, and `saved_at`, a whole second. The pruning
goes by `saved_at` alone: among versions of one second `Snapshot` keeps any. Two writes fall in one second or in
two, as each may (`Write`). `ReportEditing` extends it with tabs. An editor
(`editor`) has the page on screen in its `history` and the others `aside`; the
history is one for all pages, as in the code, and starts with an empty page. A
studio records whole documents. `puts` are saves in flight: a save keeps the
document it was given while the user goes on, and what its answer does to `saved`
and to the title is `Accepted`, or `Refused`. `Unmount` and `dropping` are the
two halves of leaving a draft; a killed tab has only the first.

### CacheScheduler and CacheWarming

`CacheScheduler` has the rows of `cache_schedules` (`sched`), the cron tasks
(`tasks`), and the builds, one per model, which any number of runs wait for
(`promise`, `runs`). A build is one unit: it reads the reports (`plan`), later the
data (`read`), and publishes both when it ends; `RollupStore` has what happens
inside. Revisions of reports and data stand for their changes. `CacheWarming` adds
one browser tab, on the editor or on the dashboard: the POST of its "Rebuild" button, the poll
of `/cache-schedules/warming`, the loader or the spinners, and what the widgets
last read (`shown`). `owed` is what was built while the loader was on.

### JoinGraph and JoinEditing

`JoinGraph` is pure: loops, second paths and duplicates as the server's and the
diagram's checks see them, the facts of a model and the dimensions conformed to
them, and the FROM clause, with walks as a recursive function. `JoinEditing` is a
draft and the four ways it gets joins: drawn and toggled in the diagram, detected
by the server from samples (a request, answered for the draft as it was sent), proposed by the
assistant as a card, removed. `Acyclic`, `OneWay` and `OneJoinPerPair` say of the
whole draft what the code finds one join at a time. A join's two sides are set together or
not at all (`Drafts`), as every place that writes them does. A proposal goes through the
same checks as a detection, on the draft without what it removes (`Proposed`). What the code filters is a fold
here (`Among`), and what it sorts an insertion into what is sorted (`ByScore`), because the prover knows no facts about
`SelectSeq` and `SortSeq`.

### RollupMatching

The saved reports give a plan (facts, grain of each visual, base filters, measures
cut into atoms), a build writes one table per key from the data, and the planner
answers each query a visual sends (with its drill, total, comparison) from
the row it finds, or goes live. `IsLive` is the reference: whether an answer is what the same query gives
over the rows of the facts. Data do not change and a build is one
step here, because what is in question is whether two programs agree, and not
when; a figure is an integer, a ratio is in hundredths, and a missing value is
`NoValue`. The planner takes a missing figure for zero where it compares it with a rule (`Passing`)
or ranks it (`TopRows`), as `Number(null)` is zero; the source excludes it from every
comparison (`LivePassing`) and ranks it last (`IsLive`). `AnswersAreLive` therefore speaks of
queries in which that makes no difference (`ZeroTells`), whatever operator their rules have, and
`MissingIsExcluded` shows what happens in the others.

## 3. The runs

| Run | Bounds | Shows |
|---|---|---|
| `RollupStoreServes` | 1 key, 2 builds, 1 drop, 1 query, 2 model revisions | what a row serves is a finished table; a hit is what the rows promised; the store implements `RollupServing` |
| `RollupStoreBuilds` | 2 keys, 3 builds, 2 formula revisions, fair | builds lose nothing that serves, and end |
| `QueryCacheAny` | 3 keys, 2 models, 2 sources, an organization with a quota of 3, caps of 2 and 5, 1 query | exact indexes, exact invalidations, nothing outdated but what came late, quota; the cache implements `ScanCache` |
| `Alerts` | 1 alert, 2 evaluations that may overlap, 2 values, 4 settings, history of 2, a neighbour that gets no task, fair | the registry follows the rows but for a boot cut short; without overlap the history is that of the state and a transition is told once; an alert left alone converges |
| `SourceFilesAny` | 2 sources, 2 jobs, 2 queries, 3 paths, restarts | no row loses its file; no waiter without an open; while it is calm, no file forgotten and nothing stale cached |
| `WidgetFetchAny` | 2 visuals, 3 acts of every kind, history of 2 | no older answer comes back |
| `WidgetFetchCalm` | 2 visuals, 2 values, 4 acts | what settles is current; spinners end |
| `ReportViewingAny` | 2 pages, 3 visuals, 2 dimensions, 2 values, a synced slicer and one that is not, 4 acts, reloads, failures | what does not spin is current; spinners await; synced pages agree; each filter has its source |
| `ReportEditingAny` | 1 editor, 1 studio, 4 acts, 3 page ids, 2 versions, history of 3 | saves are kept; what looks clean is stored; leaving saves or drops what it should; pages keep their bodies |
| `CacheWarming` | 1 report, 1 schedule on or off or of an unknown timezone, a neighbour of such a timezone, 2 builds, 1 change of reports and of data, 1 restart, fair | the registry; what was rebuilt is on screen; rollups never go back, and catch up; loaders end |
| `JoinEditingAny` | 4 tables, 2 acts, up to 4 joins, 2 detections and 2 cards on each of 4 drafts | checks are exact; a FROM clause is whole and multiplies no dimension of a fact; answers keep the rules |
| `RollupMatchingAny` | 2 slots for reports, 4 reports to save, 4 saves and builds, every pick of every reader | what a rollup answers is what the source would, zero for a missing figure apart; a saved visual is served |

Why these bounds are enough to be interesting: two builds are what an incremental
build, a fallback and a sweep need (the second copies from, and sweeps, the
first's file), the third is what `NoCacheLoss` needs to see a plan shrink and
grow; one drop and one build are the two sweepers that can meet; one query
meets every one of their steps. Two keys let one item of a build fail and the
other land. Two sources in the cache make entries that belong to both. Two
evaluations are the least that overlap, and a history of three holds a wrong
pair with what precedes it. Three paths give one source two successors, or each
of two sources a file and one a successor. Two tabs and four acts are what it takes to edit, save, edit again
and leave, next to another save; three page ids let one page be added; a version cap of two prunes, and four writes in as few seconds as they like tie.
Two builds in flight are what `PromisesAreBuilds` must exclude, one revision is a
change to miss, one restart a registry to rebuild. The neighbour of `Alerts` and of `CacheWarming` is there for the
boot that a throw cuts short: it is made with a timezone node-cron does not know, never runs and is not deleted
(`NextToNeighbour`). To keep the state space small, the alert beside it does not overlap with itself while the neighbour
exists, only the neighbour is given an expression node-cron refuses, and no tab is open while a schedule has such a timezone. Four tables hold a fact with
a chain of two dimensions and a second fact; the four reports offer every shape the plan
tells apart: drill, total, legend, comparison, HAVING, top, ratio over two facts,
an exception to the filter bar; rules of five operators on figures some of which are missing, negative, or zero in sum, one of them left to
the source. Two visuals and three acts reach all but the last of the fetch
loop's disagreements below; the fourth act lets one come after a settled three.
Four acts of a reader turn a page, pick on the other, come back and go on, with a drill or a
click in between; two values tell a selection from the one before.
The `Max...` constants and `HistoryCap` bound what the code leaves
unbounded, or bounds at 50 and 200.

**Where the code does otherwise than it says.** The disagreements met while
modelling are stated in the modules as properties that no run checks. Each
shows, as a counterexample TLC finds in seconds, when the property alone is put in the `.cfg`
named (seven of these `.cfg` files serve nothing else), with the constants given:
an action property, marked *P*, under `PROPERTIES`, the others under `INVARIANTS`.

| Property | What the code does | `.cfg`, changed in |
|---|---|---|
| `NothingOlderThanTheDrop` | a build under way publishes, after the drop of a model edit, rows it read before the edit (`rollupBuilder.js:953`, against `:1271`) | `RollupStoreStale` |
| `NeverDeletesServingFile` *P* | a drop of one grain decides what to keep, waits on closes, and unlinks the file a build has meanwhile published (`rollupBuilder.js:1266`, against `rollupDuckDB.js:175`) | `RollupStoreStale`: `Keys = {k1, k2}`, `PlanSets <- WholePlan`, `MaxGen = 3`, `MaxModel = 1` |
| `BootCleans` *P* | files left by a failed build or a crash are still there after a boot (`rollupDuckDB.js:161`) | `RollupStoreStale`: `Drops = {}`, `MaxModel = 1` |
| `NoOutdatedFormula` *P* | a report formula changes, and the rollups of the old one answer (`routes/reports.js:797`) | `RollupStoreStale`: `Drops = {}`, `Queries = {q1}`, `MaxModel = 1`, `MaxFormula = 2`, `ShapeOf <- RecipeOfFormula` |
| `SkippedMeansNoRollup` *P* | a key that a build skips keeps its earlier row (`rollupBuilder.js:802`, against `:797`) | the same without query, and `Barren <- NoAtomsLeft` |
| `OneFormulaPerTable` | an incremental build joins partitions of two formulas when the recipe is the same (`rollupBuilder.js:837`) | `RollupStoreStale`: `Drops = {}`, `Incremental = {k1}`, `MaxModel = 1`, `MaxFormula = 2` |
| `DropsWhatWasRead` | a query in flight across an import stores what it read before it (`routes/models.js:2779`, against `fileUpload.js:472`) | `QueryCacheAny`: `CacheOpts <- OneQuestion` |
| `NextRefreshHitsTheSource` | two models with the same SQL share an entry listed under one of them (`queryCache.js:84`, against `routes/models.js:295`) | `QueryCacheAny`: `Models = {ma, mb}`, `CacheOpts <- SharedSQL` |
| `RefusesOnlyOverBudget` *P* | the refresh of an entry counts the entry it replaces (`queryCache.js:115`, against `:106`) | `QueryCacheAny`: `CacheOpts <- OneOrgQuestion` |
| `LastWordIsTrue`, `NotTwiceInARow` | two evaluations of one alert write over each other, or both notify (`alertRunner.js:180` and `:196`, against `alerts.test.js:123`) | `Alerts` |
| `RecoversInBetween` | an error between two red evaluations notifies twice (`alertRunner.js:180`, against `schema.sql:204`) | `Alerts` with `AlertSpec`; without overlap `Runs = {1}`, `HistoryCap = 3` |
| `EnabledHaveTasks` | an alert is stored with a timezone nobody checks and `cron.schedule` throws on; at a boot the throw leaves the loop, and alerts after it get no task (`alertRunner.js:244` and `:252`, `routes/alerts.js:71`, against "Hot-load every enabled", `index.js:316`) | `Alerts` |
| `EnabledAreLoaded` | the same of schedules (`cacheScheduler.js:43` and `:84`, against `index.js:316`) | `CacheWarming` |
| `BuiltFromCurrent` *P* | of two imports of one source the later to end was built without the other (`fileUpload.js:269`, against `:255`) | `SourceFilesLost` |
| `NoFileIsForgotten` | two jobs of one source, or a stop, leave a file nobody removes (`fileUpload.js:296` and `:303`, against `duckdbFiles.js:12`) | `SourceFilesLost`, and with `Spec` |
| `ConnectorIsCurrent` | a query that read the row before an import caches a connector to the old file (`dbConnector.js:1116`, against `datasources.js:354`) | `SourceFilesLost` |
| `InstancesAreServed` | an open in flight lists its instance after its file was closed (`dbConnector.js:72`, against `:40`) | `SourceFilesLost` |
| `SettledIsCurrent` | a filter set and set back, and the answer to the one in between stays (`useWidgetFetch.js:202`, against `:58`) | `WidgetFetchBack` |
| | an edit of another visual within 150 ms drops the first one's fetch (`useWidgetFetch.js:386`) | `WidgetFetchBack`: `Widgets <- TwoWidgets`, `Acts = {"edit"}` |
| | a click on a visual another click filters leaves it filtered (`useWidgetFetch.js:177`) | `WidgetFetchBack`: `SettledSpec`, `Widgets <- TwoWidgets`, `Acts = {"click"}` |
| | a slicer set to the value clicked leaves the clicked visual unfiltered (`useWidgetFetch.js:75`) | `WidgetFetchBack`: `SettledSpec`, `Acts = {"slicer", "click"}` |
| | an undo brings back data of the filter before (`useHistory.jsx:46`) | `WidgetFetchBack`: `SettledSpec`, `Acts = {"slicer", "restyle", "undo"}`, `HistoryCap = 3` |
| `SpinnersEnd`, `LoadsSpin` | a spinner without a fetch (`useWidgetFetch.js:380`), a fetch without a spinner (`:389`, both against `:388`) | `WidgetFetchBack`: `Widgets <- TwoWidgets`, `Acts = {"slicer", "edit"}`, `MaxActs = 4` |
| `ScreenShowsItsPage` | an undo after turning to another page shows the page before under the name of this one, and a save stores it there (`Editor.jsx:1235`, against `:289`) | `ReportEditingUndo` |
| `VersionsGoInOrder` | of two writes in one second the later version may be pruned before the earlier (`reports.js:684`, by `saved_at` alone, against "FIFO pruning", `db/index.js:218`) | `ReportEditingAny` |
| `OneFactPerBuild` | the FROM clause of a grain walks through a second fact to reach a dimension, and multiplies the rows of the first (`fromClause.js:31`, against `rollupPlanning.js:220`) | `JoinEditingFanOut` |
| `AnswersAreLive` | the hash of a selection leaves out the value of a rule that has one (`rollupPlanning.js:36`; the client sends it with `values: []`, `FilterRulesEditor.jsx:268`): the rollup of one year answers for another (against `rollupBuilder.js:1307`) | `RollupMatchingScalar` |
| `MissingIsExcluded` | a row whose figure is missing passes a rule that zero passes, in a rollup and not at the source (`rollupPlanner.js:144`, against `:135`) | `RollupMatchingAny` |
| `VisualsAreCurrent` | a page turned while the model is read shows the rows its report was saved with (`Viewer.jsx:205`, against `:568`) | `ReportViewingFree`: `Acts = {"turn"}` |
| | a click taken back by drilling its visual leaves the others filtered by it (`Viewer.jsx:511`) | `ReportViewingFree`: `Acts = {"click", "undrill"}` |
| | a click on a visual that a slicer filters on the same field leaves it filtered (`Viewer.jsx:636`, against `crossFilter.js:31`) | `ReportViewingFree`: `Acts = {"pick", "click"}` |
| `SpinnersAwait` | a visual drilled before the model is there is the only one fetched when it comes: the others spin (`Viewer.jsx:618`, against `:624`) | `ReportViewingFree`: `Acts = {"click"}` |
| `FiltersAreShown` | a bookmark saved under a click filters by it without showing it (`Viewer.jsx:791`) | `ReportViewingFree`: `Acts = {"click", "bookmark"}` |
| | a reload with a selection of another page drops this page's from its slicers and keeps it in the filters (`Viewer.jsx:351`) | `ReportViewingFree`: `Acts = {"turn", "pick", "reload"}`, `MaxActs = 4` |

In the fetch loop's disagreements the data panel is left out: it fetches for the
visual that is selected in it, and may repair that one.

Others were met by reading and have no property, because they need what the
modules leave out or are of one line:

- *Editing.* An undo right after a report loads shows the empty page the history starts with
  (`Editor.jsx:1628`). Deleting a page loses the edits of the page on screen that are
  not yet aside (`Editor.jsx:1257`). A title freed between the studio's check and its save is
  suffixed all the same (`AiStudio.jsx:253`). A draft edited for more than a day is
  purged under its editor (`reportDrafts.js:28`, against `:8`). Restoring or duplicating
  gives a report a title that is taken (`reports.js:947` and `:1009`, against `:256`).
- *Viewing.* A double click on a chart drills it by the field it has just left, as its rows are still on screen
  (`Viewer.jsx:527`). A page left while it loads comes back without its own selections (`Viewer.jsx:242`); a selection saved
  on a slicer of another page than the first is ticked and not applied (`FilterWidget.jsx:62`, against `Viewer.jsx:249`), and
  stays ticked when a bookmark without it is applied (`FilterWidget.jsx:65`).
- *Scheduling.* A refresh that joins a build under way answers with data older than its
  `refreshed_at` (`API.md:91`). After one failed poll a loader stays, and blocks its
  button (`Editor.jsx:1062`, `useCardCacheWarming.js:88`); the dashboard's
  poll stops if nothing builds when the page opens (`Dashboard.jsx:794`).
- *Joins.* A draft in which a loop was made by a toggle, or came with a sample, makes the detection
  walk for ever (`joinChecks.js:35`). One second path drawn by hand makes every candidate of a detection
  skipped, for a reason that is not theirs. Applying part of a card can break the rules the whole card keeps
  (`modelProposal.js:88`); applied to a draft changed since, it adds duplicates (`ModelEditor.jsx:333`).
- *Planning.* The bar's rule without a value is dropped by the client and hashed by the plan: that report is never
  served. The row is looked up by dimensions and selection, so that another report's smaller superset
  without the measure shadows one that has it, and of two reports the first wins
  (against "last build wins", `ROLLUP-CACHE.md`). The thresholds of a gauge are never planned; a slicer
  served by a rollup does not list the members without facts (`rollupPlanner.js:695`) and
  ignores ranges (`:725`); a count with nothing to count is null from a rollup and 0 from the source;
  a missing figure is ranked as a zero in a top of a rollup and last in the source's (`rollupPlanner.js:609`, against `orderLimit.js:12`).

`CHECK_DEADLOCK FALSE` is there where the bounds (paths, acts, revisions) let the model
stop, and nowhere else.

**Fairness.** `RollupStore!FairSpec` asks that the build in flight, and its own
sweep, go on: the fetch of a build has a deadline and its files are local, so the
event loop always comes back to it; drops and queries get none. `AlertRunner!FairAlertSpec`
asks that an evaluation under way goes on (its query and its webhooks time out)
and that the cron task of a registered alert keeps ticking, which is node-cron's
whole job. `CacheWarming!WarmFairSpec` asks that cron tasks tick, that a build under
way reads and ends, that a request is served, refused or found broken and its answer is handled, and that
a poll timer fires; not that a poll succeeds, which `LoaderEnds` has as its premise, nor that anybody clicks. Nothing
else is assumed, and no other liveness is claimed. `MCAlertSpec` and `MCWarmSpec` ask for the same of
the instances that the runs check.

## 4. The proofs

Every theorem holds for all values of the constants that satisfy the assumptions
stated next to them; TLC evaluates those in every run.

| Theorem | Says |
|---|---|
| `RollupStoreProofs!TypeCorrect`, `ServedIsFinished`, `HitsAreFinished` | types; `ServedFaithfully`; `HitsAreWhole` |
| `RollupStoreProofs!NothingIsLost` | `NoCacheLoss`, while nobody asks for a drop (`Drops = {}`) |
| `RollupStoreProofs!Implementation` | the store refines `RollupServing` |
| `QueryCacheProofs!TypeCorrect`, `IndexesAreExact`, `DropsAreExact`, `OldResultsGo` | types; `IndexesExact`; `DropsExactly`; `OutdatedOnlyIfLate` |
| `QueryCacheProofs!QuotaIsKept`, `CapIsKept` | `QuotaHolds`; `CapHolds`: storing an answer leaves no more live entries than the cap |
| `QueryCacheProofs!Implementation` | the cache refines `ScanCache` |
| `CronProofs!AlertTypeCorrect`, `AlertJobsFollowRows` | types; `JobsFollowRows`: no task too many, and none lost but by a boot that met an unknown timezone |
| `CronProofs!SerialHistoryIsTrue` | `HistoryIsTrue`: an alert's last event is of its state, as long as it is not evaluated twice at once |
| `CronProofs!SerialHistoryIsNotRepeated` | `SaidOnce`: as long, it never repeats its last event |
| `SourceFilesProofs!TypeCorrect`, `RowsKeepTheirFiles`, `WaitersAreAnswered` | types; `RowsNameTheirFiles`; `WaitersHaveAnOpen` |
| `SourceFilesProofs!FilesHaveOwners`, `ConnectorsFollowRows` | `CalmForgetsNoFile` and `CalmConnectorIsCurrent` of `CalmFiles` |
| `WidgetFetchProofs!TypeCorrect`, `AnswersStayInOrder` | types; `NewestWins` |
| `WidgetFetchProofs!CalmEditingSettles`, `CalmSpinnersEnd` | `SettledIsCurrent` and `SpinnersEnd` under `CalmSpec` |
| `CronProofs!TypeCorrect`, `RegistryFollowsRows`, `RollupsGoForward` | of the scheduler alone: types; `RegistryIsTrue`, in which the same is said of the schedules; `CacheNeverRegresses` |
| `CronProofs!TabOnlyWatches`, `RebuiltIsShown` | with the tab: the scheduler's `Spec` still holds; `RebuiltIsOnScreen` |
| `JoinEditingProofs!EditingTypeCorrect` | types of a draft and of what is under way |
| `JoinEditingProofs!ChecksAlwaysExact` | `ChecksAreExact`: over any finite set of tables the check of a loop and the count of paths say what enumerated paths do |
| `JoinEditingProofs!AnswersAlwaysKeepTheRules` | `AnswersKeepTheRules`: an answer applied to the draft it was made for leaves a sound draft sound |
| `JoinEditingProofs!FromAlwaysWhole` | `FromIsWhole`: the FROM clause takes every table of the fields that joins link to its root, and leaves out the others alone |
| `JoinEditingProofs!NearDimensionsNeverFanOut` | `NearDimensionsDoNotFanOut`: on a sound draft of many-to-one joins, a query of a leading fact and of dimensions two joins away at most counts each row of the fact once, in whatever order the fields are met |
| `ReportEditingProofs!TypeCorrect`, `SavesStayKept`, `CleanTabsAreStored` | types; `SavesAreKept`: versions are documents held before, as many as the cap allows, none older by the second than one pruned; `CleanIsStored` |
| `ReportEditingProofs!LeavingWaitsForTheSave`, `PagesAreKept` | `LeavingSaves`; `PagesKeepTheirBodies` |
| `ReportViewingProofs!TypeCorrect`, `SyncedPagesShareTheirSelection` | of every act (`Spec`): types; `SyncedPagesAgree` |
| `ReportViewingProofs!FiltersHaveTheirSource`, `SpinnersEnd`, `RowsAreCurrent` | `FiltersAreShown`, `SpinnersAwait`, `VisualsAreCurrent` under `SteadySpec` |

The arguments:

- **RollupStore.** `ServedFaithfully` is not inductive: nothing in it says that the
  generation being filled is not one a row names. `IInv` adds that rows are of
  generations already handed out (`RowsBehind`), that the build alone writes the
  newest one and what it has written there so far (`WriterAlone`, `Fresh`,
  `Item`), what an incremental item copies from (`ColdSource`), and that a query's
  promise is of a finished table or of none (`Promises`, `OnlyAsked`). Sweeps only
  take tables away (`Shrinks`), builds only add to their own generation (`Works`);
  the lemmas are organised along that split. `NothingIsLost` adds `Kept`: without drops
  the one sweep is the one that ends a build, over files no row references and no
  connection reopens, so every open file is on disk, a restart finds the tables of every
  row, and the table a row is flipped to is there. The refinement maps `Upsert` to
  `Publish`, the drops, skips and prunings to `Retract`, `PickRows` to `Look`,
  `ReadTables` to `Answer` or `GoLive`, the restart to `Crash`, the rest to
  stutters.
- **QueryCache.** `IndexesExact` is inductive with the types; what it rests on is one
  lemma about the removal of any set of keys and one about a store over an older
  entry. `DropsAreExact` follows from it. `OldResultsGo` adds that a key's
  sources do not depend on who asked (`CacheAssumption`). `QuotaIsKept` needs nothing more: the
  check is a sum over the index, which is exact, and what it adds up is what answers. Most of its proof
  is about sums: that the fold of `Bytes` has the value its recursion asks for on every finite set,
  that it grows with the set and that an element adds its size. Keys are finitely
  many for that reason (they are digests). `CapIsKept` counts what `Evictions` leaves; no run lists
  `CapHolds`, which TLC confirms under `PROPERTIES` of `QueryCacheAny`. The refinement maps a store to `Answer` when the entry can be
  kept and to `Leave` when not; the quota sums an index, and `ScanCache` what is held, so that `IndexesExact` makes the
  two sums bound each other, and makes each drop through an index the drop of a scan; the cap is carried over by what `CapIsKept`
  rests on. Purges, the removal of expired entries that a store or a lookup does on its way, and the expiry of what nobody would find are stutters.
- **AlertRunner.** The history's truth needs, for the evaluation in flight, that the
  state it read is still the row's, which holds as long as evaluations of an alert
  do not overlap. That is an assumption of the theorem (`[]OneRunPerAlert`), the
  very one TLC violates without it. From the same invariant, `SerialHistoryIsNotRepeated`: a notice is
  written when the verdict differs from a state the last event agrees with, so the event is new, and
  the cap keeps a suffix of the history. The registry needs two facts: no task is one too many
(`NoStrayJob`, of the invariant), and no step but a boot that throws takes a task from an alert due (`AlertKeepsTask`).
- **SourceFiles.** A row's file is safe because a job's new path is no one else's
  (`NewIsFresh`), is on disk once the child is done (`NewIsWritten`), and the old
  path a job will retire is the row's own, or no row's any more (`OldIsOurs`). While calm, the row stays
  what a job read of it until the job's own switch (`RowsFollowJobs`), so that what the job then retires is the only file
  the source had; `JobsHoldFiles` says which files a job has at each of its steps, and `UnbornAreUnseen` that
  nobody has read or connected to a source that has no row yet.
- **WidgetFetch.** Order needs one request per visual (`OnePerVisual`), newer than what is
  shown (`Ahead`) and than what any recorded page shows (`AheadOfPast`, which an undo relies on). `Current` is the strengthening of `SettledIsCurrent`: what the
  timer holds, else what is in flight, else what is shown, is the visual's key.
  `LeftAlone` says why a visual a run does not ask for keeps that.
- **CacheWarming.** Rollups go forward because a build plans and reads what was wanted and
  there after the last one ended: `NeverAhead` orders the rollups, the build in flight and the
  world, and `PromisesAreBuilds` says that there is one build per model, so that no other can end in
  between. The tab changes nothing of the server (`TabOnlyWatches`), so the same facts hold with it;
  `RegistryIsTrue` is an invariant of tasks and promises and, as for the alerts, a fact of each step (`KeepsTask`).
  `TabBehind` adds that what is owed is of a past of the rollups, and every way the loader goes is a refetch.
- **JoinEditing.** The content is in what the code computes. `Reach` is the least set that holds its
  start and is closed under the edges (`ReachIs`): a chain of sets of tables that stops growing stops within
  as many steps as there are tables. A draft lines up exactly when its tables can be given ranks that go up
  along the edges (`AcyclicIsRanked`, by sorting the ranks), whence `LoopCheck`. The code counts walks and the property speaks
  of paths: the number of ways to a table is that of the paths that end there as far as none, one and several go
  (`WalksCount`), and on a draft without a loop no walk is longer than the draft or than the tables (`WalksFit`), so that the bounds
  cut nothing. Acyclicity, one way and one join per pair each pass to a smaller draft (`SubDraftIsSound`). The folds of
  `Detected`, `Among` and `Applied` are turned into steps (`FoldToSteps`): along a detection the draft so far is sound if the first was
  (`DetectedIsSound`). A card is applied by other code than the one that checked it: on a sound draft the joins the editor
  keeps are those the server kept (`RestIsWithout`), and none of those it adds is taken for there already
  (`AddedIsAll`). The invariant `EditInv` is the shapes, and that a card says what the server made of some wish on the draft it was sent.
  The FROM clause is four loops, each turned into steps. The sort keeps the tables it is given, once each (`ByScoreIs`). The search from the
  root visits a connected table at each step, so that as many steps as there are tables visit them all, and hangs each from one visited before:
  its rank, the step it was met at, goes down along the parents (`ParentsIs`). The way up from a table therefore ends at the root within as many
  steps (`BridgesIs`), and a list with all of them holds, with a connected table, its parent (`ListIs`). The loop that takes tables stops when
  none left is joined to one taken; were a connected one left, the lowest of these in rank would be, its parent being taken (`NoneLeft`).
  That near dimensions do not fan out needs the order of these loops. On a sound draft of many-to-one joins the dimensions of a fact are layers:
  a join from a layer leads to the next, as two walks between the same tables would be two ways (`LayersAre`). The fact has the highest score and
  comes first (`LeaderFirst`). The search has the tables one join away in front of its queue until those they lead to are met
  (`FrontIsNear`, `NearParents`), so that the list stays within the layers (`ListWithin`), and the tables are taken layer after layer, each by the
  join that leads to its one side (`Spread`, `SpreadAtLast`), which is the closure `RowsOnce` computes.
- **ReportEditing.** The row's part of `IInv` says that the log is never empty, that the row is its end, that seconds do not go back
  (`Dated`), that the versions are of the past as `VersionsAreThePast` says, and that a draft has a log of one document, hence nothing to restore. A tab's part: the page on
  screen is the current one of an editor whose pages are distinct, histories are of pages or of
  documents as the tab is (`GoodEditor`, `GoodStudio`), and what a tab takes for saved is in the
  log (`KnowsLog`). A save in flight carries what the tab showed
  when it was sent (`GoodPut`); only a studio's may be retitled by the server, so what an editor
  remembers is what was written. A document loaded must be whole (`EditingAssumption`): every page of it distinct.
- **ReportViewing.** The groups of synced pages are a closure computed by iteration; that two pages of a
  group have the same one (`GroupHoldsPage` and its companions) needs the
  iteration to end. `SyncedPagesAgree` then is inductive with the types, whatever the acts. Under `SteadySpec` the invariant adds where filters come from (`FiltersHaveSources`) and `Steady`: a visual
  has at most one newest request; it spins only if that one is in flight; the request asks for
  what the visual's drill and the filters ask for now; what does not spin shows that already; and the same
  holds of the pages put aside, under the filters they were left with.

Induction over numbers and finite sets is done by the least counterexample (`Least`, from the
well-foundedness of `<`), as the library's induction theorems take an operator. The parts of each
invariant have been checked by TLC on the instances of the runs before they were proved.

Only model-checked: `BuildEnds`, `Converges`, `CacheFollows` and `LoaderEnds` (liveness under
fairness, out of the prover's reach), and the two properties of `RollupMatching`: their
state is small and their content is sums over rows, plans and partitions, computed by folds that nest, and would be induction over the rows
of a table; for every value of its constants `AnswersAreLive` would also need to say which lists of operators and which figures
the code's rules are about, what the instance fixes. No module uses a RECURSIVE operator.

## 5. What is not modelled

The SQL that is generated for fields, measures, filters and dialects; row-level rules; paging, ranges,
distinct counts in sketches and calculated dimensions in the planner; parsers of
imported files; the assistant's conversation; access rules; and everything that is
a view. In the modelled parts: byte accounting and the extension loading of the rollup store;
combined DuckDB instances (`dbConnector.js:51`) and connection pools; in the fetch loop, pages other than the one
on screen, slicers' lists of values, the data panel's fetch and the preview's; in the viewer, the search in a slicer,
filters of the URL, what a slicer leaves out of the visuals it filters (`crossFilter.js:42`), printing and the layout moved by hand; of
a report, the settings outside the document that moving its fields into the model rewrites without a version (`reports.js:593`); in the
scheduler, the items of a build (`RollupStore` has them) and the progress bar of the editor
(`Editor.jsx:904`); the click handler of a card that nothing calls (`useCardCacheWarming.js:95`); in the studio, applying a card to the model. `PROJECT.json`
lists each part with its status, and the hazards no property covers yet with the reason.

Most of the repository's lines are views, forms, dialects and fixed packs of SQL, which keep no state
that two actors share; the share of lines the models stand for stays small for that reason.

## 6. Plan

Done: `RollupStore`, `RollupServing`, `QueryCache`, `AlertRunner`, `SourceFiles`,
`WidgetFetch`, `CacheScheduler` with `CacheWarming`, `ReportRow` with `ReportEditing` and `ReportViewing`, each
with its proofs: every safety property their runs check is a theorem. So is each of
`JoinEditing`; `RollupMatching` is model-checked. Next, in this order:

1. An abstract specification of a served source that `SourceFiles` refines.
2. That an undo keeps the page it belongs to, once the history is per page: `ScreenShowsItsPage` of
   `ReportEditing` with its hypothesis made precise.
3. The data panel's fetch, next to the editor's loop.
4. Sessions, tokens and embedding: expiry and revocation.
