---------------------------- MODULE CacheScheduler ----------------------------
(***************************************************************************)
(* Who asks for a build of the rollups, and what becomes of the asking:    *)
(* the rows of `cache_schedules`, their cron tasks, the manual requests,   *)
(* and the builds they share.  server/utils/cacheScheduler.js,             *)
(* server/utils/cacheSchedules.js, server/routes/cacheSchedules.js and the *)
(* promises of server/utils/rollupBuilder.js.                              *)
(*                                                                         *)
(* A build is one unit here (RollupStore has its items): it plans from the *)
(* reports when it starts, reads the data while it runs, and replaces what *)
(* the rollups of the model hold when it ends.                             *)
(***************************************************************************)
EXTENDS CronTasks

CONSTANTS
    Schedules,   \* ids, each used once (uuid)
    Models, Reports,
    ModelOf,     \* Reports -> Models
    Settings,    \* what the routes are asked to store for a schedule
    Builds,      \* builds that may be in flight together
    MaxRevision, \* bound on the changes to the reports, and to the data
    MaxRestarts, \* bound on the restarts
    NoTask, NoBuild

Row == [report : Reports, enabled : BOOLEAN, expr : Exprs, timezone : Timezones]
Revisions == 0..MaxRevision

ASSUME SchedulerAssumption ==
    /\ ModelOf \in [Reports -> Models]
    /\ Settings \subseteq Row
    /\ NoRow \notin Row /\ NoTask \notin Exprs /\ NoBuild \notin Builds
    /\ MaxRevision \in Nat /\ MaxRestarts \in Nat

VARIABLES
    reports,  \* reports that exist
    sched,    \* Schedules -> its row, or NoRow
    status,   \* Schedules -> last_run_status
    retired,  \* ids of schedules deleted
    tasks,    \* Schedules -> the expression of its cron task (_jobs)
    wanted,   \* Models -> revision of what its reports need
    data,     \* Models -> revision of the source's data
    up,       \* models whose source answers
    rollups,  \* Models -> the revisions its rollups were built from
    build,    \* Builds -> the build in flight, or Idle
    promise,  \* Models -> the build that callers join (_buildPromises)
    runs,     \* Schedules -> builds that runs of it wait for
    restarts

rowVars == <<reports, sched, status, retired>>
worldVars == <<wanted, data, up>>
buildVars == <<rollups, build, promise>>
vars == <<rowVars, tasks, worldVars, buildVars, runs, restarts>>

Exists(s) == sched[s] # NoRow
ModelFor(s) == ModelOf[sched[s].report]

-----------------------------------------------------------------------------
(* The builds. *)

Idle == [pc |-> "idle", model |-> CHOOSE m \in Models : TRUE, plan |-> 0, read |-> 0]

\* The plan is made in the caller's turn; a model without reports needs nothing.
Started(m) ==
    [pc |-> IF \E r \in reports : ModelOf[r] = m THEN "reading" ELSE "empty",
     model |-> m, plan |-> wanted[m], read |-> 0]

FreeBuild == CHOOSE b \in Builds : build[b].pc = "idle"

\* Bug: every caller has a build of its own.
BuildForEach(m) ==
    /\ \E b \in Builds : build[b].pc = "idle"
    /\ build' = [build EXCEPT ![FreeBuild] = Started(m)]
    /\ promise' = [promise EXCEPT ![m] = FreeBuild]

\* buildRollupsForModel: join the build in flight, or start one.
BuildOrJoin(m) ==
    IF promise[m] # NoBuild
      THEN UNCHANGED <<build, promise>>
      ELSE /\ build' = [build EXCEPT ![FreeBuild] = Started(m)]
           /\ promise' = [promise EXCEPT ![m] = FreeBuild]

Ask(m) ==
    /\ promise[m] # NoBuild \/ \E b \in Builds : build[b].pc = "idle"
    /\ BuildOrJoin(m)
    /\ UNCHANGED rollups

\* The source is read, or does not answer: every item fails.
BuildReads(b) ==
    LET m == build[b].model
    IN  /\ build[b].pc = "reading"
        /\ build' = [build EXCEPT ![b].pc = IF m \in up THEN "read" ELSE "failed",
                                  ![b].read = IF m \in up THEN data[m] ELSE 0]
        /\ UNCHANGED <<rowVars, tasks, worldVars, rollups, promise, runs, restarts>>

\* Bug: the promise is forgotten when the build succeeded.
ForgetWhenBuilt(b) ==
    promise' = IF build[b].pc = "failed" THEN promise
               ELSE [promise EXCEPT ![build[b].model] = NoBuild]

\* The `finally` of buildRollupsForModel, however the build went.
Forget(b) == promise' = [promise EXCEPT ![build[b].model] = NoBuild]

\* recordRun: the runs that waited note how the build went; for a schedule
\* deleted meanwhile the UPDATE finds no row.
RecordRuns(b, outcome) ==
    status' = [s \in Schedules |-> IF b \in runs[s] /\ Exists(s) THEN outcome ELSE status[s]]

\* Bug: a build whose items failed waits for them for ever.
EndsWhenBuilt(b) == build[b].pc \in {"read", "empty"}

\* Every item built or failed, or there was none.
AtItsEnd(b) == build[b].pc \in {"read", "failed", "empty"}

\* A build whose items all failed leaves the rollups as they were.
BuildEnds(b) ==
    LET m == build[b].model
    IN  /\ AtItsEnd(b)
        /\ rollups' = IF build[b].pc = "read"
                        THEN [rollups EXCEPT ![m] = [plan |-> build[b].plan, read |-> build[b].read]]
                        ELSE rollups
        /\ build' = [build EXCEPT ![b] = Idle]
        /\ Forget(b)
        /\ RecordRuns(b, IF build[b].pc = "failed" THEN "error" ELSE "ok")
        /\ runs' = [s \in Schedules |-> runs[s] \ {b}]
        /\ UNCHANGED <<reports, sched, retired, tasks, worldVars, restarts>>

-----------------------------------------------------------------------------
(* The cron tasks. *)

\* runOne: a schedule gone or disabled is skipped.
RunOne(s) ==
    /\ Exists(s)
    /\ sched[s].enabled
    /\ Ask(ModelFor(s))
    /\ runs' = [runs EXCEPT ![s] = @ \cup {promise'[ModelFor(s)]}]
    /\ UNCHANGED <<rowVars, tasks, worldVars, restarts>>

\* Bug: a row that is not due is not looked at any further.
RegisterDue(s, row) ==
    tasks' = IF Due(row) THEN [tasks EXCEPT ![s] = row.expr] ELSE tasks

\* register: the task there may be is stopped, whatever the row says.  The row
\* is written before: when cron.schedule throws, the route fails and it stays.
Register(s, row) ==
    tasks' = [tasks EXCEPT ![s] = IF Due(row) THEN row.expr ELSE NoTask]

Tick(s) == tasks[s] # NoTask /\ RunOne(s)

\* POST /cache-schedules/:id/run.
RunNow(s) == RunOne(s)

\* The requests no schedule is behind: run-now of a report or of a model, the
\* refresh of the API.
Refresh(m) ==
    /\ Ask(m)
    /\ UNCHANGED <<rowVars, tasks, worldVars, runs, restarts>>

-----------------------------------------------------------------------------
(* The rows. *)

Create(s, row) ==
    /\ ~Exists(s)
    /\ s \notin retired
    /\ row.report \in reports
    /\ sched' = [sched EXCEPT ![s] = row]
    /\ Register(s, row)
    /\ UNCHANGED <<reports, status, retired, worldVars, buildVars, runs, restarts>>

\* PUT: the expression or the switch; the report of a schedule is for life.
Update(s, row) ==
    /\ Exists(s)
    /\ row.report = sched[s].report
    /\ sched' = [sched EXCEPT ![s] = row]
    /\ Register(s, row)
    /\ UNCHANGED <<reports, status, retired, worldVars, buildVars, runs, restarts>>

Erase(erased) ==
    /\ sched' = [s \in Schedules |-> IF s \in erased THEN NoRow ELSE sched[s]]
    /\ status' = [s \in Schedules |-> IF s \in erased THEN "none" ELSE status[s]]
    /\ retired' = retired \cup erased

Delete(s) ==
    /\ Exists(s)
    /\ Erase({s})
    /\ tasks' = [tasks EXCEPT ![s] = NoTask]
    /\ UNCHANGED <<reports, worldVars, buildVars, runs, restarts>>

\* ON DELETE CASCADE takes the rows; nobody stops their tasks.
DeleteReport(r) ==
    /\ r \in reports
    /\ reports' = reports \ {r}
    /\ Erase({s \in Schedules : Exists(s) /\ sched[s].report = r})
    /\ UNCHANGED <<tasks, worldVars, buildVars, runs, restarts>>

DeleteOwner(s) ==
    /\ Exists(s)
    /\ Erase({s})
    /\ UNCHANGED <<reports, tasks, worldVars, buildVars, runs, restarts>>

-----------------------------------------------------------------------------
(* The world. *)

ReportsChange(m) ==
    /\ wanted[m] < MaxRevision
    /\ \E r \in reports : ModelOf[r] = m
    /\ wanted' = [wanted EXCEPT ![m] = @ + 1]
    /\ UNCHANGED <<rowVars, tasks, data, up, buildVars, runs, restarts>>

DataChanges(m) ==
    /\ data[m] < MaxRevision
    /\ data' = [data EXCEPT ![m] = @ + 1]
    /\ UNCHANGED <<rowVars, tasks, wanted, up, buildVars, runs, restarts>>

SourceGoesDown(m) ==
    /\ m \in up
    /\ up' = up \ {m}
    /\ UNCHANGED <<rowVars, tasks, wanted, data, buildVars, runs, restarts>>

SourceComesBack(m) ==
    /\ m \notin up
    /\ up' = up \cup {m}
    /\ UNCHANGED <<rowVars, tasks, wanted, data, buildVars, runs, restarts>>

\* Builds and runs are lost; bootRegisterAll takes the enabled rows.
Restart ==
    /\ restarts < MaxRestarts
    /\ restarts' = restarts + 1
    /\ \E booted \in Booted(sched) :
         tasks' = [s \in Schedules |-> IF s \in booted THEN sched[s].expr ELSE NoTask]
    /\ build' = [b \in Builds |-> Idle]
    /\ promise' = [m \in Models |-> NoBuild]
    /\ runs' = [s \in Schedules |-> {}]
    /\ UNCHANGED <<rowVars, worldVars, rollups>>

Init ==
    /\ reports = Reports
    /\ sched = [s \in Schedules |-> NoRow]
    /\ status = [s \in Schedules |-> "none"]
    /\ retired = {}
    /\ tasks = [s \in Schedules |-> NoTask]
    /\ wanted = [m \in Models |-> 0]
    /\ data = [m \in Models |-> 0]
    /\ up = Models
    /\ rollups = [m \in Models |-> [plan |-> 0, read |-> 0]]
    /\ build = [b \in Builds |-> Idle]
    /\ promise = [m \in Models |-> NoBuild]
    /\ runs = [s \in Schedules |-> {}]
    /\ restarts = 0

World(m) == ReportsChange(m) \/ DataChanges(m) \/ SourceGoesDown(m) \/ SourceComesBack(m)
BuildStep(b) == BuildReads(b) \/ BuildEnds(b)

Next ==
    \/ \E s \in Schedules :
         \/ \E row \in Settings : Create(s, row) \/ Update(s, row)
         \/ Delete(s) \/ DeleteOwner(s)
         \/ Tick(s) \/ RunNow(s)
    \/ \E r \in Reports : DeleteReport(r)
    \/ \E m \in Models : Refresh(m) \/ World(m)
    \/ \E b \in Builds : BuildStep(b)
    \/ Restart

Spec == Init /\ [][Next]_vars

\* cron keeps ticking; a build's queries have a deadline of their own.
FairSpec ==
    /\ Spec
    /\ \A s \in Schedules : WF_vars(Tick(s))
    /\ \A b \in Builds : WF_vars(BuildStep(b))

-----------------------------------------------------------------------------
(* What must hold. *)

BuildState == [pc : {"idle", "reading", "empty", "read", "failed"}, model : Models,
               plan : Revisions, read : Revisions]

\* The shape of the state.
TypeOK ==
    /\ reports \subseteq Reports
    /\ sched \in [Schedules -> Row \cup {NoRow}]
    /\ status \in [Schedules -> {"none", "ok", "error"}]
    /\ retired \subseteq Schedules
    /\ tasks \in [Schedules -> Exprs \cup {NoTask}]
    /\ wanted \in [Models -> Revisions]
    /\ data \in [Models -> Revisions]
    /\ up \subseteq Models
    /\ rollups \in [Models -> [plan : Revisions, read : Revisions]]
    /\ build \in [Builds -> BuildState]
    /\ promise \in [Models -> Builds \cup {NoBuild}]
    /\ runs \in [Schedules -> SUBSET Builds]
    /\ restarts \in 0..MaxRestarts

\* A task is the one its row asks for, with the expression of its last edit; a
\* task without a row is that of a row deleted with its report or owner, and
\* the row of a schedule has a report that exists.
TasksAreTrue ==
    \A s \in Schedules :
        IF Exists(s)
          THEN /\ tasks[s] # NoTask => Due(sched[s]) /\ tasks[s] = sched[s].expr
               /\ sched[s].report \in reports
          ELSE tasks[s] # NoTask => s \in retired

\* Schedules that ask for a task, with a timezone node-cron knows, and have none.
Untasked == {s \in DueIn(sched) : tasks[s] = NoTask}

\* A schedule goes without its task only from a boot that met another row
\* whose timezone node-cron does not know: no edit, deletion or cascade, of
\* this schedule or of another, takes it.
TasksStay == [][Untasked' \subseteq Untasked \/ (Restart /\ SomeThrow(sched))]_vars

\* The builds in flight and the promises are each other's: callers never join
\* a build that has ended, no model has two builds, no run waits for a build
\* that nobody will end.
PromisesAreBuilds ==
    /\ \A b \in Builds : build[b].pc # "idle" => promise[build[b].model] = b
    /\ \A m \in Models : promise[m] # NoBuild =>
         build[promise[m]].pc # "idle" /\ build[promise[m]].model = m
    /\ \A s \in Schedules : \A b \in runs[s] : build[b].pc # "idle"

\* What the process remembers beside the rows, its cron tasks and the promises
\* of its builds, is what they say after any sequence of creations, edits,
\* deletions, cascades and restarts.
RegistryIsTrue == [](TasksAreTrue /\ PromisesAreBuilds) /\ TasksStay

\* Whoever asks, and whenever: rollups never go back to older data, or to an
\* older wish of the reports.
CacheNeverRegresses ==
    [][\A m \in Models : /\ rollups'[m].read >= rollups[m].read
                         /\ rollups'[m].plan >= rollups[m].plan]_rollups

\* A schedule left alone, with a source that answers, ends up with the rollups
\* of its model built from the last data for the last wish of the reports,
\* whatever builds were joined, failed or were cut by a restart before.
CacheFollows ==
    \A s \in Schedules : \A m \in Models :
        <>[](tasks[s] # NoTask /\ Exists(s) /\ ModelFor(s) = m /\ m \in up)
            => <>[](rollups[m] = [plan |-> wanted[m], read |-> data[m]])

-----------------------------------------------------------------------------
(* What the documentation says, and the code does not do. *)

\* "Hot-load every enabled cache_warm schedule into node-cron" (index.js): a
\* schedule that is enabled, with an expression node-cron accepts, has its task.
EnabledAreLoaded == \A s \in Schedules : Exists(s) /\ Scheduled(sched[s]) => tasks[s] # NoTask
=============================================================================
