----------------------------- MODULE AlertRunner -----------------------------
(***************************************************************************)
(* Threshold alerts: the rows of `alerts` and `alert_events`, the cron     *)
(* registry, and the evaluations.  server/utils/alertRunner.js,            *)
(* server/routes/alerts.js.                                                *)
(*                                                                         *)
(* An evaluation reads the row, waits for a query, perhaps waits for the   *)
(* channels to take a notice, and then writes the row.  Nothing keeps two  *)
(* evaluations of one alert apart: a slow one meets the next tick, or the  *)
(* "Run now" button.                                                       *)
(***************************************************************************)
EXTENDS CronTasks, Sequences

CONSTANTS
    Alerts,        \* ids, each used once (uuid)
    Runs,          \* evaluations that may be in flight together
    Conditions,    \* an op and a threshold
    Values,        \* numeric results of the measure
    Meets,         \* <<condition, value>> pairs for which compare() is true
    AlertSettings, \* what the routes are asked to store for an alert
    HistoryCap,    \* events kept per alert (200 in the code)
    NoAlert,
    Broken         \* the query fails, or returns no numeric value

ASSUME AlertAssumption ==
    /\ HistoryCap \in Nat \ {0}
    /\ Broken \notin Values
    /\ NoAlert \notin Alerts

States == {"none", "ok", "triggered", "error"}
Notices == {"triggered", "recovered", "error"}
Readings == Values \cup {Broken}
AlertRow == [enabled : BOOLEAN, condition : Conditions, expr : Exprs, timezone : Timezones,
             channel : BOOLEAN, on_recover : BOOLEAN]

ASSUME RowAssumption ==
    /\ AlertSettings \subseteq AlertRow
    /\ NoRow \notin AlertRow

VARIABLES
    alert,         \* Alerts -> the settings of its row, or NoRow
    last_state,    \* Alerts -> what the row says of the last evaluation
    events,        \* Alerts -> the notices recorded, oldest first
    jobs,          \* alerts with a cron task
    retiredAlerts, \* ids deleted
    run,           \* Runs -> the evaluation in flight
    source         \* what the measure's query would return now

alertVars == <<alert, last_state, events, jobs, retiredAlerts, run, source>>
rows == <<alert, last_state, events, jobs, retiredAlerts>>

AlertExists(a) == alert[a] # NoRow

\* register: stop the task there may be, start one when the row allows it.  The
\* row is written before: when cron.schedule throws, the route fails and the
\* row stays.
RegisterAlert(a, row) == jobs' = IF Due(row) THEN jobs \cup {a} ELSE jobs \ {a}

-----------------------------------------------------------------------------
(* The routes. *)

CreateAlert(a, row) ==
    /\ ~AlertExists(a)
    /\ a \notin retiredAlerts
    /\ alert' = [alert EXCEPT ![a] = row]
    /\ RegisterAlert(a, row)
    /\ UNCHANGED <<last_state, events, retiredAlerts, run, source>>

\* Bug: the task of the previous settings goes on.
UpdateWithoutReload(a, row) ==
    /\ AlertExists(a)
    /\ alert' = [alert EXCEPT ![a] = row]
    /\ UNCHANGED <<last_state, events, jobs, retiredAlerts, run, source>>

\* PUT: any of the settings; what the last evaluation said stays.
UpdateAlert(a, row) ==
    /\ AlertExists(a)
    /\ alert' = [alert EXCEPT ![a] = row]
    /\ RegisterAlert(a, row)
    /\ UNCHANGED <<last_state, events, retiredAlerts, run, source>>

\* The row goes, its events with it (ON DELETE CASCADE).
EraseAlert(a) ==
    /\ AlertExists(a)
    /\ alert' = [alert EXCEPT ![a] = NoRow]
    /\ last_state' = [last_state EXCEPT ![a] = "none"]
    /\ events' = [events EXCEPT ![a] = <<>>]
    /\ retiredAlerts' = retiredAlerts \cup {a}

DeleteAlert(a) ==
    /\ EraseAlert(a)
    /\ jobs' = jobs \ {a}
    /\ UNCHANGED <<run, source>>

\* Deleting the model or the owner deletes the row; nobody stops the task.
DeleteWithParent(a) ==
    /\ EraseAlert(a)
    /\ UNCHANGED <<jobs, run, source>>

-----------------------------------------------------------------------------
(* runOne. *)

NoRun == [pc |-> "idle", id |-> NoAlert, row |-> NoRow, prev |-> "none", value |-> Broken]

\* Up to `await fireQuery`: everything about the alert is read here.
Begin(a, r) ==
    /\ run[r].pc = "idle"
    /\ AlertExists(a)
    /\ alert[a].enabled
    /\ run' = [run EXCEPT ![r] = [pc |-> "asking", id |-> a, row |-> alert[a],
                               prev |-> last_state[a], value |-> Broken]]
    /\ UNCHANGED <<rows, source>>

\* A tick of a task whose alert is gone or disabled is skipped.
AlertTick(a, r) == a \in jobs /\ Begin(a, r)
RunAlertNow(a, r) == Begin(a, r)

\* The source is read; the answer is on its way back.
Read(r) ==
    /\ run[r].pc = "asking"
    /\ run' = [run EXCEPT ![r].pc = "answered", ![r].value = source]
    /\ UNCHANGED <<rows, source>>

Verdict(row, value) ==
    IF value = Broken THEN "error"
    ELSE IF <<row.condition, value>> \in Meets THEN "triggered" ELSE "ok"

\* Bug: the state the alert was in does not matter.
NoticeEveryTick(prev, next) ==
    IF next \in {"triggered", "error"} THEN {next}
    ELSE IF prev = "triggered" THEN {"recovered"} ELSE {}

\* The event a transition is worth, if any: none -> ok and error -> ok pass
\* in silence.
NoticeOf(prev, next) ==
    IF prev = next THEN {}
    ELSE IF next \in {"triggered", "error"} THEN {next}
    ELSE IF prev = "triggered" THEN {"recovered"} ELSE {}

\* Which notices the channels are given, besides the history.
Delivered(row, notice) ==
    row.channel /\ (notice = {"triggered"} \/ (notice = {"recovered"} /\ row.on_recover))

\* The history cap of recordEvent.
LatestOf(s) == SubSeq(s, IF Len(s) > HistoryCap THEN Len(s) - HistoryCap + 1 ELSE 1, Len(s))

\* Bug: a recovery nobody wants to hear of is not recorded either.
RecordWhatWasDelivered(r, next, notice) ==
    LET a == run[r].id
    IN  /\ events' = IF AlertExists(a) /\ (notice = {"error"} \/ Delivered(run[r].row, notice))
                       THEN [events EXCEPT ![a] = LatestOf(@ \o <<CHOOSE n \in notice : TRUE>>)]
                       ELSE events
        /\ last_state' = IF AlertExists(a) THEN [last_state EXCEPT ![a] = next] ELSE last_state

\* Bug: the row is written with the event only.
RecordWithEvent(r, next, notice) ==
    LET a == run[r].id
    IN  IF AlertExists(a) /\ notice # {}
          THEN /\ events' = [events EXCEPT ![a] = <<CHOOSE n \in notice : TRUE>>]
               /\ last_state' = [last_state EXCEPT ![a] = next]
          ELSE UNCHANGED <<last_state, events>>

\* recordEvent, then the UPDATE.  For an alert deleted meanwhile the event
\* violates its foreign key and the evaluation throws, or the UPDATE finds
\* no row: nothing is written either way.
Record(r, next, notice) ==
    LET a == run[r].id
    IN  IF AlertExists(a)
          THEN /\ events' = [events EXCEPT ![a] =
                    IF notice = {} THEN @ ELSE LatestOf(@ \o <<CHOOSE n \in notice : TRUE>>)]
               /\ last_state' = [last_state EXCEPT ![a] = next]
          ELSE UNCHANGED <<last_state, events>>

\* The answer arrives: compare, and either wait for the channels or write.
Evaluate(r) ==
    LET row == run[r].row
        next == Verdict(row, run[r].value)
        notice == NoticeOf(run[r].prev, next)
    IN  /\ run[r].pc = "answered"
        /\ IF Delivered(row, notice)
             THEN /\ run' = [run EXCEPT ![r].pc = "telling"]
                  /\ UNCHANGED <<last_state, events>>
             ELSE /\ Record(r, next, notice)
                  /\ run' = [run EXCEPT ![r] = NoRun]
        /\ UNCHANGED <<alert, jobs, retiredAlerts, source>>

\* The channels answered, failed or timed out: a note on the event, no more.
Told(r) ==
    LET next == Verdict(run[r].row, run[r].value)
    IN  /\ run[r].pc = "telling"
        /\ Record(r, next, NoticeOf(run[r].prev, next))
        /\ run' = [run EXCEPT ![r] = NoRun]
        /\ UNCHANGED <<alert, jobs, retiredAlerts, source>>

-----------------------------------------------------------------------------
\* The data behind the measure changes, fails or comes back.
SourceChanges ==
    /\ source' \in Readings \ {source}
    /\ UNCHANGED <<rows, run>>

\* Evaluations in flight are lost; bootRegisterAll takes the enabled rows.
RestartRunner ==
    /\ jobs' \in Booted(alert)
    /\ run' = [r \in Runs |-> NoRun]
    /\ UNCHANGED <<alert, last_state, events, retiredAlerts, source>>

AlertInit ==
    /\ alert = [a \in Alerts |-> NoRow]
    /\ last_state = [a \in Alerts |-> "none"]
    /\ events = [a \in Alerts |-> <<>>]
    /\ jobs = {}
    /\ retiredAlerts = {}
    /\ run = [r \in Runs |-> NoRun]
    /\ source \in Readings

RunStep(r) == Read(r) \/ Evaluate(r) \/ Told(r)

AlertNext ==
    \/ \E a \in Alerts :
         \/ \E row \in AlertSettings : CreateAlert(a, row) \/ UpdateAlert(a, row)
         \/ DeleteAlert(a) \/ DeleteWithParent(a)
         \/ \E r \in Runs : AlertTick(a, r) \/ RunAlertNow(a, r)
    \/ \E r \in Runs : RunStep(r)
    \/ SourceChanges
    \/ RestartRunner

AlertSpec == AlertInit /\ [][AlertNext]_alertVars

\* cron keeps ticking, and every wait of an evaluation has a deadline: the
\* query's own, WEBHOOK_TIMEOUT_MS for the webhook.
FairAlerts ==
    /\ \A a \in Alerts : WF_alertVars(\E r \in Runs : AlertTick(a, r))
    /\ \A r \in Runs : WF_alertVars(RunStep(r))

FairAlertSpec == AlertSpec /\ FairAlerts

-----------------------------------------------------------------------------
(* What must hold. *)

RunState == [pc : {"idle", "asking", "answered", "telling"}, id : Alerts \cup {NoAlert},
             row : AlertRow \cup {NoRow}, prev : States, value : Readings]

AlertTypeOK ==
    /\ alert \in [Alerts -> AlertRow \cup {NoRow}]
    /\ last_state \in [Alerts -> States]
    /\ events \in [Alerts -> Seq(Notices)]
    /\ \A a \in Alerts : Len(events[a]) <= HistoryCap
    /\ jobs \subseteq Alerts
    /\ retiredAlerts \subseteq Alerts
    /\ run \in [Runs -> RunState]
    /\ source \in Readings

\* No task is that of an alert that asks for none; the only ones too many are
\* those of alerts deleted with their model or owner.
NoStrayJob == \A a \in jobs : a \in DueIn(alert) \/ a \in retiredAlerts

\* Alerts that ask for a task, with a timezone node-cron knows, and have none.
AlertsUntasked == DueIn(alert) \ jobs

\* After any sequence of creations, edits, deletions and restarts the cron
\* registry has no task too many; and an alert goes without its task only from
\* a boot that met another row whose timezone node-cron does not know.
JobsFollowRows ==
    /\ []NoStrayJob
    /\ [][AlertsUntasked' \subseteq AlertsUntasked \/ (RestartRunner /\ SomeThrow(alert))]_alertVars

Last(s) == IF s = <<>> THEN "nothing" ELSE s[Len(s)]

\* The history agrees with the state: an alert shown triggered was last said
\* to be triggered, one shown ok was not, one shown in error ends on an error.
LastWordIsTrue ==
    \A a \in Alerts : AlertExists(a) =>
        /\ last_state[a] = "triggered" => Last(events[a]) = "triggered"
        /\ last_state[a] = "ok" => Last(events[a]) # "triggered"
        /\ last_state[a] = "error" => Last(events[a]) = "error"

\* "ok -> triggered notifies once; staying triggered stays silent": the history
\* never says twice in a row that an alert triggered, or that it recovered.
NotTwiceInARow ==
    \A a \in Alerts : \A i \in 2..Len(events[a]) :
        events[a][i] = "error" \/ events[a][i] # events[a][i - 1]

\* What the code would need for its history to be right, and does not enforce:
\* no alert under evaluation is evaluated again.
OneRunPerAlert ==
    \A r, s \in Runs : r # s /\ run[r].pc # "idle" /\ run[s].pc # "idle"
                         => run[r].id # run[s].id

\* As long as no alert is evaluated twice at once, its history agrees with its
\* state, and never repeats itself.
HistoryIsTrue == []OneRunPerAlert => []LastWordIsTrue
SaidOnce == []OneRunPerAlert => []NotTwiceInARow

\* Whatever evaluations overlap, an alert left alone with its source ends up,
\* and stays, in the state its condition deserves.
Converges ==
    \A a \in Alerts : \A c \in Conditions : \A v \in Readings :
        /\ <>[](AlertExists(a) /\ alert[a].enabled /\ alert[a].condition = c /\ source = v)
        /\ <>[](a \in jobs)
        /\ <>[][~RestartRunner]_alertVars
        => <>[](AlertExists(a) /\ last_state[a] = Verdict(alert[a], v))

-----------------------------------------------------------------------------
(* What the documentation says, and the code does not do. *)

\* "Hot-load every enabled ..." (index.js): an alert that is enabled, with an
\* expression node-cron accepts, has its task.
EnabledHaveTasks == \A a \in Alerts : AlertExists(a) /\ Scheduled(alert[a]) => a \in jobs

\* "Notifications fire on STATE TRANSITIONS only (ok -> triggered, triggered ->
\* ok)": an alert is not said to be triggered again before it has recovered.
RecoversInBetween ==
    \A a \in Alerts : \A i, j \in 1..Len(events[a]) :
        i < j /\ events[a][i] = "triggered" /\ events[a][j] = "triggered"
            => \E k \in i..j : events[a][k] = "recovered"
=============================================================================
