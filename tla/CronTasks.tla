------------------------------ MODULE CronTasks ------------------------------
(***************************************************************************)
(* What the two registries of cron tasks share, that of the alerts         *)
(* (server/utils/alertRunner.js) and that of the cache schedules           *)
(* (server/utils/cacheScheduler.js): rows that ask for a task, with an     *)
(* expression that cron-parser lets through and node-cron may yet refuse,  *)
(* and a timezone that nobody checks before node-cron throws on it.        *)
(***************************************************************************)
EXTENDS Naturals

CONSTANTS
    Exprs,      \* cron expressions validateCron lets through
    NodeCron,   \* those node-cron accepts too
    Timezones,  \* what may be stored as one, free text or none
    KnownZones, \* those node-cron can schedule in
    NoRow

ASSUME CronAssumption == NodeCron \subseteq Exprs /\ KnownZones \subseteq Timezones

\* register gets as far as cron.schedule ...
Scheduled(row) == row.enabled /\ row.expr \in NodeCron

\* ... which throws, or makes a task.
Throws(row) == Scheduled(row) /\ row.timezone \notin KnownZones
Due(row) == Scheduled(row) /\ row.timezone \in KnownZones

DueIn(table) == {i \in DOMAIN table : table[i] # NoRow /\ Due(table[i])}
SomeThrow(table) == \E i \in DOMAIN table : table[i] # NoRow /\ Throws(table[i])

\* What bootRegisterAll may register: the first row that throws ends its
\* loop, and the SELECT puts the rows in no order.
Booted(table) == IF SomeThrow(table) THEN SUBSET DueIn(table) ELSE {DueIn(table)}
=============================================================================
