--------------------------- MODULE MCAlertRunner ---------------------------
(* AlertRunner over a measure with two values and two thresholds: an alert  *)
(* with all it can do, and a neighbour that a boot may meet before or after *)
(* it.                                                                      *)
EXTENDS AlertRunner, TLC

CONSTANTS above50, above90, hourly, odd, here, nowhere, Neighbour

\* A condition is met by the values over its threshold.
ValuesMet == {<<above50, 60>>, <<above50, 95>>, <<above90, 95>>}

\* One that is told about by the webhook when it triggers; off, and without a
\* channel; with another threshold, word of the recovery, and a timezone
\* node-cron does not know; with an expression node-cron has no use for.
Watch == [enabled |-> TRUE, condition |-> above50, expr |-> hourly, timezone |-> here,
          channel |-> TRUE, on_recover |-> FALSE]
Off == [Watch EXCEPT !.enabled = FALSE, !.channel = FALSE]
Abroad == [Watch EXCEPT !.condition = above90, !.timezone = nowhere, !.on_recover = TRUE]
Unscheduled == [Watch EXCEPT !.expr = odd]
FourSettings == {Watch, Off, Abroad, Unscheduled}

\* The neighbour asks in vain, and is neither run by hand nor deleted.  Next to
\* it evaluations do not overlap.
NextToNeighbour ==
    /\ AlertNext
    /\ \A a \in Alerts \ {Neighbour} : alert'[a] # Unscheduled
    /\ alert'[Neighbour] \in {NoRow, Abroad, Unscheduled}
    /\ Neighbour \notin retiredAlerts'
    /\ \A r \in Runs : run'[r].id # Neighbour
    /\ alert'[Neighbour] = NoRow \/ \A r, s \in Runs : r = s \/ NoRun \in {run'[r], run'[s]}

MCAlertSpec == AlertInit /\ [][NextToNeighbour]_alertVars /\ FairAlerts
=============================================================================
