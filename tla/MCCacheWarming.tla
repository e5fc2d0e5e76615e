---------------------------- MODULE MCCacheWarming ----------------------------
(* One report, its schedule on and off, and a tab on it; and a schedule of  *)
(* a timezone node-cron does not know, which a boot may meet before or      *)
(* after it.                                                                *)
EXTENDS CacheWarming, TLC

CONSTANTS r1, m1, hourly, odd, here, nowhere, Neighbour

OneModel == r1 :> m1

Due1 == [report |-> r1, enabled |-> TRUE, expr |-> hourly, timezone |-> here]
Off == [Due1 EXCEPT !.enabled = FALSE]
Abroad == [Due1 EXCEPT !.timezone = nowhere]
ThreeSettings == {Due1, Off, Abroad}

\* The neighbour is made, stays and asks in vain.  No tab is open while a
\* schedule has that timezone.
NextToNeighbour ==
    /\ WarmNext
    /\ sched'[Neighbour] \in {NoRow, Abroad}
    /\ Neighbour \notin retired'
    /\ runs'[Neighbour] = {}
    /\ page' = "away" \/ \A s \in Schedules : sched'[s] # Abroad

MCWarmSpec == WarmInit /\ [][NextToNeighbour]_warmVars /\ WarmFairness
=============================================================================
