-------------------------- MODULE MCReportViewing --------------------------
(* Two pages: on the first a chart that drills from a to b and one by a, on *)
(* the second one by b.  Their slicers on a are synced, the second page has *)
(* one on b as well; both pages may be saved with a selection.              *)
EXTENDS ReportViewing, TLC

CONSTANTS drill, side, other, a, b, x, y

TwoPages == 1..2
AllVisuals == {drill, side, other}
MCPageOf == drill :> 1 @@ side :> 1 @@ other :> 2
MCLevels == drill :> <<a, b>> @@ side :> <<a>> @@ other :> <<b>>
MCExcludes == drill :> {} @@ side :> {} @@ other :> {}
MCSlicers == 1 :> {a} @@ 2 :> {a, b}
MCLinks == {<<a, 1, 2>>}
Unsaved == [p \in Pages |-> NoSelection]
MCSaved == 1 :> [NoSelection EXCEPT ![a] = x] @@ 2 :> [NoSelection EXCEPT ![b] = y]
Owned == [v \in Visuals |-> Snapshot]
=============================================================================
