--------------------------- MODULE MCWidgetFetch ---------------------------
(* WidgetFetch for TLC.  Visuals, values and bindings are interchangeable.  *)
EXTENDS WidgetFetch, TLC

CONSTANTS w1, w2, b1, b2, v1, v2

OneWidget == {w1}
TwoWidgets == {w1, w2}
TwoBindings == {b1, b2}
OneValue == {v1}
TwoValues == {v1, v2}

Symmetry == Permutations(Widgets) \cup Permutations(Bindings) \cup Permutations(Values)
=============================================================================
