--------------------------- MODULE MCRollupStore ---------------------------
(* RollupStore on two keys of two facts; the cfgs choose what is concurrent. *)
EXTENDS RollupStore, TLC

CONSTANTS k1, k2, sum, avg

OwnGrain == [k \in Keys |-> IF k = k1 THEN 1 ELSE 2]
WholePlan == {{k1, k2}}
ShrinkingPlans == {{k1, k2}, {k1}}
OneKeyPlan == {{k1}}

\* The recipe changes with the model's second revision only.
RecipeOfModel == [s \in Stamps |-> IF s.model = 1 THEN sum ELSE avg]
\* The recipe changes with the reports' second formula only.
RecipeOfFormula == [s \in Stamps |-> IF s.formula = 1 THEN sum ELSE avg]
\* The second recipe of k1 has no atom left (an override taints its measures).
NoAtomsLeft == {<<k1, avg>>}
K2WithoutAtoms == {<<k2, avg>>}
OneRecipe == [s \in Stamps |-> sum]
=============================================================================
