--------------------------- MODULE MCSourceFiles ---------------------------
(* SourceFiles for TLC: sources, jobs and queries are interchangeable.      *)
EXTENDS SourceFiles, TLC

CONSTANTS d1, d2, j1, j2, q1, q2

OneSource == {d1}
TwoSources == {d1, d2}
OneJob == {j1}
TwoJobs == {j1, j2}
OneQuery == {q1}
TwoQueries == {q1, q2}

Symmetry == Permutations(Sources) \cup Permutations(Jobs) \cup Permutations(Queries)
=============================================================================
