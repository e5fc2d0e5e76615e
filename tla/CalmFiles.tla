----------------------------- MODULE CalmFiles -----------------------------
(* SourceFiles with a history variable that tells the behaviours in which   *)
(* what the code counts on without enforcing it has held so far.            *)
EXTENDS SourceFiles

VARIABLE calm   \* no crash, one job per source, no query overtaken, so far

CalmInit == Init /\ calm = TRUE

CalmNext ==
    \/ Running /\ calm' = (calm /\ (OneJobPerSource /\ NoOvertakenQuery)')
    \/ Restart /\ calm' = FALSE

CalmSpec == CalmInit /\ [][CalmNext]_<<vars, calm>>

\* "A file Windows still holds is written down and retried", never "kept
\* forever": as long as imports and deletions of a source do not overlap and
\* no query is overtaken by one, every file has an owner.
CalmForgetsNoFile == calm => NoFileIsForgotten

\* "Drop the cached pool so the new params take effect": as long, a cached
\* connector opens the file its source is made of.
CalmConnectorIsCurrent == calm => ConnectorIsCurrent
=============================================================================
