---------------------------- MODULE RollupServing ----------------------------
(***************************************************************************)
(* What the rollup store promises to the queries of a model, files,        *)
(* generations, builds and sweeps left out: per key, one finished result   *)
(* is published or none is; a query looks at what is published for every   *)
(* fact it reads and is later answered with exactly that, or goes live.    *)
(***************************************************************************)
CONSTANTS
    Keys,       \* the (grain, base filter, fact) keys
    Queries,    \* concurrent queries
    Results,    \* finished results a build may publish
    NoResult    \* nothing is published for the key

VARIABLES
    published,  \* Keys -> Results or NoResult
    asked       \* what each query was promised, and whether it was answered

vars == <<published, asked>>

Silent == [pc |-> "idle", said |-> [k \in Keys |-> NoResult]]

Publish ==
    /\ \E k \in Keys, r \in Results : published' = [published EXCEPT ![k] = r]
    /\ UNCHANGED asked

Retract ==
    /\ \E gone \in SUBSET Keys :
         published' = [k \in Keys |-> IF k \in gone THEN NoResult ELSE published[k]]
    /\ UNCHANGED asked

Look(q) ==
    /\ asked[q].pc # "reading"
    /\ \E ks \in (SUBSET Keys) \ {{}} :
         /\ \A k \in ks : published[k] # NoResult
         /\ asked' = [asked EXCEPT ![q] =
              [pc |-> "reading",
               said |-> [k \in Keys |-> IF k \in ks THEN published[k] ELSE NoResult]]]
    /\ UNCHANGED published

Answer(q) ==
    /\ asked[q].pc = "reading"
    /\ asked' = [asked EXCEPT ![q].pc = "hit"]
    /\ UNCHANGED published

GoLive(q) ==
    /\ asked[q].pc = "reading"
    /\ asked' = [asked EXCEPT ![q] = Silent]
    /\ UNCHANGED published

\* The process stops: the queries in flight are lost.
Crash ==
    /\ asked' = [q \in Queries |-> Silent]
    /\ UNCHANGED published

Init ==
    /\ published = [k \in Keys |-> NoResult]
    /\ asked = [q \in Queries |-> Silent]

Next ==
    \/ Publish
    \/ Retract
    \/ \E q \in Queries : Look(q) \/ Answer(q) \/ GoLive(q)
    \/ Crash

Spec == Init /\ [][Next]_vars
=============================================================================
