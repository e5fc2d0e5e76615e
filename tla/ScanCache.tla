------------------------------ MODULE ScanCache ------------------------------
(***************************************************************************)
(* What the query cache promises to the route and to those who change      *)
(* sources, without indexes, meta, or entries that expired and are still    *)
(* there: one set of results, each with the options it was asked with.     *)
(* Whatever concerns an owner is found by looking at all of them.          *)
(***************************************************************************)
EXTENDS Naturals, FiniteSets, FiniteSetsExt

CONSTANTS
    Keys, Models, Sources, Orgs,
    CacheOpts,  \* a key, the model and the sources it reads, an organization
    Sizes,
    Quota,      \* Orgs -> bytes its plan allows, 0 for no quota
    Limits,     \* caps the admin may set
    Queries,
    NoOpts

VARIABLES
    held,       \* Keys -> the result a lookup finds, its options NoOpts for none
    config,     \* the settings
    asked,      \* Queries -> the options of the query waiting for the source
    late,       \* queries overtaken by a switch of a source they read
    switching   \* sources replaced, whose invalidation is still to come

vars == <<held, config, asked, late, switching>>
Configs == [enabled : BOOLEAN, ttl : BOOLEAN, max : Limits]

Nothing == [opts |-> NoOpts, size |-> 0, age |-> "none"]
Held == {k \in Keys : held[k].opts # NoOpts}

Lose(gone) == held' = [k \in Keys |-> IF k \in gone THEN Nothing ELSE held[k]]

HeldFor(w) == {k \in Held : held[k].opts.org = w}
Spent(w) == MapThenSumSet(LAMBDA k : held[k].size, HeldFor(w))

\* The plan of the organization leaves room for a result of this size.
RoomFor(o, size) ==
    o.org \in Orgs /\ Quota[o.org] > 0 => Spent(o.org) + size <= Quota[o.org]

\* The result takes the place of the one under its key, or that of as many
\* others as keep a cache within the cap within the cap.
Keep(o, size, age) ==
    \E gone \in SUBSET (Held \ {o.key}) :
        /\ o.key \in Held => gone = {}
        /\ held' = [k \in Keys |-> IF k = o.key THEN [opts |-> o, size |-> size, age |-> age]
                                   ELSE IF k \in gone THEN Nothing ELSE held[k]]
        /\ Cardinality(Held) <= config.max => Cardinality(Held') <= config.max

\* On to the source.
Ask(q, o) ==
    /\ asked[q] = NoOpts
    /\ asked' = [asked EXCEPT ![q] = o]
    /\ late' = late \ {q}
    /\ UNCHANGED <<held, config, switching>>

Over(q) ==
    /\ asked[q] # NoOpts
    /\ asked' = [asked EXCEPT ![q] = NoOpts]
    /\ late' = late \ {q}
    /\ UNCHANGED <<config, switching>>

\* A result is kept only as far as the settings and the plan allow.
Answer(q) ==
    /\ Over(q)
    /\ config.enabled /\ config.ttl
    /\ \E size \in Sizes, age \in IF q \in late THEN {"current", "late"} ELSE {"current"} :
          RoomFor(asked[q], size) /\ Keep(asked[q], size, age)

\* An error, a cancellation, or a result refused.
Leave(q) == Over(q) /\ UNCHANGED held

\* Nothing changes but what is held.
Aside == UNCHANGED <<config, asked, late, switching>>

Expire(k) == Aside /\ k \in Held /\ Lose({k})
Flush == Aside /\ Lose(Keys)

\* All that reads the source, and nothing else.
Overtaken(d) == late \cup {q \in Queries : asked[q] # NoOpts /\ d \in asked[q].sources}
Reading(d) == {k \in Held : d \in held[k].opts.sources}

ReplaceFile(d) ==
    /\ d \notin switching
    /\ switching' = switching \cup {d}
    /\ held' = [k \in Keys |-> IF k \in Reading(d) THEN [held[k] EXCEPT !.age = "outdated"] ELSE held[k]]
    /\ late' = Overtaken(d)
    /\ UNCHANGED <<config, asked>>

InvalidateReplaced(d) ==
    /\ d \in switching
    /\ switching' = switching \ {d}
    /\ Lose(Reading(d))
    /\ UNCHANGED <<config, asked, late>>

EditSource(d) ==
    /\ late' = Overtaken(d)
    /\ UNCHANGED <<config, asked, switching>>
    /\ Lose(Reading(d))

InvalidateModel(m) == Aside /\ Lose({k \in Held : held[k].opts.model = m})

Configure ==
    /\ config' \in Configs
    /\ UNCHANGED <<held, asked, late, switching>>

Init ==
    /\ held = [k \in Keys |-> Nothing]
    /\ config \in Configs
    /\ asked = [q \in Queries |-> NoOpts]
    /\ late = {}
    /\ switching = {}

Next ==
    \/ \E q \in Queries :
         \/ \E o \in CacheOpts : Ask(q, o)
         \/ Answer(q) \/ Leave(q)
    \/ \E k \in Keys : Expire(k)
    \/ \E d \in Sources : ReplaceFile(d) \/ InvalidateReplaced(d) \/ EditSource(d)
    \/ \E m \in Models : InvalidateModel(m)
    \/ Flush
    \/ Configure

Spec == Init /\ [][Next]_vars
=============================================================================
