----------------------------- MODULE QueryCache -----------------------------
(***************************************************************************)
(* The in-memory cache of query results and the route that fills it.       *)
(* server/utils/queryCache.js, server/routes/models.js (POST /:id/query).  *)
(*                                                                         *)
(* An entry is found by its key (source, SQL, row-level rules) and dropped *)
(* through three indexes: by model, by source, by organization.  They are  *)
(* one function here, from the owners of an entry to its keys.  A query    *)
(* that misses waits for the source and stores its result afterwards.      *)
(***************************************************************************)
EXTENDS Naturals, FiniteSets, FiniteSetsExt

CONSTANTS
    Keys,      \* buildKey: a hash of source, SQL and row-level rules
    Models, Sources, Orgs, NoOrg,
    CacheOpts, \* what the route passes to the cache: a key and the owners
    Sizes,     \* entryBytes of a result
    Quota,     \* Orgs -> bytes its plan allows, 0 for no quota
    Limits,    \* settings of query_cache_max_entries
    Queries,   \* requests waiting for the source
    NoEntry, NoOpts

Owners == Models \cup Sources \cup Orgs
Opts == [key : Keys, model : Models, sources : SUBSET Sources, org : Orgs \cup {NoOrg}]

\* Keys are digests.  A key holds every source; it does not hold the model.
ASSUME CacheAssumption ==
    /\ IsFiniteSet(Keys)
    /\ CacheOpts \subseteq Opts
    /\ NoOpts \notin CacheOpts
    /\ \A o, p \in CacheOpts : o.key = p.key => o.sources = p.sources
    /\ Sizes \subseteq Nat
    /\ Limits \subseteq Nat \ {0}
    /\ Quota \in [Orgs -> Nat]
    /\ NoOrg \notin Owners
    /\ Models \cap Sources = {} /\ Models \cap Orgs = {} /\ Sources \cap Orgs = {}

\* How a result stands to its sources: read from what they hold now, from
\* what they held before a switch that came while it was cached (outdated)
\* or while its query ran (late).
Ages == {"current", "outdated", "late"}
Entry == [size : Sizes, age : Ages, live : BOOLEAN]

ASSUME EntryAssumption == NoEntry \notin Entry

VARIABLES
    entries,    \* Keys -> the result stored, live until its TTL is over
    keyMeta,    \* Keys -> the options it was stored with
    index,      \* Owners -> keys to drop with them
    config,     \* the settings: enabled, a TTL over zero, the entry cap
    flight,     \* Queries -> the options of the query waiting
    late,       \* queries overtaken by a switch of a source they read
    switching   \* sources replaced, whose invalidation is still to come

cache == <<entries, keyMeta, index>>
route == <<flight, late>>
vars == <<entries, keyMeta, index, config, flight, late, switching>>

Stored == {k \in Keys : entries[k] # NoEntry}
Live == {k \in Stored : entries[k].live}
\* Bug: an entry is listed under the first of its sources.
TagsOfOneSource(o) == {o.model} \cup {CHOOSE d \in o.sources : TRUE} \cup ({o.org} \cap Orgs)

\* Who can have an entry dropped.
Tags(o) == {o.model} \cup o.sources \cup ({o.org} \cap Orgs)

-----------------------------------------------------------------------------
(* The cache. *)

\* The dispose hook for the keys that leave: each out of the indexes its
\* meta names.
Disposed(gone) ==
    [w \in Owners |-> index[w] \ {k \in gone : keyMeta[k] # NoOpts /\ w \in Tags(keyMeta[k])}]

Forgotten(gone) ==
    /\ entries' = [k \in Keys |-> IF k \in gone THEN NoEntry ELSE entries[k]]
    /\ keyMeta' = [k \in Keys |-> IF k \in gone THEN NoOpts ELSE keyMeta[k]]

Remove(gone) == Forgotten(gone) /\ index' = Disposed(gone)

\* Bug: the indexes are written before the entry, whose replacement then
\* fires the hook on them.
PutIndexFirst(o, entry, gone) ==
    /\ entries' = [k \in Keys |-> IF k = o.key THEN entry
                                  ELSE IF k \in gone THEN NoEntry ELSE entries[k]]
    /\ keyMeta' = [k \in Keys |-> IF k = o.key THEN o
                                  ELSE IF k \in gone THEN NoOpts ELSE keyMeta[k]]
    /\ index' = [w \in Owners |->
                   IF w \in Tags(o) /\ o.key \notin gone
                     THEN Disposed(gone)[w] \cup {o.key} ELSE Disposed(gone)[w]]

\* cache.set: what it replaces or evicts is disposed of, then the key is
\* indexed.
Put(o, entry, gone) ==
    /\ entries' = [k \in Keys |-> IF k = o.key THEN entry
                                  ELSE IF k \in gone THEN NoEntry ELSE entries[k]]
    /\ keyMeta' = [k \in Keys |-> IF k = o.key THEN o
                                  ELSE IF k \in gone THEN NoOpts ELSE keyMeta[k]]
    /\ index' = [w \in Owners |->
                   IF w \in Tags(o) THEN Disposed(gone)[w] \cup {o.key} ELSE Disposed(gone)[w]]

\* Bug: the cap is looked at once it is passed.
EvictionsTooLate(k, swept) ==
    LET size == Cardinality(Stored \ swept)
        over == IF size > config.max THEN size - config.max ELSE 0
        reach == IF over <= Cardinality(Live) THEN over ELSE Cardinality(Live)
    IN  IF k \in Live THEN {{}} ELSE {E \in SUBSET Live : Cardinality(E) = reach}

\* What may be evicted for a new key: as many live entries as bring the size
\* under the cap, expired ones counted but out of reach.  Which of them is the
\* LRU library's order, left open.
Evictions(k, swept) ==
    LET size == Cardinality(Stored \ swept)
        over == IF size >= config.max THEN size - config.max + 1 ELSE 0
        reach == IF over <= Cardinality(Live) THEN over ELSE Cardinality(Live)
    IN  IF k \in Live THEN {{}} ELSE {E \in SUBSET Live : Cardinality(E) = reach}

Bytes(K) == MapThenSumSet(LAMBDA k : entries[k].size, K)
HasQuota(o) == o.org \in Orgs /\ Quota[o.org] > 0

\* bytesForOrg looks every key of the organization up, which removes the
\* expired ones.
Swept(o) == IF HasQuota(o) THEN index[o.org] \cap (Stored \ Live) ELSE {}

\* Bug: only an organization already over its quota is refused.
FitsWithoutIncoming(o, size) ==
    HasQuota(o) => Bytes(index[o.org] \cap Live) <= Quota[o.org]

Fits(o, size) == HasQuota(o) => Bytes(index[o.org] \cap Live) + size <= Quota[o.org]

\* set.
Store(o, size, age) ==
    IF ~config.enabled \/ ~config.ttl THEN UNCHANGED cache
    ELSE IF ~Fits(o, size) THEN Remove(Swept(o))
    ELSE \E E \in Evictions(o.key, Swept(o)) :
           Put(o, [size |-> size, age |-> age, live |-> TRUE],
               Swept(o) \cup E \cup ({o.key} \cap Stored))

\* Bug: only what the owner's index lists is forgotten, not the entry.
ForgetIndex(w) ==
    /\ index' = [index EXCEPT ![w] = {}]
    /\ UNCHANGED <<entries, keyMeta>>

\* invalidateModel, invalidateDatasource: delete every key listed, then the list.
Drop(w) ==
    LET gone == index[w] \cap Stored
    IN  Forgotten(gone) /\ index' = [Disposed(gone) EXCEPT ![w] = {}]

\* clear() fires the hook for every entry; then the indexes are emptied.
Flush ==
    /\ Forgotten(Stored)
    /\ index' = [w \in Owners |-> {}]
    /\ UNCHANGED <<config, route, switching>>

\* The TTL of an entry is over: it answers nothing, and its timer removes it.
Expire(k) ==
    /\ k \in Live
    /\ entries' = [entries EXCEPT ![k].live = FALSE]
    /\ UNCHANGED <<keyMeta, index, config, route, switching>>

Purge(k) ==
    /\ k \in Stored \ Live
    /\ Remove({k})
    /\ UNCHANGED <<config, route, switching>>

-----------------------------------------------------------------------------
(* The route. *)

\* No entry, or one bypassed: on to the source.  A lookup that meets an
\* expired entry removes it.
Ask(q, o, bypass) ==
    /\ flight[q] = NoOpts
    /\ bypass \/ ~config.enabled \/ o.key \notin Live
    /\ flight' = [flight EXCEPT ![q] = o]
    /\ late' = late \ {q}
    /\ IF bypass \/ ~config.enabled THEN UNCHANGED cache ELSE Remove({o.key} \cap Stored)
    /\ UNCHANGED <<config, switching>>

\* The source answered.  A query overtaken by a switch may have read either side.
Answer(q, size) ==
    /\ flight[q] # NoOpts
    /\ \E age \in IF q \in late THEN {"current", "late"} ELSE {"current"} :
         Store(flight[q], size, age)
    /\ flight' = [flight EXCEPT ![q] = NoOpts]
    /\ late' = late \ {q}
    /\ UNCHANGED <<config, switching>>

\* An error, a timeout or a cancellation: nothing is stored.
Fail(q) ==
    /\ flight[q] # NoOpts
    /\ flight' = [flight EXCEPT ![q] = NoOpts]
    /\ late' = late \ {q}
    /\ UNCHANGED <<cache, config, switching>>

-----------------------------------------------------------------------------
(* What makes cached results wrong. *)

\* The row of a source points at other data.
Switched(d) ==
    /\ entries' = [k \in Keys |-> IF k \in Stored /\ d \in keyMeta[k].sources
                                    THEN [entries[k] EXCEPT !.age = "outdated"] ELSE entries[k]]
    /\ late' = late \cup {q \in Queries : flight[q] # NoOpts /\ d \in flight[q].sources}

\* An import puts the new file in the row, then waits for the old one to close.
ReplaceFile(d) ==
    /\ d \notin switching
    /\ Switched(d)
    /\ switching' = switching \cup {d}
    /\ UNCHANGED <<keyMeta, index, config, flight>>

InvalidateReplaced(d) ==
    /\ d \in switching
    /\ Drop(d)
    /\ switching' = switching \ {d}
    /\ UNCHANGED <<config, route>>

\* PUT /datasources/:id: the row and the invalidation in one go.
EditSource(d) ==
    /\ Drop(d)
    /\ late' = late \cup {q \in Queries : flight[q] # NoOpts /\ d \in flight[q].sources}
    /\ UNCHANGED <<config, flight, switching>>

\* A save of the model or of a report's formulas, a rollup build, a cleared
\* workspace, an unlinked source.
InvalidateModel(m) ==
    /\ Drop(m)
    /\ UNCHANGED <<config, route, switching>>

\* The admin's settings; the entries stay.
Configure ==
    /\ config' \in [enabled : BOOLEAN, ttl : BOOLEAN, max : Limits] \ {config}
    /\ UNCHANGED <<cache, route, switching>>

Init ==
    /\ entries = [k \in Keys |-> NoEntry]
    /\ keyMeta = [k \in Keys |-> NoOpts]
    /\ index = [w \in Owners |-> {}]
    /\ config \in [enabled : BOOLEAN, ttl : BOOLEAN, max : Limits]
    /\ flight = [q \in Queries |-> NoOpts]
    /\ late = {}
    /\ switching = {}

Next ==
    \/ \E q \in Queries :
         \/ \E o \in CacheOpts, bypass \in BOOLEAN : Ask(q, o, bypass)
         \/ \E size \in Sizes : Answer(q, size)
         \/ Fail(q)
    \/ \E d \in Sources : ReplaceFile(d) \/ InvalidateReplaced(d) \/ EditSource(d)
    \/ \E m \in Models : InvalidateModel(m)
    \/ \E k \in Keys : Expire(k) \/ Purge(k)
    \/ Flush
    \/ Configure

Spec == Init /\ [][Next]_vars

-----------------------------------------------------------------------------
(* What must hold. *)

\* Types; an entry and its meta come and go together.
TypeOK ==
    /\ entries \in [Keys -> Entry \cup {NoEntry}]
    /\ keyMeta \in [Keys -> CacheOpts \cup {NoOpts}]
    /\ \A k \in Keys : entries[k] = NoEntry <=> keyMeta[k] = NoOpts
    /\ index \in [Owners -> SUBSET Keys]
    /\ config \in [enabled : BOOLEAN, ttl : BOOLEAN, max : Limits]
    /\ flight \in [Queries -> CacheOpts \cup {NoOpts}]
    /\ late \subseteq Queries
    /\ switching \subseteq Sources

\* "The dispose hook keeps this index honest": whichever way entries left or
\* were replaced, an owner lists exactly the keys of its stored entries.
IndexesExact ==
    \A w \in Owners : \A k \in Keys :
        k \in index[w] <=> (k \in Stored /\ w \in Tags(keyMeta[k]))

\* An invalidation through the indexes does what a scan of the cache would
\* do: the owner's entries go, all others stay.
DropsExactly ==
    [][\A w \in Owners : InvalidateModel(w) \/ InvalidateReplaced(w) \/ EditSource(w) =>
         entries' = [k \in Keys |-> IF k \in Stored /\ w \in Tags(keyMeta[k])
                                      THEN NoEntry ELSE entries[k]]]_vars

\* A result read before a switch of one of its sources stays no longer than
\* the invalidation that follows, except those still on their way then.
OutdatedOnlyIfLate ==
    \A k \in Stored :
        entries[k].age = "outdated" => keyMeta[k].sources \cap switching # {}

\* An organization's live entries never exceed the quota of its plan.
QuotaHolds ==
    \A w \in Orgs : Quota[w] > 0 =>
        Bytes({k \in Live : keyMeta[k].org = w}) <= Quota[w]

\* A stored answer leaves no more live entries than the admin's cap.
CapHolds ==
    [][\A q \in Queries : \A size \in Sizes :
         Answer(q, size) /\ Cardinality(Live) <= config.max
           => Cardinality(Live') <= config.max]_vars

\* What a lookup finds under a key: an expired entry is none.
Found(k) ==
    IF entries[k] = NoEntry \/ ~entries[k].live
      THEN [opts |-> NoOpts, size |-> 0, age |-> "none"]
      ELSE [opts |-> keyMeta[k], size |-> entries[k].size, age |-> entries[k].age]

\* The cache implements ScanCache: through indexes kept by the dispose hook,
\* with expired entries still counted or still listed, it keeps no more than a
\* look at every entry would allow, and drops what a look at every entry would.
Scan == INSTANCE ScanCache WITH held <- [k \in Keys |-> Found(k)], asked <- flight
ImplementsScan == Scan!Spec

-----------------------------------------------------------------------------
(* What the comments say, and the code does not do. *)

\* "A source now points at a new file: drop what was read from the previous
\* one": once the import is over, no entry holds what the old file said.
DropsWhatWasRead ==
    \A k \in Stored :
        entries[k].age # "current" => keyMeta[k].sources \cap switching # {}

\* "Drop every cached row tied to this model so the next visual refresh hits
\* the DB": every entry a question of the model would find is listed under it.
NextRefreshHitsTheSource ==
    \A o \in CacheOpts : o.key \in Live => o.key \in index[o.model]

\* "Refuse the write if it would push that org over its plan's cache budget":
\* a result is refused only when the entries it would then hold exceed it.
RefusesOnlyOverBudget ==
    [][\A q \in Queries : \A size \in Sizes :
         LET o == flight[q]
         IN  Answer(q, size) /\ ~Fits(o, size)
               => Bytes((index[o.org] \cap Live) \ {o.key}) + size > Quota[o.org]]_vars
=============================================================================
