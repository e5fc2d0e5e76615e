-------------------------- MODULE QueryCacheProofs --------------------------
(* The indexes of the query cache name exactly its entries, for any keys,   *)
(* owners and settings; what rests on it: an invalidation through them does *)
(* what a scan would do, and no result outlives the switch of its source    *)
(* unless it was still on its way.                                          *)
EXTENDS QueryCache, FiniteSetTheorems, WellFoundedInduction, TLAPS

CacheInv == TypeOK /\ IndexesExact

-----------------------------------------------------------------------------
(* The three ways the cache is written. *)

LEMMA OptsFacts ==
    ASSUME NEW o \in CacheOpts
    PROVE  /\ o \in Opts
           /\ o.key \in Keys
           /\ o.sources \subseteq Sources
           /\ o # NoOpts
           /\ Tags(o) \subseteq Owners
BY CacheAssumption DEF CacheAssumption, Opts, Tags, Owners

\* Removing keys keeps every entry indexed, and nothing else.
LEMMA RemoveKeeps ==
    ASSUME CacheInv, NEW gone \in SUBSET Keys, Remove(gone)
    PROVE  /\ entries' \in [Keys -> Entry \cup {NoEntry}]
           /\ keyMeta' \in [Keys -> CacheOpts \cup {NoOpts}]
           /\ \A k \in Keys : entries'[k] = NoEntry <=> keyMeta'[k] = NoOpts
           /\ index' \in [Owners -> SUBSET Keys]
           /\ IndexesExact'
<1> USE DEF CacheInv, Remove, Forgotten
<1>1. /\ entries' \in [Keys -> Entry \cup {NoEntry}]
      /\ keyMeta' \in [Keys -> CacheOpts \cup {NoOpts}]
      /\ \A k \in Keys : entries'[k] = NoEntry <=> keyMeta'[k] = NoOpts
  BY DEF TypeOK
<1>2. index' \in [Owners -> SUBSET Keys]
  BY DEF TypeOK, Disposed
<1>3. ASSUME NEW w \in Owners, NEW k \in Keys
      PROVE  k \in index'[w] <=> (entries'[k] # NoEntry /\ w \in Tags(keyMeta'[k]))
  <2>1. k \in index[w] <=> (entries[k] # NoEntry /\ w \in Tags(keyMeta[k]))
    BY DEF IndexesExact, Stored
  <2>2. entries[k] = NoEntry <=> keyMeta[k] = NoOpts
    BY DEF TypeOK
  <2>3. index'[w] = index[w] \ {j \in gone : keyMeta[j] # NoOpts /\ w \in Tags(keyMeta[j])}
    BY DEF Disposed
  <2>4. CASE k \in gone
    <3>1. entries'[k] = NoEntry
      BY <2>4
    <3>2. k \notin index'[w]
      BY <2>1, <2>2, <2>3, <2>4
    <3> QED
      BY <3>1, <3>2
  <2>5. CASE k \notin gone
    <3>1. entries'[k] = entries[k] /\ keyMeta'[k] = keyMeta[k]
      BY <2>5
    <3>2. k \in index'[w] <=> k \in index[w]
      BY <2>3, <2>5
    <3> QED
      BY <2>1, <3>1, <3>2
  <2> QED
    BY <2>4, <2>5
<1> QED
  BY <1>1, <1>2, <1>3 DEF IndexesExact, Stored

\* Storing an entry over those it replaces or evicts.
LEMMA PutKeeps ==
    ASSUME CacheInv, NEW o \in CacheOpts, NEW e \in Entry, NEW gone \in SUBSET Keys,
           o.key \in Stored => o.key \in gone,
           Put(o, e, gone)
    PROVE  /\ entries' \in [Keys -> Entry \cup {NoEntry}]
           /\ keyMeta' \in [Keys -> CacheOpts \cup {NoOpts}]
           /\ \A k \in Keys : entries'[k] = NoEntry <=> keyMeta'[k] = NoOpts
           /\ index' \in [Owners -> SUBSET Keys]
           /\ IndexesExact'
<1> USE DEF CacheInv, Put
<1>0. o.key \in Keys /\ o # NoOpts /\ e # NoEntry
  BY OptsFacts, EntryAssumption DEF EntryAssumption
<1>1. /\ entries' \in [Keys -> Entry \cup {NoEntry}]
      /\ keyMeta' \in [Keys -> CacheOpts \cup {NoOpts}]
  BY <1>0 DEF TypeOK
<1>2. \A k \in Keys : entries'[k] = NoEntry <=> keyMeta'[k] = NoOpts
  BY <1>0 DEF TypeOK
<1>3. index' \in [Owners -> SUBSET Keys]
  BY <1>0 DEF TypeOK, Disposed
<1>4. ASSUME NEW w \in Owners, NEW k \in Keys
      PROVE  k \in index'[w] <=> (entries'[k] # NoEntry /\ w \in Tags(keyMeta'[k]))
  <2>1. k \in index[w] <=> (entries[k] # NoEntry /\ w \in Tags(keyMeta[k]))
    BY DEF IndexesExact, Stored
  <2>2. entries[k] = NoEntry <=> keyMeta[k] = NoOpts
    BY DEF TypeOK
  <2>3. Disposed(gone)[w]
          = index[w] \ {j \in gone : keyMeta[j] # NoOpts /\ w \in Tags(keyMeta[j])}
    BY DEF Disposed
  <2>4. index'[w] = IF w \in Tags(o) THEN Disposed(gone)[w] \cup {o.key} ELSE Disposed(gone)[w]
    OBVIOUS
  <2>5. CASE k = o.key
    <3>1. entries'[k] = e /\ keyMeta'[k] = o
      BY <2>5
    <3>2. k \notin Disposed(gone)[w]
      BY <2>1, <2>2, <2>3, <2>5 DEF Stored
    <3> QED
      BY <1>0, <2>4, <2>5, <3>1, <3>2
  <2>6. CASE k # o.key /\ k \in gone
    <3>1. entries'[k] = NoEntry
      BY <2>6
    <3>2. k \notin Disposed(gone)[w]
      BY <2>1, <2>2, <2>3, <2>6
    <3> QED
      BY <2>4, <2>6, <3>1, <3>2
  <2>7. CASE k # o.key /\ k \notin gone
    <3>1. entries'[k] = entries[k] /\ keyMeta'[k] = keyMeta[k]
      BY <2>7
    <3>2. k \in index'[w] <=> k \in index[w]
      BY <2>3, <2>4, <2>7
    <3> QED
      BY <2>1, <3>1, <3>2
  <2> QED
    BY <2>5, <2>6, <2>7
<1> QED
  BY <1>1, <1>2, <1>3, <1>4 DEF IndexesExact, Stored

\* Dropping an owner is removing what it lists: its list is empty anyway.
LEMMA DropRemoves ==
    ASSUME CacheInv, NEW w \in Owners, Drop(w)
    PROVE  /\ index[w] \in SUBSET Keys
           /\ Remove(index[w])
           /\ index[w] = {k \in Stored : w \in Tags(keyMeta[k])}
<1>1. index[w] = {k \in Stored : w \in Tags(keyMeta[k])} /\ index[w] \in SUBSET Keys
  BY DEF CacheInv, TypeOK, IndexesExact, Stored
<1>2. index[w] \cap Stored = index[w]
  BY <1>1
<1>3. Disposed(index[w])[w] = {}
  <2>1. \A k \in index[w] : keyMeta[k] # NoOpts /\ w \in Tags(keyMeta[k])
    BY <1>1 DEF CacheInv, TypeOK, Stored
  <2> QED
    BY <2>1 DEF Disposed
<1>4. [Disposed(index[w]) EXCEPT ![w] = {}] = Disposed(index[w])
  BY <1>3 DEF Disposed
<1> QED
  BY <1>1, <1>2, <1>4 DEF Drop, Remove

-----------------------------------------------------------------------------
\* set: whatever it decides, types and indexes hold afterwards.
LEMMA StoreKeeps ==
    ASSUME CacheInv, NEW o \in CacheOpts, NEW size \in Sizes, NEW age \in Ages,
           Store(o, size, age)
    PROVE  /\ entries' \in [Keys -> Entry \cup {NoEntry}]
           /\ keyMeta' \in [Keys -> CacheOpts \cup {NoOpts}]
           /\ \A k \in Keys : entries'[k] = NoEntry <=> keyMeta'[k] = NoOpts
           /\ index' \in [Owners -> SUBSET Keys]
           /\ IndexesExact'
<1>1. CASE ~config.enabled \/ ~config.ttl
  <2>1. UNCHANGED <<entries, keyMeta, index>>
    BY <1>1 DEF Store, cache
  <2> QED
    BY <2>1 DEF CacheInv, TypeOK, IndexesExact, Stored
<1>2. Swept(o) \in SUBSET Keys
  BY DEF Swept, Stored
<1>3. CASE ~(~config.enabled \/ ~config.ttl) /\ ~Fits(o, size)
  <2>1. Remove(Swept(o))
    BY <1>3 DEF Store
  <2> QED
    BY <1>2, <2>1, RemoveKeeps
<1>4. CASE ~(~config.enabled \/ ~config.ttl) /\ Fits(o, size)
  <2>1. PICK E \in Evictions(o.key, Swept(o)) :
          Put(o, [size |-> size, age |-> age, live |-> TRUE],
              Swept(o) \cup E \cup ({o.key} \cap Stored))
    BY <1>4 DEF Store
  <2>2. E \in SUBSET Keys
    BY <2>1 DEF Evictions, Live, Stored
  <2> DEFINE gone == Swept(o) \cup E \cup ({o.key} \cap Stored)
             e == [size |-> size, age |-> age, live |-> TRUE]
  <2>3. gone \in SUBSET Keys /\ (o.key \in Stored => o.key \in gone)
    BY <1>2, <2>2 DEF Stored
  <2>4. e \in Entry
    BY DEF Entry
  <2>5. Put(o, e, gone)
    BY <2>1
  <2> HIDE DEF gone, e
  <2> QED
    BY <2>3, <2>4, <2>5, PutKeeps
<1> QED
  BY <1>1, <1>3, <1>4

LEMMA InitCache == Init => CacheInv
BY CacheAssumption DEF CacheAssumption, Init, CacheInv, TypeOK, IndexesExact, Stored

-----------------------------------------------------------------------------
LEMMA StepCache == CacheInv /\ [Next]_vars => CacheInv'
<1> SUFFICES ASSUME CacheInv, [Next]_vars
             PROVE  CacheInv'
  OBVIOUS
<1> DEFINE CacheOK == /\ entries' \in [Keys -> Entry \cup {NoEntry}]
                      /\ keyMeta' \in [Keys -> CacheOpts \cup {NoOpts}]
                      /\ \A k \in Keys : entries'[k] = NoEntry <=> keyMeta'[k] = NoOpts
                      /\ index' \in [Owners -> SUBSET Keys]
                      /\ IndexesExact'
           RestOK == /\ config' \in [enabled : BOOLEAN, ttl : BOOLEAN, max : Limits]
                     /\ flight' \in [Queries -> CacheOpts \cup {NoOpts}]
                     /\ late' \subseteq Queries
                     /\ switching' \subseteq Sources
<1>0. CacheOK /\ RestOK => CacheInv'
  BY DEF CacheInv, TypeOK
<1>u. UNCHANGED cache => CacheOK
  BY DEF cache, CacheInv, TypeOK, IndexesExact, Stored
<1>t. /\ config \in [enabled : BOOLEAN, ttl : BOOLEAN, max : Limits]
      /\ flight \in [Queries -> CacheOpts \cup {NoOpts}]
      /\ late \subseteq Queries
      /\ switching \subseteq Sources
  BY DEF CacheInv, TypeOK
<1>r. ASSUME NEW gone \in SUBSET Keys, Remove(gone) PROVE CacheOK
  BY <1>r, RemoveKeeps
<1>d. ASSUME NEW w \in Owners, Drop(w) PROVE CacheOK
  BY <1>d, DropRemoves, RemoveKeeps
<1>1. ASSUME NEW q \in Queries, NEW o \in CacheOpts, NEW bypass \in BOOLEAN, Ask(q, o, bypass)
      PROVE  CacheInv'
  <2>1. RestOK
    BY <1>1, <1>t DEF Ask
  <2>2. UNCHANGED cache \/ Remove({o.key} \cap Stored)
    BY <1>1 DEF Ask
  <2>3. CacheOK
    BY <1>u, <1>r, <2>2 DEF Stored
  <2> QED
    BY <1>0, <2>1, <2>3
<1>2. ASSUME NEW q \in Queries, NEW size \in Sizes, Answer(q, size)
      PROVE  CacheInv'
  <2>1. RestOK
    BY <1>2, <1>t DEF Answer
  <2>2. flight[q] \in CacheOpts
    BY <1>2, <1>t DEF Answer
  <2>3. PICK age \in Ages : Store(flight[q], size, age)
    BY <1>2 DEF Answer, Ages
  <2>4. CacheOK
    BY <2>2, <2>3, StoreKeeps
  <2> QED
    BY <1>0, <2>1, <2>4
<1>3. ASSUME NEW q \in Queries, Fail(q)
      PROVE  CacheInv'
  <2>1. RestOK
    BY <1>3, <1>t DEF Fail
  <2> QED
    BY <1>0, <1>3, <1>u, <2>1 DEF Fail
<1>4. ASSUME NEW d \in Sources, ReplaceFile(d)
      PROVE  CacheInv'
  <2>1. RestOK
    BY <1>4, <1>t DEF ReplaceFile, Switched
  <2>2. \A k \in Keys : entries'[k] = IF k \in Stored /\ d \in keyMeta[k].sources
                                        THEN [entries[k] EXCEPT !.age = "outdated"] ELSE entries[k]
    BY <1>4 DEF ReplaceFile, Switched
  <2>3. ASSUME NEW k \in Keys
        PROVE  /\ entries'[k] \in Entry \cup {NoEntry}
               /\ entries'[k] = NoEntry <=> entries[k] = NoEntry
    <3>1. CASE entries[k] = NoEntry
      BY <2>2, <3>1 DEF Stored
    <3>2. CASE entries[k] # NoEntry
      <4>1. entries[k] \in Entry
        BY <3>2 DEF CacheInv, TypeOK
      <4>2. [entries[k] EXCEPT !.age = "outdated"] \in Entry
        BY <4>1 DEF Entry, Ages
      <4>3. entries'[k] \in Entry
        BY <2>2, <4>1, <4>2
      <4> QED
        BY <3>2, <4>3, EntryAssumption DEF EntryAssumption
    <3> QED
      BY <3>1, <3>2
  <2>4. UNCHANGED <<keyMeta, index>>
    BY <1>4 DEF ReplaceFile
  <2>5. entries' \in [Keys -> Entry \cup {NoEntry}]
    <3>1. entries' = [k \in Keys |-> entries'[k]]
      BY <1>4 DEF ReplaceFile, Switched
    <3> QED
      BY <2>3, <3>1
  <2>6. CacheOK
    BY <2>3, <2>4, <2>5 DEF CacheInv, TypeOK, IndexesExact, Stored
  <2> QED
    BY <1>0, <2>1, <2>6
<1>5. ASSUME NEW d \in Sources, InvalidateReplaced(d)
      PROVE  CacheInv'
  <2>1. RestOK
    BY <1>5, <1>t DEF InvalidateReplaced, route
  <2>2. CacheOK
    BY <1>5, <1>d DEF InvalidateReplaced, Owners
  <2> QED
    BY <1>0, <2>1, <2>2
<1>6. ASSUME NEW d \in Sources, EditSource(d)
      PROVE  CacheInv'
  <2>1. RestOK
    BY <1>6, <1>t DEF EditSource
  <2>2. CacheOK
    BY <1>6, <1>d DEF EditSource, Owners
  <2> QED
    BY <1>0, <2>1, <2>2
<1>7. ASSUME NEW m \in Models, InvalidateModel(m)
      PROVE  CacheInv'
  <2>1. RestOK
    BY <1>7, <1>t DEF InvalidateModel, route
  <2>2. CacheOK
    BY <1>7, <1>d DEF InvalidateModel, Owners
  <2> QED
    BY <1>0, <2>1, <2>2
<1>8. ASSUME NEW k \in Keys, Expire(k)
      PROVE  CacheInv'
  <2>1. RestOK
    BY <1>8, <1>t DEF Expire, route
  <2>2. entries[k] \in Entry
    BY <1>8 DEF Expire, Live, Stored, CacheInv, TypeOK
  <2>3. [entries[k] EXCEPT !.live = FALSE] \in Entry
    BY <2>2 DEF Entry
  <2>4. [entries[k] EXCEPT !.live = FALSE] # NoEntry /\ entries[k] # NoEntry
    BY <2>2, <2>3, EntryAssumption DEF EntryAssumption
  <2>5. entries' = [entries EXCEPT ![k] = [entries[k] EXCEPT !.live = FALSE]]
    BY <1>8 DEF Expire
  <2>6. UNCHANGED <<keyMeta, index>>
    BY <1>8 DEF Expire
  <2>7. /\ entries' \in [Keys -> Entry \cup {NoEntry}]
        /\ \A j \in Keys : entries'[j] = NoEntry <=> entries[j] = NoEntry
    BY <2>3, <2>4, <2>5 DEF CacheInv, TypeOK
  <2>8. CacheOK
    BY <2>6, <2>7 DEF CacheInv, TypeOK, IndexesExact, Stored
  <2> QED
    BY <1>0, <2>1, <2>8
<1>9. ASSUME NEW k \in Keys, Purge(k)
      PROVE  CacheInv'
  <2>1. RestOK
    BY <1>9, <1>t DEF Purge, route
  <2>2. CacheOK
    BY <1>9, <1>r DEF Purge
  <2> QED
    BY <1>0, <2>1, <2>2
<1>10. ASSUME Flush
       PROVE  CacheInv'
  <2>1. RestOK
    BY <1>10, <1>t DEF Flush, route
  <2>2. /\ \A k \in Keys : entries'[k] = NoEntry /\ keyMeta'[k] = NoOpts
        /\ \A w \in Owners : index'[w] = {}
    BY <1>10 DEF Flush, Forgotten, Stored, CacheInv, TypeOK
  <2>3. /\ entries' = [k \in Keys |-> NoEntry]
        /\ keyMeta' = [k \in Keys |-> NoOpts]
        /\ index' = [w \in Owners |-> {}]
    BY <1>10, <2>2 DEF Flush, Forgotten
  <2>4. CacheOK
    BY <2>3 DEF IndexesExact, Stored
  <2> QED
    BY <1>0, <2>1, <2>4
<1>11. ASSUME Configure
       PROVE  CacheInv'
  <2>1. RestOK
    BY <1>11, <1>t DEF Configure, route
  <2> QED
    BY <1>0, <1>11, <1>u, <2>1 DEF Configure
<1>12. CASE UNCHANGED vars
  <2>1. RestOK /\ UNCHANGED cache
    BY <1>12, <1>t DEF vars, cache
  <2> QED
    BY <1>0, <1>u, <2>1
<1> QED
  BY <1>1, <1>2, <1>3, <1>4, <1>5, <1>6, <1>7, <1>8, <1>9, <1>10, <1>11, <1>12 DEF Next

\* Every variable keeps its type, and an entry and its meta come and go
\* together: TypeOK of the cache and its route.
THEOREM TypeCorrect == Spec => []TypeOK
<1>1. CacheInv => TypeOK
  BY DEF CacheInv
<1> QED
  BY <1>1, InitCache, StepCache, PTL DEF Spec

\* Whatever is stored, replaced, evicted, expired or dropped, an owner lists
\* exactly the keys of its entries: IndexesExact, which the dispose hook and
\* the order of set() are there for.
THEOREM IndexesAreExact == Spec => []IndexesExact
<1>1. CacheInv => IndexesExact
  BY DEF CacheInv
<1> QED
  BY <1>1, InitCache, StepCache, PTL DEF Spec

-----------------------------------------------------------------------------
\* Each invalidation removes the entries of its owner and no other: the
\* indexes replace a scan (DropsExactly).
THEOREM DropsAreExact == Spec => DropsExactly
<1>1. ASSUME CacheInv, NEW w \in Owners,
             InvalidateModel(w) \/ InvalidateReplaced(w) \/ EditSource(w)
      PROVE  entries' = [k \in Keys |-> IF k \in Stored /\ w \in Tags(keyMeta[k])
                                          THEN NoEntry ELSE entries[k]]
  <2>1. Drop(w)
    BY <1>1 DEF InvalidateModel, InvalidateReplaced, EditSource
  <2>2. Remove(index[w]) /\ index[w] = {k \in Stored : w \in Tags(keyMeta[k])}
    BY <1>1, <2>1, DropRemoves
  <2> QED
    BY <2>2 DEF Remove, Forgotten
<1>2. CacheInv => \A w \in Owners :
        InvalidateModel(w) \/ InvalidateReplaced(w) \/ EditSource(w) =>
          entries' = [k \in Keys |-> IF k \in Stored /\ w \in Tags(keyMeta[k])
                                       THEN NoEntry ELSE entries[k]]
  BY <1>1
<1> QED
  BY <1>2, InitCache, StepCache, PTL DEF Spec, DropsExactly

-----------------------------------------------------------------------------
\* Entries leave, entries stay as they are: nothing becomes outdated.
LEMMA KeptAgesKeep ==
    ASSUME OutdatedOnlyIfLate, switching' = switching,
           \A k \in Keys : \/ entries'[k] = NoEntry
                           \/ entries'[k] = entries[k] /\ keyMeta'[k] = keyMeta[k]
                           \/ entries'[k].age # "outdated"
    PROVE  OutdatedOnlyIfLate'
BY DEF OutdatedOnlyIfLate, Stored

LEMMA DropKept ==
    ASSUME CacheInv, NEW w \in Owners, Drop(w), NEW k \in Keys
    PROVE  \/ entries'[k] = NoEntry
           \/ entries'[k] = entries[k] /\ keyMeta'[k] = keyMeta[k] /\ w \notin Tags(keyMeta[k])
<1>1. Remove(index[w]) /\ index[w] = {j \in Stored : w \in Tags(keyMeta[j])}
  BY DropRemoves
<1>2. CASE k \in index[w]
  BY <1>1, <1>2 DEF Remove, Forgotten
<1>3. CASE k \notin index[w]
  <2>1. entries'[k] = entries[k] /\ keyMeta'[k] = keyMeta[k]
    BY <1>1, <1>3 DEF Remove, Forgotten
  <2>2. entries[k] = NoEntry \/ w \notin Tags(keyMeta[k])
    BY <1>1, <1>3 DEF Stored
  <2> QED
    BY <2>1, <2>2
<1> QED
  BY <1>2, <1>3

\* An entry a query stores is current or late; those around it stay or go.
LEMMA StoreAges ==
    ASSUME CacheInv, NEW o \in CacheOpts, NEW size \in Sizes,
           NEW age \in {"current", "late"}, Store(o, size, age), NEW k \in Keys
    PROVE  \/ entries'[k] = NoEntry
           \/ entries'[k] = entries[k] /\ keyMeta'[k] = keyMeta[k]
           \/ entries'[k].age # "outdated"
<1>1. CASE ~config.enabled \/ ~config.ttl
  BY <1>1 DEF Store, cache
<1>2. CASE ~(~config.enabled \/ ~config.ttl) /\ ~Fits(o, size)
  BY <1>2 DEF Store, Remove, Forgotten
<1>3. CASE ~(~config.enabled \/ ~config.ttl) /\ Fits(o, size)
  <2> DEFINE e == [size |-> size, age |-> age, live |-> TRUE]
  <2>1. PICK E \in Evictions(o.key, Swept(o)) :
          Put(o, e, Swept(o) \cup E \cup ({o.key} \cap Stored))
    BY <1>3 DEF Store
  <2>2. e.age # "outdated"
    OBVIOUS
  <2> HIDE DEF e
  <2> QED
    BY <2>1, <2>2 DEF Put
<1> QED
  BY <1>1, <1>2, <1>3

LEMMA StepAges == CacheInv /\ OutdatedOnlyIfLate /\ [Next]_vars => OutdatedOnlyIfLate'
<1> SUFFICES ASSUME CacheInv, OutdatedOnlyIfLate, [Next]_vars
             PROVE  OutdatedOnlyIfLate'
  OBVIOUS
<1>1. ASSUME NEW q \in Queries, NEW o \in CacheOpts, NEW bypass \in BOOLEAN, Ask(q, o, bypass)
      PROVE  OutdatedOnlyIfLate'
  <2>1. UNCHANGED cache \/ Remove({o.key} \cap Stored)
    BY <1>1 DEF Ask
  <2>2. switching' = switching
    BY <1>1 DEF Ask
  <2> QED
    BY <2>1, <2>2, KeptAgesKeep DEF cache, Remove, Forgotten
<1>2. ASSUME NEW q \in Queries, NEW size \in Sizes, Answer(q, size)
      PROVE  OutdatedOnlyIfLate'
  <2>1. flight[q] \in CacheOpts
    BY <1>2 DEF Answer, CacheInv, TypeOK
  <2>2. PICK age \in {"current", "late"} : Store(flight[q], size, age)
    BY <1>2 DEF Answer
  <2>3. switching' = switching
    BY <1>2 DEF Answer
  <2> QED
    BY <2>1, <2>2, <2>3, StoreAges, KeptAgesKeep
<1>3. ASSUME NEW q \in Queries, Fail(q)
      PROVE  OutdatedOnlyIfLate'
  BY <1>3, KeptAgesKeep DEF Fail, cache
<1>4. ASSUME NEW d \in Sources, ReplaceFile(d)
      PROVE  OutdatedOnlyIfLate'
  <2>1. /\ keyMeta' = keyMeta
        /\ switching' = switching \cup {d}
        /\ \A k \in Keys : entries'[k] = IF k \in Stored /\ d \in keyMeta[k].sources
                                           THEN [entries[k] EXCEPT !.age = "outdated"] ELSE entries[k]
    BY <1>4 DEF ReplaceFile, Switched
  <2>2. ASSUME NEW k \in Keys, entries'[k] # NoEntry, entries'[k].age = "outdated"
        PROVE  keyMeta'[k].sources \cap switching' # {}
    <3>1. CASE k \in Stored /\ d \in keyMeta[k].sources
      BY <2>1, <3>1
    <3>2. CASE ~(k \in Stored /\ d \in keyMeta[k].sources)
      <4>1. entries'[k] = entries[k]
        BY <2>1, <3>2
      <4>2. keyMeta[k].sources \cap switching # {}
        BY <2>2, <4>1 DEF OutdatedOnlyIfLate, Stored
      <4> QED
        BY <2>1, <4>2
    <3> QED
      BY <3>1, <3>2
  <2> QED
    BY <2>2 DEF OutdatedOnlyIfLate, Stored
<1>5. ASSUME NEW d \in Sources, InvalidateReplaced(d)
      PROVE  OutdatedOnlyIfLate'
  <2>1. Drop(d) /\ switching' = switching \ {d} /\ d \in Owners
    BY <1>5 DEF InvalidateReplaced, Owners
  <2>2. ASSUME NEW k \in Keys, entries'[k] # NoEntry, entries'[k].age = "outdated"
        PROVE  keyMeta'[k].sources \cap switching' # {}
    <3>1. entries'[k] = entries[k] /\ keyMeta'[k] = keyMeta[k] /\ d \notin Tags(keyMeta[k])
      BY <2>1, <2>2, DropKept
    <3>2. keyMeta[k].sources \cap switching # {}
      BY <2>2, <3>1 DEF OutdatedOnlyIfLate, Stored
    <3>3. d \notin keyMeta[k].sources
      BY <3>1 DEF Tags
    <3> QED
      BY <2>1, <3>1, <3>2, <3>3
  <2> QED
    BY <2>2 DEF OutdatedOnlyIfLate, Stored
<1>6. ASSUME NEW d \in Sources, EditSource(d)
      PROVE  OutdatedOnlyIfLate'
  <2>1. Drop(d) /\ switching' = switching /\ d \in Owners
    BY <1>6 DEF EditSource, Owners
  <2> QED
    BY <2>1, DropKept, KeptAgesKeep
<1>7. ASSUME NEW m \in Models, InvalidateModel(m)
      PROVE  OutdatedOnlyIfLate'
  <2>1. Drop(m) /\ switching' = switching /\ m \in Owners
    BY <1>7 DEF InvalidateModel, Owners
  <2> QED
    BY <2>1, DropKept, KeptAgesKeep
<1>8. ASSUME NEW k \in Keys, Expire(k)
      PROVE  OutdatedOnlyIfLate'
  <2>1. entries[k] \in Entry
    BY <1>8 DEF Expire, Live, Stored, CacheInv, TypeOK
  <2>2. [entries[k] EXCEPT !.live = FALSE].age = entries[k].age
    BY <2>1 DEF Entry
  <2>3. \A j \in Keys : entries'[j] = IF j = k THEN [entries[k] EXCEPT !.live = FALSE] ELSE entries[j]
    BY <1>8 DEF Expire, CacheInv, TypeOK
  <2>4. keyMeta' = keyMeta /\ switching' = switching /\ k \in Stored
    BY <1>8 DEF Expire, Live
  <2>5. ASSUME NEW j \in Keys, entries'[j] # NoEntry, entries'[j].age = "outdated"
        PROVE  keyMeta[j].sources \cap switching # {}
    BY <2>2, <2>3, <2>4, <2>5 DEF OutdatedOnlyIfLate, Stored
  <2> QED
    BY <2>4, <2>5 DEF OutdatedOnlyIfLate, Stored
<1>9. ASSUME NEW k \in Keys, Purge(k)
      PROVE  OutdatedOnlyIfLate'
  BY <1>9, KeptAgesKeep DEF Purge, Remove, Forgotten
<1>10. ASSUME Flush
       PROVE  OutdatedOnlyIfLate'
  BY <1>10, KeptAgesKeep DEF Flush, Forgotten
<1>11. ASSUME Configure
       PROVE  OutdatedOnlyIfLate'
  BY <1>11, KeptAgesKeep DEF Configure, cache
<1>12. CASE UNCHANGED vars
  BY <1>12, KeptAgesKeep DEF vars
<1> QED
  BY <1>1, <1>2, <1>3, <1>4, <1>5, <1>6, <1>7, <1>8, <1>9, <1>10, <1>11, <1>12 DEF Next

\* Once a switch of a source is over, the cache holds no result that was in it
\* before the switch (OutdatedOnlyIfLate): what outlives it was still on its way.
THEOREM OldResultsGo == Spec => []OutdatedOnlyIfLate
<1>1. Init => OutdatedOnlyIfLate
  BY DEF Init, OutdatedOnlyIfLate, Stored
<1> QED
  BY <1>1, InitCache, StepCache, StepAges, PTL DEF Spec

-----------------------------------------------------------------------------
(* Sums of sizes.  Induction is by the least counterexample. *)

BytesOf(ent, K) == MapThenSumSet(LAMBDA k : ent[k].size, K)

First(s) == CHOOSE x \in s : TRUE

\* What the fold of K computes on the way: the sum of every subset.
IsSum(g, ent, K) ==
    g = [s \in SUBSET K |-> IF s = {} THEN 0 ELSE ent[First(s)].size + g[s \ {First(s)}]]

LEMMA Least ==
    ASSUME NEW T \in SUBSET Nat, T # {}
    PROVE  \E m \in T : \A n \in T : m <= n
<1>1. PICK R : IsWellFoundedOn(R, Nat) /\ \A i, j \in Nat : i < j => <<i, j>> \in R
  <2>1. \A i, j \in Nat : i < j => <<i, j>> \in OpToRel(<, Nat)
    BY Zenon DEF OpToRel
  <2>2. QED
    BY <2>1, NatLessThanWellFounded, Zenon
<1>2. T \subseteq Nat
  OBVIOUS
<1>3. IsWellFoundedOn(R, Nat)
  BY <1>1
<1>4. PICK m \in T : \A n \in T : ~ (<<n, m>> \in R)
  BY <1>2, <1>3, WFMin, ZenonT(30)
<1>5. \A i, j \in Nat : i < j => <<i, j>> \in R
  BY <1>1
<1>6. \A n \in T : ~ (n < m)
  BY <1>4, <1>5, Zenon
<1>7. QED
  BY <1>6

\* Of subsets of a finite set, one has none of the others within it.
LEMMA Smallest ==
    ASSUME NEW K, IsFiniteSet(K), NEW T \in SUBSET (SUBSET K), T # {}
    PROVE  \E s \in T : \A t \in SUBSET s : t # s => t \notin T
<1> DEFINE N == {Cardinality(s) : s \in T}
<1>1. \A s \in T : IsFiniteSet(s) /\ Cardinality(s) \in Nat
  BY FS_Subset, FS_CardinalityType
<1>2. N \in SUBSET Nat /\ N # {}
  BY <1>1
<1>3. PICK n \in N : \A m \in N : n <= m
  BY <1>2, Least
<1>4. PICK s \in T : Cardinality(s) = n
  BY <1>3
<1>5. ASSUME NEW t \in SUBSET s, t # s, t \in T PROVE FALSE
  <2>1. Cardinality(t) <= n /\ Cardinality(t) # n
    BY <1>1, <1>4, <1>5, FS_Subset
  <2>2. n \in Nat /\ n <= Cardinality(t) /\ Cardinality(t) \in Nat
    BY <1>1, <1>2, <1>3, <1>5
  <2> QED
    BY <2>1, <2>2
<1> QED
  BY <1>5

LEMMA FirstIsIn == ASSUME NEW s, s # {} PROVE First(s) \in s
BY DEF First

\* The fold is well defined on finite sets: there is a function as it asks for.
LEMMA SumExists ==
    ASSUME NEW K, IsFiniteSet(K), NEW ent
    PROVE  \E g : IsSum(g, ent, K)
<1> DEFINE D(n) == {s \in SUBSET K : Cardinality(s) <= n}
           Upto(g, n) == \A s \in D(n) : g[s] = IF s = {} THEN 0
                                                ELSE ent[First(s)].size + g[s \ {First(s)}]
           T == {n \in Nat : ~ \E g : Upto(g, n)}
<1>1. \A s \in SUBSET K : IsFiniteSet(s) /\ Cardinality(s) \in Nat /\ Cardinality(s) <= Cardinality(K)
  BY FS_Subset, FS_CardinalityType
<1>2. T = {}
  <2>1. SUFFICES ASSUME T # {} PROVE FALSE
    OBVIOUS
  <2>2. PICK n \in T : \A m \in T : n <= m
    <3>1. T \in SUBSET Nat
      OBVIOUS
    <3> HIDE DEF T
    <3> QED
      BY <2>1, <3>1, Least
  <2>3. n # 0
    <3>1. \A s \in D(0) : s = {}
      BY <1>1, FS_EmptySet
    <3>2. Upto([s \in D(0) |-> 0], 0)
      BY <3>1
    <3> QED
      BY <3>2
  <2>4. n \in Nat /\ n - 1 \in Nat /\ n - 1 \notin T
    <3>1. n \in Nat /\ n - 1 \in Nat
      BY <2>3
    <3> HIDE DEF T
    <3> QED
      BY <2>2, <3>1
  <2>5. PICK g : Upto(g, n - 1)
    BY <2>4
  <2> DEFINE h == [s \in D(n) |-> IF s \in D(n - 1) THEN g[s]
                                  ELSE ent[First(s)].size + g[s \ {First(s)}]]
  <2>6. ASSUME NEW s \in D(n)
        PROVE  h[s] = IF s = {} THEN 0 ELSE ent[First(s)].size + h[s \ {First(s)}]
    <3>1. CASE s = {}
      <4>1. s \in D(n - 1)
        BY <2>4, <3>1, FS_EmptySet
      <4> QED
        BY <2>5, <3>1, <4>1
    <3>2. CASE s # {}
      <4> DEFINE x == First(s)
                 r == s \ {x}
      <4>1. x \in s
        BY <3>2, FirstIsIn
      <4>2. Cardinality(r) = Cardinality(s) - 1
        BY <1>1, <4>1, FS_RemoveElement
      <4>3. r \in D(n - 1) /\ r \in D(n)
        BY <1>1, <2>4, <4>2
      <4>4. h[r] = g[r]
        BY <4>3
      <4>5. CASE s \in D(n - 1)
        <5>1. g[s] = ent[x].size + g[r]
          BY <2>5, <3>2, <4>5
        <5>2. h[s] = g[s]
          BY <4>5
        <5> QED
          BY <3>2, <4>4, <5>1, <5>2
      <4>6. CASE s \notin D(n - 1)
        <5>1. h[s] = ent[x].size + g[r]
          BY <4>6
        <5> QED
          BY <3>2, <4>4, <5>1
      <4> QED
        BY <4>5, <4>6
    <3> QED
      BY <3>1, <3>2
  <2>7. Upto(h, n)
    BY <2>6
  <2> QED
    BY <2>2, <2>7
<1>3. PICK g : Upto(g, Cardinality(K))
  BY <1>1, <1>2
<1> DEFINE h == [s \in SUBSET K |-> g[s]]
<1>4. \A s \in SUBSET K : s \in D(Cardinality(K))
  BY <1>1
<1>5. ASSUME NEW s \in SUBSET K
      PROVE  h[s] = IF s = {} THEN 0 ELSE ent[First(s)].size + h[s \ {First(s)}]
  BY <1>3, <1>4, <1>5
<1>6. h = [s \in SUBSET K |-> IF s = {} THEN 0 ELSE ent[First(s)].size + h[s \ {First(s)}]]
  BY <1>5
<1> QED
  BY <1>6 DEF IsSum

LEMMA BytesAreASum ==
    ASSUME NEW ent, NEW K, IsFiniteSet(K)
    PROVE  \E g : IsSum(g, ent, K) /\ BytesOf(ent, K) = g[K]
<1> DEFINE iter == CHOOSE g : IsSum(g, ent, K)
<1>1. IsSum(iter, ent, K)
  BY SumExists
<1>2. BytesOf(ent, K) = iter[K]
  BY DEF BytesOf, MapThenSumSet, MapThenFoldSet, IsSum, First
<1> QED
  BY <1>1, <1>2

\* A sum is a number; an element adds its size.
LEMMA SumStep ==
    ASSUME NEW K, IsFiniteSet(K), NEW ent, NEW g, IsSum(g, ent, K),
           \A k \in K : ent[k].size \in Nat
    PROVE  /\ g[{}] = 0
           /\ \A s \in SUBSET K : /\ g[s] \in Nat
                                  /\ \A x \in s : g[s] = ent[x].size + g[s \ {x}]
<1> DEFINE Good(s) == /\ g[s] \in Nat
                      /\ \A x \in s : g[s] = ent[x].size + g[s \ {x}]
           T == {s \in SUBSET K : ~Good(s)}
<1>1. \A s \in SUBSET K : g[s] = IF s = {} THEN 0 ELSE ent[First(s)].size + g[s \ {First(s)}]
  BY DEF IsSum
<1>2. SUFFICES ASSUME T # {} PROVE FALSE
  BY <1>1
<1>3. PICK s \in T : \A t \in SUBSET s : t # s => t \notin T
  <2>1. T \in SUBSET (SUBSET K)
    OBVIOUS
  <2> HIDE DEF T
  <2> QED
    BY <1>2, <2>1, Smallest
<1>4. s \in SUBSET K /\ \A t \in SUBSET s : t # s => t \in SUBSET K /\ Good(t)
  BY <1>3
<1>5. CASE s = {}
  <2>1. g[s] = 0
    BY <1>1, <1>4, <1>5
  <2>2. Good(s)
    BY <1>5, <2>1
  <2> QED
    BY <2>2
<1>6. CASE s # {}
  <2> DEFINE y == First(s)
  <2>1. y \in s
    BY <1>6, FirstIsIn
  <2>2. g[s] = ent[y].size + g[s \ {y}]
    BY <1>1, <1>4, <1>6
  <2>3. g[s] \in Nat
    BY <1>4, <2>1, <2>2
  <2>4. ASSUME NEW x \in s PROVE g[s] = ent[x].size + g[s \ {x}]
    <3>1. CASE x = y
      BY <2>2, <3>1
    <3>2. CASE x # y
      <4> DEFINE r == (s \ {x}) \ {y}
      <4>1. r = (s \ {y}) \ {x}
        OBVIOUS
      <4>2. x \in s \ {y} /\ y \in s \ {x}
        BY <2>1, <3>2
      <4>3. g[s \ {y}] = ent[x].size + g[r]
        BY <1>4, <2>1, <4>1, <4>2
      <4>4. g[s \ {x}] = ent[y].size + g[r]
        BY <1>4, <4>2
      <4>5. g[r] \in Nat
        BY <1>4
      <4>6. ent[x].size \in Nat /\ ent[y].size \in Nat
        BY <1>4, <2>1
      <4> HIDE DEF r
      <4> QED
        BY <2>2, <4>3, <4>4, <4>5, <4>6
    <3> QED
      BY <3>1, <3>2
  <2> QED
    BY <1>3, <2>3, <2>4
<1> QED
  BY <1>5, <1>6

\* The sum of a set depends on the sizes in it only, and not on the set around.
LEMMA SumsAgree ==
    ASSUME NEW L, IsFiniteSet(L), NEW K \in SUBSET L, NEW ent, NEW ent2, NEW g, NEW h,
           IsSum(g, ent, K), IsSum(h, ent2, L),
           \A k \in K : ent[k].size = ent2[k].size
    PROVE  g[K] = h[K]
<1> DEFINE T == {s \in SUBSET K : g[s] # h[s]}
<1>1. SUFFICES ASSUME T # {} PROVE FALSE
  OBVIOUS
<1>2. PICK s \in T : \A t \in SUBSET s : t # s => t \notin T
  <2>1. T \in SUBSET (SUBSET K) /\ IsFiniteSet(K)
    BY FS_Subset
  <2> HIDE DEF T
  <2> QED
    BY <1>1, <2>1, Smallest
<1>3. /\ g[s] = IF s = {} THEN 0 ELSE ent[First(s)].size + g[s \ {First(s)}]
      /\ h[s] = IF s = {} THEN 0 ELSE ent2[First(s)].size + h[s \ {First(s)}]
  BY DEF IsSum
<1>4. CASE s = {}
  BY <1>3, <1>4
<1>5. CASE s # {}
  <2>1. First(s) \in s /\ s \in SUBSET K
    BY <1>5, FirstIsIn
  <2>2. g[s \ {First(s)}] = h[s \ {First(s)}]
    BY <1>2, <2>1
  <2>3. ent[First(s)].size = ent2[First(s)].size
    BY <2>1
  <2> QED
    BY <1>3, <1>5, <2>2, <2>3
<1> QED
  BY <1>4, <1>5

LEMMA SumGrows ==
    ASSUME NEW L, IsFiniteSet(L), NEW K \in SUBSET L, NEW ent, NEW g, IsSum(g, ent, L),
           \A k \in L : ent[k].size \in Nat
    PROVE  g[K] <= g[L]
<1> DEFINE T == {s \in SUBSET L : K \subseteq s /\ ~(g[K] <= g[s])}
<1>1. SUFFICES ASSUME T # {} PROVE FALSE
  OBVIOUS
<1>2. PICK s \in T : \A t \in SUBSET s : t # s => t \notin T
  <2>1. T \in SUBSET (SUBSET L)
    OBVIOUS
  <2> HIDE DEF T
  <2> QED
    BY <1>1, <2>1, Smallest
<1>3. \A t \in SUBSET L : g[t] \in Nat /\ \A x \in t : g[t] = ent[x].size + g[t \ {x}]
  BY SumStep
<1>4. s \in SUBSET L /\ K \subseteq s /\ ~(g[K] <= g[s])
  OBVIOUS
<1>5. s # K
  BY <1>3, <1>4
<1>6. PICK x \in s : x \notin K
  BY <1>4, <1>5
<1>7. s \ {x} \in SUBSET L /\ K \subseteq s \ {x} /\ s \ {x} # s
  BY <1>4, <1>6
<1>8. g[K] <= g[s \ {x}]
  BY <1>2, <1>7
<1>9. g[s] = ent[x].size + g[s \ {x}]
  BY <1>3, <1>4
<1>10. g[s] \in Nat /\ g[K] \in Nat /\ g[s \ {x}] \in Nat /\ ent[x].size \in Nat
  BY <1>3, <1>4, <1>7
<1> HIDE DEF T
<1> QED
  BY <1>4, <1>8, <1>9, <1>10

\* Fewer entries of the same sizes take no more bytes.
LEMMA BytesShrink ==
    ASSUME NEW L, IsFiniteSet(L), NEW K \in SUBSET L, NEW ent, NEW ent2,
           \A k \in L : ent[k].size \in Nat,
           \A k \in K : ent2[k].size = ent[k].size
    PROVE  /\ BytesOf(ent2, K) \in Nat /\ BytesOf(ent, L) \in Nat
           /\ BytesOf(ent2, K) <= BytesOf(ent, L)
<1>1. IsFiniteSet(K)
  BY FS_Subset
<1>2. PICK g : IsSum(g, ent2, K) /\ BytesOf(ent2, K) = g[K]
  BY <1>1, BytesAreASum
<1>3. PICK h : IsSum(h, ent, L) /\ BytesOf(ent, L) = h[L]
  BY BytesAreASum
<1>4. g[K] = h[K]
  BY <1>2, <1>3, SumsAgree
<1>5. h[K] \in Nat /\ h[L] \in Nat
  BY <1>3, SumStep
<1>6. h[K] <= h[L]
  BY <1>3, SumGrows
<1> QED
  BY <1>2, <1>3, <1>4, <1>5, <1>6

\* One entry more takes its size more.
LEMMA BytesAdd ==
    ASSUME NEW L, IsFiniteSet(L), NEW x \in L, NEW ent,
           \A k \in L : ent[k].size \in Nat
    PROVE  BytesOf(ent, L) = ent[x].size + BytesOf(ent, L \ {x})
<1>1. PICK K \in SUBSET L : K = L \ {x}
  OBVIOUS
<1>2. IsFiniteSet(K)
  BY FS_Subset
<1>3. PICK g : IsSum(g, ent, K) /\ BytesOf(ent, K) = g[K]
  BY <1>2, BytesAreASum
<1>4. PICK h : IsSum(h, ent, L) /\ BytesOf(ent, L) = h[L]
  BY BytesAreASum
<1>5. \A k \in K : ent[k].size = ent[k].size
  OBVIOUS
<1>6. g[K] = h[K]
  BY <1>3, <1>4, <1>5, SumsAgree
<1>7. h[L] = ent[x].size + h[L \ {x}]
  <2>1. L \in SUBSET L
    OBVIOUS
  <2>2. IsSum(h, ent, L)
    BY <1>4
  <2>3. \A s \in SUBSET L : h[s] \in Nat /\ \A y \in s : h[s] = ent[y].size + h[s \ {y}]
    BY <2>2, SumStep
  <2> QED
    BY <2>1, <2>3
<1> QED
  BY <1>1, <1>3, <1>4, <1>6, <1>7

-----------------------------------------------------------------------------
(* The quota and the cap. *)

Of(w) == {k \in Live : keyMeta[k].org = w}

\* QuotaHolds, its sums as functions of the entries.
QuotaKept == \A w \in Orgs : Quota[w] > 0 => BytesOf(entries, Of(w)) <= Quota[w]

LEMMA QuotaSaysSo == QuotaKept <=> QuotaHolds
BY DEF QuotaKept, QuotaHolds, Of, Bytes, BytesOf

\* An entry that answers after the step answered before it, for as much.
Stayed(k) ==
    k \in Live' => /\ k \in Live
                   /\ keyMeta'[k] = keyMeta[k]
                   /\ entries'[k].size = entries[k].size

LEMMA LiveFacts ==
    ASSUME CacheInv
    PROVE  /\ Live \in SUBSET Keys /\ IsFiniteSet(Live) /\ IsFiniteSet(Stored)
           /\ Live \in SUBSET Stored
           /\ \A k \in Live : entries[k] \in Entry /\ entries[k].size \in Nat
           /\ \A w \in Orgs : \A k \in Live : keyMeta[k].org = w => k \in index[w]
<1>1. Live \in SUBSET Keys /\ Stored \in SUBSET Keys /\ Live \in SUBSET Stored
  BY DEF Live, Stored
<1>2. IsFiniteSet(Live) /\ IsFiniteSet(Stored)
  BY <1>1, CacheAssumption, FS_Subset DEF CacheAssumption
<1>3. \A k \in Live : entries[k] \in Entry
  BY <1>1 DEF CacheInv, TypeOK, Stored
<1>4. \A k \in Live : entries[k].size \in Nat
  BY <1>3, CacheAssumption DEF CacheAssumption, Entry
<1>5. ASSUME NEW w \in Orgs, NEW k \in Live, keyMeta[k].org = w PROVE k \in index[w]
  <2>1. w \in Owners /\ w \in Tags(keyMeta[k])
    BY <1>5 DEF Owners, Tags
  <2> QED
    BY <1>1, <2>1 DEF CacheInv, IndexesExact
<1> QED
  BY <1>1, <1>2, <1>3, <1>4, <1>5

LEMMA LiveFactsNext ==
    ASSUME CacheInv'
    PROVE  /\ Live' \in SUBSET Keys /\ IsFiniteSet(Live')
           /\ \A k \in Live' : entries'[k].size \in Nat
<1>1. Live' \in SUBSET Keys
  BY DEF Live, Stored
<1>2. IsFiniteSet(Live')
  BY <1>1, CacheAssumption, FS_Subset DEF CacheAssumption
<1>3. \A k \in Live' : entries'[k] \in Entry
  BY DEF CacheInv, TypeOK, Stored, Live
<1> QED
  BY <1>1, <1>2, <1>3, CacheAssumption DEF CacheAssumption, Entry

\* While nothing new answers, no organization holds more.
LEMMA QuotaStays ==
    ASSUME CacheInv, CacheInv', QuotaKept, NEW w \in Orgs, Quota[w] > 0,
           \A k \in Keys : k \in Live' /\ keyMeta'[k].org = w => Stayed(k)
    PROVE  BytesOf(entries', Of(w)') <= Quota[w]
<1> DEFINE L == {k \in Live : keyMeta[k].org = w}
           K == {k \in Live' : keyMeta'[k].org = w}
<1>1. IsFiniteSet(L) /\ \A k \in L : entries[k].size \in Nat
  BY LiveFacts, FS_Subset
<1>2. K \in SUBSET L /\ \A k \in K : entries'[k].size = entries[k].size
  BY LiveFactsNext DEF Stayed
<1>3. BytesOf(entries, L) <= Quota[w]
  BY DEF QuotaKept, Of
<1>4. Quota[w] \in Nat
  BY CacheAssumption DEF CacheAssumption
<1>5. Of(w)' = K
  BY DEF Of
<1> HIDE DEF L, K
<1>6. BytesOf(entries', K) \in Nat /\ BytesOf(entries, L) \in Nat /\ BytesOf(entries', K) <= BytesOf(entries, L)
  BY <1>1, <1>2, BytesShrink
<1> QED
  BY <1>3, <1>4, <1>5, <1>6

\* An entry more, if what the organization's index lists leaves room for it.
LEMMA QuotaFits ==
    ASSUME CacheInv, CacheInv', NEW o \in CacheOpts, NEW size \in Sizes, Fits(o, size),
           NEW w \in Orgs, Quota[w] > 0, o.key \in Live', keyMeta'[o.key] = o, o.org = w,
           entries'[o.key].size = size,
           \A k \in Keys \ {o.key} : Stayed(k)
    PROVE  BytesOf(entries', Of(w)') <= Quota[w]
<1> DEFINE x == o.key
           N == {k \in Live' : keyMeta'[k].org = w}
           K == N \ {x}
           L == index[w] \cap Live
<1>1. IsFiniteSet(L) /\ \A k \in L : entries[k].size \in Nat
  BY LiveFacts, FS_Subset
<1>2. IsFiniteSet(N) /\ x \in N /\ \A k \in N : entries'[k].size \in Nat
  BY LiveFactsNext, FS_Subset
<1>3. K \in SUBSET L /\ \A k \in K : entries'[k].size = entries[k].size
  BY LiveFacts, LiveFactsNext DEF Stayed
<1>4. Bytes(L) + size <= Quota[w]
  BY DEF Fits, HasQuota
<1>5. Bytes(L) = BytesOf(entries, L)
  BY DEF Bytes, BytesOf
<1>6. Of(w)' = N
  BY DEF Of
<1>7. Quota[w] \in Nat /\ size \in Nat /\ entries'[x].size = size
  BY CacheAssumption DEF CacheAssumption
<1>8. K = N \ {x}
  OBVIOUS
<1> HIDE DEF L, K, N, x
<1>9. /\ BytesOf(entries', K) \in Nat /\ BytesOf(entries, L) \in Nat
      /\ BytesOf(entries', K) <= BytesOf(entries, L)
  BY <1>1, <1>3, BytesShrink
<1>10. BytesOf(entries', N) = entries'[x].size + BytesOf(entries', N \ {x})
  BY <1>2, BytesAdd
<1> QED
  BY <1>4, <1>5, <1>6, <1>7, <1>8, <1>9, <1>10

LEMMA QuotaWhenQuiet ==
    ASSUME CacheInv, CacheInv', QuotaKept, \A k \in Keys : Stayed(k)
    PROVE  QuotaKept'
BY QuotaStays DEF QuotaKept

\* What set() leaves of the keys it does not write.
LEMMA PutLeaves ==
    ASSUME NEW o \in CacheOpts, NEW e \in Entry, NEW gone, Put(o, e, gone),
           NEW k \in Keys, k # o.key
    PROVE  Stayed(k) /\ (k \in Live' <=> k \in Live \ gone)
BY DEF Put, Stayed, Live, Stored

LEMMA RemoveLeaves ==
    ASSUME NEW gone, Remove(gone), NEW k \in Keys
    PROVE  Stayed(k)
BY DEF Remove, Forgotten, Stayed, Live, Stored

LEMMA QuotaStored ==
    ASSUME CacheInv, CacheInv', QuotaKept, NEW o \in CacheOpts, NEW size \in Sizes,
           NEW age \in Ages, Store(o, size, age)
    PROVE  QuotaKept'
<1>1. CASE ~config.enabled \/ ~config.ttl
  BY <1>1, QuotaWhenQuiet DEF Store, cache, Stayed, Live, Stored
<1>2. CASE ~(~config.enabled \/ ~config.ttl) /\ ~Fits(o, size)
  BY <1>2, QuotaWhenQuiet, RemoveLeaves DEF Store
<1>3. CASE ~(~config.enabled \/ ~config.ttl) /\ Fits(o, size)
  <2>0. PICK e \in Entry : /\ e = [size |-> size, age |-> age, live |-> TRUE]
                          /\ \E gone : Put(o, e, gone)
    BY <1>3 DEF Store, Entry
  <2>1. PICK gone : e = [size |-> size, age |-> age, live |-> TRUE] /\ Put(o, e, gone)
    BY <2>0
  <2>2. \A k \in Keys \ {o.key} : Stayed(k)
    BY <2>1, PutLeaves
  <2>3. o.key \in Keys /\ entries'[o.key] = e /\ keyMeta'[o.key] = o /\ o.key \in Live'
    BY <2>1, OptsFacts, EntryAssumption DEF Put, Live, Stored, EntryAssumption
  <2>4. entries'[o.key].size = size
    BY <2>1, <2>3
  <2>5. ASSUME NEW w \in Orgs, Quota[w] > 0
        PROVE  BytesOf(entries', Of(w)') <= Quota[w]
    <3>1. CASE o.org = w
      BY <1>3, <2>2, <2>3, <2>4, <2>5, <3>1, QuotaFits
    <3>2. CASE o.org # w
      <4>1. \A k \in Keys : k \in Live' /\ keyMeta'[k].org = w => Stayed(k)
        BY <2>2, <2>3, <3>2
      <4> QED
        BY <2>5, <4>1, QuotaStays
    <3> QED
      BY <3>1, <3>2
  <2> QED
    BY <2>5 DEF QuotaKept
<1> QED
  BY <1>1, <1>2, <1>3

LEMMA StepQuota == CacheInv /\ QuotaKept /\ [Next]_vars => QuotaKept'
<1> SUFFICES ASSUME CacheInv, QuotaKept, [Next]_vars
             PROVE  QuotaKept'
  OBVIOUS
<1>0. CacheInv'
  BY StepCache
<1>c. ASSUME UNCHANGED cache PROVE QuotaKept'
  BY <1>0, <1>c, QuotaWhenQuiet DEF cache, Stayed, Live, Stored
<1>r. ASSUME NEW gone, Remove(gone) PROVE QuotaKept'
  BY <1>0, <1>r, QuotaWhenQuiet, RemoveLeaves
<1>d. ASSUME NEW w \in Owners, Drop(w) PROVE QuotaKept'
  BY <1>d, <1>r, DropRemoves
<1>1. ASSUME NEW q \in Queries, NEW o \in CacheOpts, NEW bypass \in BOOLEAN, Ask(q, o, bypass)
      PROVE  QuotaKept'
  BY <1>1, <1>c, <1>r DEF Ask
<1>2. ASSUME NEW q \in Queries, NEW size \in Sizes, Answer(q, size)
      PROVE  QuotaKept'
  <2>1. flight[q] \in CacheOpts
    BY <1>2 DEF Answer, CacheInv, TypeOK
  <2>2. PICK age \in Ages : Store(flight[q], size, age)
    BY <1>2 DEF Answer, Ages
  <2> QED
    BY <1>0, <2>1, <2>2, QuotaStored
<1>3. ASSUME NEW q \in Queries, Fail(q)
      PROVE  QuotaKept'
  BY <1>3, <1>c DEF Fail
<1>4. ASSUME NEW d \in Sources, ReplaceFile(d)
      PROVE  QuotaKept'
  <2>1. ASSUME NEW k \in Keys PROVE Stayed(k)
    <3>1. /\ keyMeta' = keyMeta
          /\ entries'[k] = IF k \in Stored /\ d \in keyMeta[k].sources
                             THEN [entries[k] EXCEPT !.age = "outdated"] ELSE entries[k]
      BY <1>4 DEF ReplaceFile, Switched
    <3>2. k \in Stored => entries[k] \in Entry
      BY DEF CacheInv, TypeOK, Stored
    <3>3. k \notin Stored => entries'[k] = NoEntry
      BY <3>1 DEF Stored
    <3>4. k \in Stored => entries'[k].size = entries[k].size /\ entries'[k].live = entries[k].live
      BY <3>1, <3>2 DEF Entry
    <3> QED
      BY <3>1, <3>3, <3>4 DEF Stayed, Live, Stored
  <2> QED
    BY <1>0, <2>1, QuotaWhenQuiet
<1>5. ASSUME NEW d \in Sources, InvalidateReplaced(d) \/ EditSource(d)
      PROVE  QuotaKept'
  BY <1>5, <1>d DEF InvalidateReplaced, EditSource, Owners
<1>6. ASSUME NEW m \in Models, InvalidateModel(m)
      PROVE  QuotaKept'
  BY <1>6, <1>d DEF InvalidateModel, Owners
<1>7. ASSUME NEW k \in Keys, Expire(k)
      PROVE  QuotaKept'
  <2>1. entries[k] \in Entry
    BY <1>7 DEF Expire, Live, Stored, CacheInv, TypeOK
  <2>2. ~[entries[k] EXCEPT !.live = FALSE].live
    BY <2>1 DEF Entry
  <2>3. /\ keyMeta' = keyMeta
        /\ \A j \in Keys : entries'[j] = IF j = k THEN [entries[k] EXCEPT !.live = FALSE] ELSE entries[j]
    BY <1>7 DEF Expire, CacheInv, TypeOK
  <2>4. \A j \in Keys : Stayed(j)
    BY <2>2, <2>3 DEF Stayed, Live, Stored
  <2> QED
    BY <1>0, <2>4, QuotaWhenQuiet
<1>8. ASSUME NEW k \in Keys, Purge(k)
      PROVE  QuotaKept'
  BY <1>8, <1>r DEF Purge
<1>9. CASE Flush
  BY <1>0, <1>9, QuotaWhenQuiet DEF Flush, Forgotten, Stayed, Live, Stored
<1>10. CASE Configure \/ UNCHANGED vars
  BY <1>10, <1>c DEF Configure, vars, cache
<1> QED
  BY <1>1, <1>2, <1>3, <1>4, <1>5, <1>6, <1>7, <1>8, <1>9, <1>10 DEF Next

LEMMA InitQuota == Init => QuotaKept
<1> SUFFICES ASSUME Init, NEW w \in Orgs, Quota[w] > 0
             PROVE  BytesOf(entries, Of(w)) <= Quota[w]
  BY DEF QuotaKept
<1>1. Of(w) = {}
  BY DEF Init, Of, Live, Stored
<1>2. PICK g : IsSum(g, entries, {}) /\ BytesOf(entries, {}) = g[{}]
  BY FS_EmptySet, BytesAreASum
<1>3. g[{}] = 0
  BY <1>2 DEF IsSum
<1>4. BytesOf(entries, Of(w)) = 0
  BY <1>1, <1>2, <1>3
<1>5. Quota[w] \in Nat
  BY CacheAssumption DEF CacheAssumption
<1> QED
  BY <1>4, <1>5

\* Whatever is stored, replaced, expired or dropped, the entries that answer for
\* an organization take no more than its plan allows (QuotaHolds): the check is
\* made against the index, so this rests on the index being exact.
THEOREM QuotaIsKept == Spec => []QuotaHolds
BY InitQuota, StepQuota, QuotaSaysSo, InitCache, StepCache, PTL DEF Spec

-----------------------------------------------------------------------------
LEMMA Evicted ==
    ASSUME CacheInv, NEW o \in CacheOpts, NEW E \in Evictions(o.key, Swept(o)),
           o.key \notin Live, Cardinality(Live) <= config.max
    PROVE  /\ E \in SUBSET Live
           /\ Cardinality(Live \ E) + 1 <= config.max
<1> DEFINE s == Cardinality(Stored \ Swept(o))
           n == Cardinality(Live)
           over == IF s >= config.max THEN s - config.max + 1 ELSE 0
           reach == IF over <= n THEN over ELSE n
<1>1. E \in SUBSET Live /\ Cardinality(E) = reach
  BY DEF Evictions
<1>2. /\ Live \in SUBSET (Stored \ Swept(o)) /\ IsFiniteSet(Stored \ Swept(o))
      /\ IsFiniteSet(Live)
  BY LiveFacts, FS_Subset DEF Swept
<1>3. n \in Nat /\ s \in Nat /\ n <= s
  BY <1>2, FS_Subset, FS_CardinalityType
<1>4. config.max \in Nat \ {0}
  BY CacheAssumption DEF CacheAssumption, CacheInv, TypeOK
<1>5. Cardinality(Live \ E) = n - reach
  <2>1. IsFiniteSet(E) /\ IsFiniteSet(Live \ E)
    BY <1>1, <1>2, FS_Subset
  <2>2. Cardinality((Live \ E) \cup E) = Cardinality(Live \ E) + Cardinality(E) - Cardinality((Live \ E) \cap E)
    BY <2>1, FS_Union
  <2>3. (Live \ E) \cup E = Live /\ (Live \ E) \cap E = {}
    BY <1>1
  <2>4. Cardinality(Live \ E) \in Nat /\ Cardinality(E) \in Nat /\ Cardinality({}) = 0
    BY <2>1, FS_CardinalityType, FS_EmptySet
  <2>5. n = Cardinality(Live \ E) + Cardinality(E) - Cardinality({})
    BY <2>2, <2>3
  <2>6. Cardinality(E) = reach
    BY <1>1
  <2> HIDE DEF n, reach
  <2> QED
    BY <1>3, <2>4, <2>5, <2>6
<1>6. n <= config.max
  OBVIOUS
<1> HIDE DEF n, s
<1>7. n - reach + 1 <= config.max
  BY <1>3, <1>4, <1>6
<1> QED
  BY <1>1, <1>5, <1>7

LEMMA CapStays ==
    ASSUME CacheInv, CacheInv', NEW q \in Queries, NEW size \in Sizes, Answer(q, size),
           Cardinality(Live) <= config.max
    PROVE  Cardinality(Live') <= config.max
<1> DEFINE o == flight[q]
<1>1. o \in CacheOpts
  BY DEF Answer, CacheInv, TypeOK
<1>2. PICK age \in Ages : Store(o, size, age)
  BY DEF Answer, Ages
<1>3. IsFiniteSet(Live) /\ IsFiniteSet(Live') /\ Live \in SUBSET Keys /\ Live' \in SUBSET Keys
  BY LiveFacts, LiveFactsNext
<1>4. config.max \in Nat \ {0} /\ Cardinality(Live) \in Nat
  BY <1>3, CacheAssumption, FS_CardinalityType DEF CacheAssumption, CacheInv, TypeOK
<1> HIDE DEF o
<1>5. ASSUME NEW L \in SUBSET Live, Live' = L PROVE Cardinality(Live') <= config.max
  <2>1. Cardinality(L) <= Cardinality(Live) /\ Cardinality(L) \in Nat
    BY <1>3, FS_Subset, FS_CardinalityType
  <2> QED
    BY <1>4, <1>5, <2>1
<1>6. CASE ~config.enabled \/ ~config.ttl
  <2>1. Live' = Live
    BY <1>2, <1>6 DEF Store, cache, Live, Stored
  <2> QED
    BY <1>5, <2>1
<1>7. CASE ~(~config.enabled \/ ~config.ttl) /\ ~Fits(o, size)
  <2>1. \A k \in Keys : Stayed(k)
    BY <1>2, <1>7, RemoveLeaves DEF Store
  <2>2. Live' \in SUBSET Live
    BY <1>3, <2>1 DEF Stayed
  <2> QED
    BY <1>5, <2>2
<1>8. CASE ~(~config.enabled \/ ~config.ttl) /\ Fits(o, size)
  <2>1. PICK E \in Evictions(o.key, Swept(o)), e \in Entry :
          Put(o, e, Swept(o) \cup E \cup ({o.key} \cap Stored))
    BY <1>2, <1>8 DEF Store, Entry
  <2> DEFINE gone == Swept(o) \cup E \cup ({o.key} \cap Stored)
  <2>2. \A k \in Keys \ {o.key} : k \in Live' <=> k \in Live \ gone
    BY <1>1, <2>1, PutLeaves
  <2>3. CASE o.key \in Live
    <3>1. Live' \in SUBSET Live
      BY <1>3, <2>2, <2>3
    <3> QED
      BY <1>5, <3>1
  <2>4. CASE o.key \notin Live
    <3>1. E \in SUBSET Live /\ Cardinality(Live \ E) + 1 <= config.max
      BY <1>1, <2>1, <2>4, Evicted
    <3>2. Live' \in SUBSET ((Live \ E) \cup {o.key})
      BY <1>3, <2>2
    <3>3. IsFiniteSet(Live \ E) /\ Cardinality(Live \ E) \in Nat
      BY <1>3, FS_Subset, FS_CardinalityType
    <3>4. IsFiniteSet((Live \ E) \cup {o.key}) /\ o.key \notin Live \ E
      BY <2>4, <3>3, FS_AddElement
    <3>5. Cardinality((Live \ E) \cup {o.key}) = Cardinality(Live \ E) + 1
      BY <3>3, <3>4, FS_AddElement
    <3>6. Cardinality(Live') <= Cardinality((Live \ E) \cup {o.key}) /\ Cardinality(Live') \in Nat
      BY <1>3, <3>2, <3>4, FS_Subset, FS_CardinalityType
    <3> QED
      BY <1>4, <3>1, <3>3, <3>5, <3>6
  <2> QED
    BY <2>3, <2>4
<1> QED
  BY <1>6, <1>7, <1>8

\* A stored answer never leaves more entries answering than the admin's cap, the
\* expired ones not yet removed notwithstanding (CapHolds).
THEOREM CapIsKept == Spec => CapHolds
<1>1. CacheInv /\ CacheInv' => \A q \in Queries : \A size \in Sizes :
        Answer(q, size) /\ Cardinality(Live) <= config.max => Cardinality(Live') <= config.max
  BY CapStays
<1> QED
  BY <1>1, InitCache, StepCache, PTL DEF Spec, CapHolds

-----------------------------------------------------------------------------
(* The cache implements ScanCache. *)

\* What the mapping makes of entries and meta.
Shown == [k \in Keys |-> Found(k)]

LEMMA FoundFacts == CacheInv =>
    \A k \in Keys : /\ k \in Live => /\ Found(k) = [opts |-> keyMeta[k], size |-> entries[k].size,
                                                    age |-> entries[k].age]
                                     /\ keyMeta[k] \in CacheOpts /\ keyMeta[k] # NoOpts
                    /\ k \notin Live => Found(k) = Scan!Nothing
<1> SUFFICES ASSUME CacheInv, NEW k \in Keys
             PROVE  /\ k \in Live => /\ Found(k) = [opts |-> keyMeta[k], size |-> entries[k].size,
                                                    age |-> entries[k].age]
                                     /\ keyMeta[k] \in CacheOpts /\ keyMeta[k] # NoOpts
                    /\ k \notin Live => Found(k) = Scan!Nothing
  OBVIOUS
<1>1. k \in Live <=> entries[k] # NoEntry /\ entries[k].live
  BY DEF Live, Stored
<1>2. k \in Live => keyMeta[k] \in CacheOpts /\ keyMeta[k] # NoOpts
  BY <1>1 DEF CacheInv, TypeOK
<1>3. k \in Live => Found(k) = [opts |-> keyMeta[k], size |-> entries[k].size, age |-> entries[k].age]
  BY <1>1 DEF Found
<1>4. k \notin Live => Found(k) = Scan!Nothing
  BY <1>1 DEF Found, Scan!Nothing
<1> QED
  BY <1>2, <1>3, <1>4

\* A lookup finds what answers.
LEMMA HeldIsLive == CacheInv => Scan!Held = Live
<1> SUFFICES ASSUME CacheInv PROVE Scan!Held = Live
  OBVIOUS
<1>1. Scan!Held = {k \in Keys : Found(k).opts # NoOpts}
  BY DEF Scan!Held
<1>2. ASSUME NEW k \in Keys PROVE Found(k).opts # NoOpts <=> k \in Live
  BY FoundFacts DEF Scan!Nothing
<1>3. Live \in SUBSET Keys
  BY DEF Live, Stored
<1> QED
  BY <1>1, <1>2, <1>3

LEMMA FoundStays ==
    ASSUME NEW k \in Keys, entries'[k] = entries[k], keyMeta'[k] = keyMeta[k]
    PROVE  Found(k)' = Found(k)
BY DEF Found

LEMMA FoundNone ==
    ASSUME NEW k \in Keys, entries'[k] = NoEntry
    PROVE  Found(k)' = Scan!Nothing
BY DEF Found, Scan!Nothing

\* What does not answer can go unseen.
LEMMA MapRemove ==
    ASSUME CacheInv, NEW gone \in SUBSET Keys, Remove(gone), NEW seen, seen = gone \cap Live
    PROVE  Scan!Lose(seen)
<1>1. ASSUME NEW k \in Keys
      PROVE  Found(k)' = IF k \in seen THEN Scan!Nothing ELSE Found(k)
  <2>1. CASE k \in gone
    <3>1. Found(k)' = Scan!Nothing
      BY <2>1, FoundNone DEF Remove, Forgotten
    <3>2. k \notin Live => Found(k) = Scan!Nothing
      BY FoundFacts
    <3> QED
      BY <2>1, <3>1, <3>2
  <2>2. CASE k \notin gone
    BY <2>2, FoundStays DEF Remove, Forgotten
  <2> QED
    BY <2>1, <2>2
<1> QED
  BY <1>1 DEF Scan!Lose

LEMMA MapUnseen ==
    ASSUME CacheInv, NEW gone \in SUBSET Keys, Remove(gone), gone \cap Live = {}
    PROVE  Shown' = Shown
<1>1. Scan!Lose({})
  BY MapRemove
<1> QED
  BY <1>1 DEF Scan!Lose, Shown

LEMMA MapKept == ASSUME UNCHANGED cache PROVE Shown' = Shown
BY FoundStays DEF cache, Shown

\* A drop takes what a scan for the source, or for the model, finds.
LEMMA MapDrop ==
    ASSUME CacheInv, NEW w \in Owners, Drop(w)
    PROVE  Scan!Lose({k \in Live : w \in Tags(keyMeta[k])})
<1>1. /\ index[w] \in SUBSET Keys /\ Remove(index[w])
      /\ index[w] = {k \in Stored : w \in Tags(keyMeta[k])}
  BY DropRemoves
<1>2. {k \in Live : w \in Tags(keyMeta[k])} = index[w] \cap Live
  BY <1>1 DEF Live
<1> QED
  BY <1>1, <1>2, MapRemove

LEMMA SourceTags ==
    ASSUME CacheInv, NEW d \in Sources
    PROVE  Scan!Reading(d) = {k \in Live : d \in Tags(keyMeta[k])}
<1>1. Scan!Reading(d) = {k \in Live : d \in Found(k).opts.sources}
  BY HeldIsLive DEF Scan!Reading, Live, Stored
<1>2. ASSUME NEW k \in Live PROVE d \in Found(k).opts.sources <=> d \in Tags(keyMeta[k])
  <2>1. k \in Keys
    BY DEF Live, Stored
  <2>2. Found(k).opts = keyMeta[k] /\ keyMeta[k] \in CacheOpts
    BY <2>1, FoundFacts
  <2>3. keyMeta[k].model \in Models
    BY <2>2, CacheAssumption DEF CacheAssumption, Opts
  <2> QED
    BY <2>2, <2>3, CacheAssumption DEF CacheAssumption, Tags
<1> QED
  BY <1>1, <1>2

LEMMA ModelTags ==
    ASSUME CacheInv, NEW m \in Models
    PROVE  {k \in Scan!Held : Shown[k].opts.model = m} = {k \in Live : m \in Tags(keyMeta[k])}
<1>1. ASSUME NEW k \in Live PROVE Shown[k].opts.model = m <=> m \in Tags(keyMeta[k])
  <2>1. k \in Keys
    BY DEF Live, Stored
  <2>2. Shown[k].opts = keyMeta[k] /\ keyMeta[k] \in CacheOpts
    BY <2>1, FoundFacts DEF Shown
  <2>3. keyMeta[k].sources \subseteq Sources
    BY <2>2, OptsFacts
  <2> QED
    BY <2>2, <2>3, CacheAssumption DEF CacheAssumption, Tags
<1> QED
  BY <1>1, HeldIsLive

LEMMA BytesAgree ==
    ASSUME NEW K, IsFiniteSet(K), NEW ent, NEW ent2, \A k \in K : ent[k].size = ent2[k].size
    PROVE  BytesOf(ent, K) = BytesOf(ent2, K)
<1>1. PICK g : IsSum(g, ent, K) /\ BytesOf(ent, K) = g[K]
  BY BytesAreASum
<1>2. PICK h : IsSum(h, ent2, K) /\ BytesOf(ent2, K) = h[K]
  BY BytesAreASum
<1>3. K \in SUBSET K
  OBVIOUS
<1>4. g[K] = h[K]
  BY <1>1, <1>2, <1>3, SumsAgree
<1> QED
  BY <1>1, <1>2, <1>4

\* The sum over the organization's index is that of a scan.
LEMMA SpentIsListed ==
    ASSUME CacheInv, NEW w \in Orgs
    PROVE  Scan!Spent(w) = Bytes(index[w] \cap Live)
<1> DEFINE K == index[w] \cap Live
<1>1. Scan!HeldFor(w) = K
  <2>1. Scan!HeldFor(w) = {k \in Live : Found(k).opts.org = w}
    BY HeldIsLive DEF Scan!HeldFor, Live, Stored
  <2>2. ASSUME NEW k \in Live PROVE Found(k).opts.org = w <=> k \in index[w]
    <3>1. k \in Keys /\ k \in Stored /\ w \in Owners
      BY DEF Live, Stored, Owners
    <3>2. Found(k).opts = keyMeta[k] /\ keyMeta[k] \in CacheOpts
      BY <3>1, FoundFacts
    <3>3. k \in index[w] <=> w \in Tags(keyMeta[k])
      BY <3>1 DEF CacheInv, IndexesExact
    <3>4. keyMeta[k].model \in Models /\ keyMeta[k].sources \subseteq Sources
      BY <3>2, CacheAssumption DEF CacheAssumption, Opts
    <3>5. w \in Tags(keyMeta[k]) <=> keyMeta[k].org = w
      BY <3>4, CacheAssumption DEF CacheAssumption, Tags
    <3> QED
      BY <3>2, <3>3, <3>5
  <2> QED
    BY <2>1, <2>2
<1>2. IsFiniteSet(K)
  BY LiveFacts, FS_Subset
<1>3. \A k \in K : Shown[k].size = entries[k].size
  BY FoundFacts, LiveFacts DEF Shown
<1>4. Bytes(K) = BytesOf(entries, K)
  BY DEF Bytes, BytesOf
<1>5. Scan!Spent(w) = BytesOf(Shown, Scan!HeldFor(w))
  BY DEF Scan!Spent, BytesOf, Shown, Scan!MapThenSumSet, Scan!MapThenFoldSet, MapThenSumSet, MapThenFoldSet
<1>6. BytesOf(entries, K) = BytesOf(Shown, K)
  <2> HIDE DEF K, Shown
  <2> QED
    BY <1>2, <1>3, BytesAgree
<1> QED
  BY <1>1, <1>4, <1>5, <1>6

\* A result that is stored fits, keeps the cap, and leaves the rest but what
\* it replaces or evicts.
LEMMA MapPut ==
    ASSUME CacheInv, CacheInv', NEW o \in CacheOpts, NEW size \in Sizes, NEW age \in Ages,
           NEW E \in Evictions(o.key, Swept(o)), config' = config,
           Put(o, [size |-> size, age |-> age, live |-> TRUE],
               Swept(o) \cup E \cup ({o.key} \cap Stored)),
           Cardinality(Live) <= config.max => Cardinality(Live') <= config.max
    PROVE  Scan!Keep(o, size, age)
<1> DEFINE e == [size |-> size, age |-> age, live |-> TRUE]
           gone == Swept(o) \cup E \cup ({o.key} \cap Stored)
           lost == E \ {o.key}
           new == [opts |-> o, size |-> size, age |-> age]
<1>1. /\ entries' = [k \in Keys |-> IF k = o.key THEN e ELSE IF k \in gone THEN NoEntry ELSE entries[k]]
      /\ keyMeta' = [k \in Keys |-> IF k = o.key THEN o ELSE IF k \in gone THEN NoOpts ELSE keyMeta[k]]
  BY DEF Put
<1>2. o.key \in Keys
  BY OptsFacts
<1>3. E \in SUBSET Live /\ (o.key \in Live => E = {})
  BY DEF Evictions
<1>4. Found(o.key)' = new
  <2>1. e \in Entry /\ e.live /\ e.size = size /\ e.age = age
    BY DEF Entry
  <2>2. entries'[o.key] = e /\ keyMeta'[o.key] = o /\ e # NoEntry
    BY <1>1, <1>2, <2>1, EntryAssumption DEF EntryAssumption
  <2> HIDE DEF e
  <2> QED
    BY <2>1, <2>2 DEF Found
<1>5. ASSUME NEW k \in Keys, k # o.key
      PROVE  Found(k)' = IF k \in lost THEN Scan!Nothing ELSE Found(k)
  <2>1. CASE k \in E
    <3>1. entries'[k] = NoEntry
      BY <1>1, <1>5, <2>1
    <3> QED
      BY <1>5, <2>1, <3>1, FoundNone
  <2>2. CASE k \in gone \ E
    <3>1. entries'[k] = NoEntry
      BY <1>1, <1>5, <2>2
    <3>2. k \notin Live
      BY <1>5, <2>2 DEF Swept
    <3> QED
      BY <2>2, <3>1, <3>2, FoundNone, FoundFacts
  <2>3. CASE k \notin gone
    <3>1. entries'[k] = entries[k] /\ keyMeta'[k] = keyMeta[k]
      BY <1>1, <1>5, <2>3
    <3> QED
      BY <2>3, <3>1, FoundStays
  <2> QED
    BY <2>1, <2>2, <2>3
<1>6. Shown' = [k \in Keys |-> IF k = o.key THEN new
                               ELSE IF k \in lost THEN Scan!Nothing ELSE Shown[k]]
  BY <1>4, <1>5 DEF Shown
<1>7. Scan!Held = Live /\ Scan!Held' = Live'
  <2>1. (CacheInv => Scan!Held = Live)'
    BY HeldIsLive, PTL
  <2> QED
    BY <2>1, HeldIsLive
<1>8. lost \in SUBSET (Scan!Held \ {o.key}) /\ (o.key \in Scan!Held => lost = {})
  BY <1>3, <1>7
<1>9. Scan!Cardinality(Scan!Held) <= config.max => Scan!Cardinality(Scan!Held') <= config.max
  BY <1>7 DEF Scan!Cardinality, Cardinality
<1> HIDE DEF e, gone, lost
<1> QED
  BY <1>6, <1>7, <1>8, <1>9 DEF Scan!Keep, Shown

LEMMA MapAnswer ==
    ASSUME CacheInv, CacheInv', NEW q \in Queries, NEW size \in Sizes, Answer(q, size)
    PROVE  Scan!Answer(q) \/ Scan!Leave(q)
<1> DEFINE o == flight[q]
<1>1. o # NoOpts /\ o \in CacheOpts
  BY DEF Answer, CacheInv, TypeOK
<1>2. Scan!Over(q) /\ config' = config
  BY DEF Answer, Scan!Over
<1>3. PICK age \in IF q \in late THEN {"current", "late"} ELSE {"current"} : Store(o, size, age)
  BY DEF Answer
<1>4. age \in Ages
  BY <1>3 DEF Ages
<1>5. Cardinality(Live) <= config.max => Cardinality(Live') <= config.max
  BY CapStays
<1>6. CASE ~config.enabled \/ ~config.ttl
  <2>1. Shown' = Shown
    BY <1>3, <1>6, MapKept DEF Store
  <2> QED
    BY <1>2, <2>1 DEF Scan!Leave, Shown
<1>7. CASE ~(~config.enabled \/ ~config.ttl) /\ ~Fits(o, size)
  <2>1. Remove(Swept(o)) /\ Swept(o) \in SUBSET Keys /\ Swept(o) \cap Live = {}
    BY <1>3, <1>7 DEF Store, Swept, Stored
  <2>2. Shown' = Shown
    BY <2>1, MapUnseen
  <2> QED
    BY <1>2, <2>2 DEF Scan!Leave, Shown
<1>8. CASE ~(~config.enabled \/ ~config.ttl) /\ Fits(o, size)
  <2>1. PICK E \in Evictions(o.key, Swept(o)) :
          Put(o, [size |-> size, age |-> age, live |-> TRUE],
              Swept(o) \cup E \cup ({o.key} \cap Stored))
    BY <1>3, <1>8 DEF Store
  <2> HIDE DEF o
  <2>2. Scan!Keep(o, size, age)
    BY <1>1, <1>2, <1>4, <1>5, <2>1, MapPut
  <2>3. Scan!RoomFor(o, size)
    BY <1>8, SpentIsListed DEF Scan!RoomFor, Fits, HasQuota
  <2> QED
    BY <1>2, <1>3, <1>8, <2>2, <2>3 DEF Scan!Answer, o
<1> QED
  BY <1>6, <1>7, <1>8

LEMMA MapReplace ==
    ASSUME CacheInv, CacheInv', NEW d \in Sources, ReplaceFile(d)
    PROVE  Scan!ReplaceFile(d)
<1>1. /\ d \notin switching /\ switching' = switching \cup {d}
      /\ late' = Scan!Overtaken(d)
      /\ UNCHANGED <<config, flight>>
  BY DEF ReplaceFile, Switched, Scan!Overtaken
<1>2. /\ keyMeta' = keyMeta
      /\ \A k \in Keys : entries'[k] = IF k \in Stored /\ d \in keyMeta[k].sources
                                         THEN [entries[k] EXCEPT !.age = "outdated"] ELSE entries[k]
  BY DEF ReplaceFile, Switched
<1>3. ASSUME NEW k \in Keys
      PROVE  Found(k)' = IF k \in Scan!Reading(d) THEN [Found(k) EXCEPT !.age = "outdated"] ELSE Found(k)
  <2>1. k \in Scan!Reading(d) <=> k \in Live /\ d \in keyMeta[k].sources
    <3>1. Scan!Reading(d) = {j \in Live : d \in Found(j).opts.sources}
      BY HeldIsLive DEF Scan!Reading, Live, Stored
    <3>2. k \in Live => Found(k).opts = keyMeta[k]
      BY FoundFacts
    <3> QED
      BY <3>1, <3>2
  <2>2. CASE k \in Stored /\ d \in keyMeta[k].sources
    <3> DEFINE e == [entries[k] EXCEPT !.age = "outdated"]
    <3>1. entries[k] \in Entry /\ entries'[k] = e
      BY <1>2, <2>2 DEF CacheInv, TypeOK, Stored
    <3>2. /\ e \in Entry /\ e.age = "outdated"
          /\ e.size = entries[k].size /\ e.live = entries[k].live
      BY <3>1 DEF Entry, Ages
    <3>3. e # NoEntry
      BY <3>2, EntryAssumption DEF EntryAssumption
    <3> HIDE DEF e
    <3>4. CASE k \in Live
      <4>1. Found(k)' = [opts |-> keyMeta[k], size |-> entries[k].size, age |-> "outdated"]
        BY <1>2, <3>1, <3>2, <3>3, <3>4 DEF Found, Live
      <4>2. Found(k) = [opts |-> keyMeta[k], size |-> entries[k].size, age |-> entries[k].age]
        BY <3>4, FoundFacts
      <4> QED
        BY <2>1, <2>2, <3>4, <4>1, <4>2
    <3>5. CASE k \notin Live
      <4>1. ~entries[k].live
        BY <2>2, <3>5 DEF Live
      <4>2. Found(k)' = Scan!Nothing
        BY <3>1, <3>2, <4>1 DEF Found, Scan!Nothing
      <4> QED
        BY <2>1, <3>5, <4>2, FoundFacts
    <3> QED
      BY <3>4, <3>5
  <2>3. CASE ~(k \in Stored /\ d \in keyMeta[k].sources)
    <3>1. entries'[k] = entries[k] /\ keyMeta'[k] = keyMeta[k] /\ k \notin Scan!Reading(d)
      BY <1>2, <2>1, <2>3 DEF Live
    <3> QED
      BY <3>1, FoundStays
  <2> QED
    BY <2>2, <2>3
<1> QED
  BY <1>1, <1>3 DEF Scan!ReplaceFile

LEMMA MapExpire ==
    ASSUME CacheInv, NEW k \in Keys, Expire(k)
    PROVE  Scan!Expire(k)
<1>1. k \in Live /\ Scan!Aside
  BY DEF Expire, route, Scan!Aside
<1>2. /\ keyMeta' = keyMeta
      /\ \A j \in Keys : entries'[j] = IF j = k THEN [entries[k] EXCEPT !.live = FALSE] ELSE entries[j]
  BY DEF Expire, CacheInv, TypeOK
<1>3. entries[k] \in Entry
  BY <1>1 DEF Live, Stored, CacheInv, TypeOK
<1>4. ~[entries[k] EXCEPT !.live = FALSE].live
  BY <1>3 DEF Entry
<1>5. ASSUME NEW j \in Keys
      PROVE  Found(j)' = IF j \in {k} THEN Scan!Nothing ELSE Found(j)
  <2>1. CASE j = k
    BY <1>2, <1>4, <2>1 DEF Found, Scan!Nothing
  <2>2. CASE j # k
    BY <1>2, <2>2, FoundStays
  <2> QED
    BY <2>1, <2>2
<1>6. k \in Scan!Held
  BY <1>1, HeldIsLive
<1> QED
  BY <1>1, <1>5, <1>6 DEF Scan!Expire, Scan!Lose

LEMMA MapInit == Init => Scan!Init
<1> SUFFICES ASSUME Init PROVE Scan!Init
  OBVIOUS
<1>1. \A k \in Keys : Found(k) = Scan!Nothing
  BY DEF Init, Found, Scan!Nothing
<1> QED
  BY <1>1 DEF Init, Scan!Init, Scan!Configs

LEMMA MapStep == CacheInv /\ CacheInv' /\ [Next]_vars => [Scan!Next]_(Scan!vars)
<1> SUFFICES ASSUME CacheInv, CacheInv', [Next]_vars
             PROVE  [Scan!Next]_(Scan!vars)
  OBVIOUS
<1>1. ASSUME NEW q \in Queries, NEW o \in CacheOpts, NEW bypass \in BOOLEAN, Ask(q, o, bypass)
      PROVE  Scan!Next
  <2>1. Shown' = Shown
    <3>1. CASE bypass \/ ~config.enabled
      BY <1>1, <3>1, MapKept DEF Ask
    <3>2. CASE ~(bypass \/ ~config.enabled)
      <4>1. Remove({o.key} \cap Stored) /\ o.key \notin Live
        BY <1>1, <3>2 DEF Ask
      <4>2. {o.key} \cap Stored \in SUBSET Keys /\ ({o.key} \cap Stored) \cap Live = {}
        BY <4>1 DEF Stored
      <4> QED
        BY <4>1, <4>2, MapUnseen
    <3> QED
      BY <3>1, <3>2
  <2>2. Scan!Ask(q, o)
    BY <1>1, <2>1 DEF Ask, Scan!Ask, Shown
  <2> QED
    BY <2>2 DEF Scan!Next
<1>2. ASSUME NEW q \in Queries, NEW size \in Sizes, Answer(q, size)
      PROVE  Scan!Next
  BY <1>2, MapAnswer DEF Scan!Next
<1>3. ASSUME NEW q \in Queries, Fail(q)
      PROVE  Scan!Next
  <2>1. Shown' = Shown
    BY <1>3, MapKept DEF Fail
  <2>2. Scan!Leave(q)
    BY <1>3, <2>1 DEF Fail, Scan!Leave, Scan!Over, Shown
  <2> QED
    BY <2>2 DEF Scan!Next
<1>4. ASSUME NEW d \in Sources, ReplaceFile(d)
      PROVE  Scan!Next
  BY <1>4, MapReplace DEF Scan!Next
<1>5. ASSUME NEW d \in Sources, Drop(d)
      PROVE  Scan!Lose(Scan!Reading(d))
  <2>1. d \in Owners
    BY DEF Owners
  <2>2. Scan!Reading(d) = {k \in Live : d \in Tags(keyMeta[k])}
    BY SourceTags
  <2>3. Scan!Lose({k \in Live : d \in Tags(keyMeta[k])})
    BY <1>5, <2>1, MapDrop
  <2> QED
    BY <2>2, <2>3 DEF Scan!Lose
<1>6. ASSUME NEW d \in Sources, InvalidateReplaced(d)
      PROVE  Scan!Next
  <2>1. Scan!InvalidateReplaced(d)
    BY <1>5, <1>6 DEF InvalidateReplaced, Scan!InvalidateReplaced, route
  <2> QED
    BY <2>1 DEF Scan!Next
<1>7. ASSUME NEW d \in Sources, EditSource(d)
      PROVE  Scan!Next
  <2>1. Scan!EditSource(d)
    BY <1>5, <1>7 DEF EditSource, Scan!EditSource, Scan!Overtaken
  <2> QED
    BY <2>1 DEF Scan!Next
<1>8. ASSUME NEW m \in Models, InvalidateModel(m)
      PROVE  Scan!Next
  <2>1. Scan!Lose({k \in Live : m \in Tags(keyMeta[k])})
    BY <1>8, MapDrop DEF InvalidateModel, Owners
  <2>2. Scan!InvalidateModel(m)
    BY <1>8, <2>1, ModelTags DEF InvalidateModel, Scan!InvalidateModel, Scan!Aside, Shown, route
  <2> QED
    BY <2>2 DEF Scan!Next
<1>9. ASSUME NEW k \in Keys, Expire(k)
      PROVE  Scan!Next
  BY <1>9, MapExpire DEF Scan!Next
<1>10. ASSUME NEW k \in Keys, Purge(k)
       PROVE  UNCHANGED Scan!vars
  <2>1. Remove({k}) /\ {k} \cap Live = {}
    BY <1>10 DEF Purge
  <2>2. Shown' = Shown
    BY <2>1, MapUnseen
  <2> QED
    BY <1>10, <2>2 DEF Purge, Scan!vars, Shown, route
<1>11. CASE Flush
  <2>1. \A k \in Keys : Found(k)' = Scan!Nothing
    BY <1>11, FoundNone DEF Flush, Forgotten, Stored
  <2>2. Scan!Flush
    BY <1>11, <2>1 DEF Flush, Scan!Flush, Scan!Aside, Scan!Lose, route
  <2> QED
    BY <2>2 DEF Scan!Next
<1>12. CASE Configure
  <2>1. Shown' = Shown
    BY <1>12, MapKept DEF Configure
  <2>2. Scan!Configure
    BY <1>12, <2>1 DEF Configure, Scan!Configure, Scan!Configs, Shown, route
  <2> QED
    BY <2>2 DEF Scan!Next
<1>13. CASE UNCHANGED vars
  <2>1. Shown' = Shown
    BY <1>13, MapKept DEF vars, cache
  <2> QED
    BY <1>13, <2>1 DEF vars, Scan!vars, Shown
<1> QED
  BY <1>1, <1>2, <1>3, <1>4, <1>6, <1>7, <1>8, <1>9, <1>10, <1>11, <1>12, <1>13 DEF Next

\* The cache with its three indexes, its dispose hook and its expired entries
\* does nothing a plain set of results searched from end to end would not do
\* (ImplementsScan): quotas, cap and invalidations included.
THEOREM Implementation == Spec => ImplementsScan
BY MapInit, MapStep, InitCache, StepCache, PTL DEF Spec, ImplementsScan, Scan!Spec
=============================================================================
