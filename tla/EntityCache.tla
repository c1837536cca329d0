----------------------------- MODULE EntityCache -----------------------------
(***************************************************************************)
(* EntityCache of graph/src/components/store.rs: what the handlers of one  *)
(* block read and write, between the store and the LFU cache that survives *)
(* from block to block.  The handlers' operations come in any order; at    *)
(* the end of the block as_modifications turns the accumulated updates     *)
(* into one modification per entity, process_block (core/src/subgraph/     *)
(* instance_manager.rs) writes them and evicts from the cache.             *)
(***************************************************************************)
EXTENDS LfuCache

CONSTANTS
    EntityKeys,
    Fields,
    Values,
    Null,          \* Value::Null
    Absent,        \* None: the entity does not exist, or is to be deleted
    CacheSize,     \* ENTITY_CACHE_SIZE
    MaxOps         \* bound on the operations of one block

TypenameField == "__typename"

\* No entity is mistaken for None, no value for null, and the weights of all
\* entities together fit in a usize.
ASSUME CacheAssumption ==
    /\ IsFiniteSet(EntityKeys) /\ IsFiniteSet(Fields)
    /\ TypenameField \notin Fields
    /\ Null \notin Values \cup {"type"}
    /\ \A fs \in SUBSET (Fields \cup {TypenameField}) :
          Absent \notin [fs -> Values \cup {Null, "type"}]
    /\ Cardinality(EntityKeys) * (Cardinality(Fields) + 2) < Word
    /\ CacheSize \in Nat /\ MaxOps \in Nat

VARIABLES
    stored,    \* the entities in the store
    current,   \* the LfuCache of entities as they are in the store
    updates,   \* the accumulated changes, by key
    view,      \* ghost: the entities as the handlers have left them
    ops,       \* how many operations this block has performed
    derived,   \* ghost: whether ipfs.map extended the cache
    mods,      \* the modifications of the block that just ended
    panicked   \* whether evict ran out of entries

cacheVars == <<stored, current, updates, view, ops, derived, mods, panicked>>

Entities == UNION {[fs -> Values] : fs \in SUBSET Fields}
Changes == UNION {[fs -> Values \cup {Null}] : fs \in SUBSET Fields \ {{}}}

------------------------------------------------------------------------------
(***************************************************************************)
(* Entities                                                                *)
(***************************************************************************)

Merge(entity, update) ==
    [f \in DOMAIN entity \cup DOMAIN update |->
        IF f \in DOMAIN update THEN update[f] ELSE entity[f]]

MergeRemoveNullFields(entity, update) ==
    LET merged == Merge(entity, update)
    IN  Restrict(merged, {f \in DOMAIN merged :
            f \notin DOMAIN update \/ update[f] # Null})

WithTypename(entity) ==
    [f \in DOMAIN entity \cup {TypenameField} |->
        IF f = TypenameField THEN "type" ELSE entity[f]]

WithoutTypename(entity) == Restrict(entity, DOMAIN entity \ {TypenameField})

\* CacheEntry::weight: the entry itself and its fields.
Weigh(value) == IF value = Absent THEN 1 ELSE 1 + Cardinality(DOMAIN value)

\* The queue entry of an entity that is inserted.
NewEntry(value) == Entry(value, Weigh(value), 1)

\* get_entity: from the cache or else from the store, without __typename.
GetEntity(cache, key) ==
    IF ContainsKey(cache, key)
    THEN [cache |-> Touch(cache, key), entity |-> cache.entries[key].value]
    ELSE [cache |-> LfuInsert(cache, key, stored[key], Weigh(stored[key])),
          entity |-> stored[key]]

------------------------------------------------------------------------------
(***************************************************************************)
(* EntityCache                                                             *)
(***************************************************************************)

\* get: the current entity with the updates of this block merged into it.
Get(cache, upd, key) ==
    LET now == GetEntity(cache, key).entity
    IN  CASE key \notin DOMAIN upd -> now
          [] key \in DOMAIN upd /\ upd[key] = Absent -> Absent
          [] key \in DOMAIN upd /\ upd[key] # Absent /\ now = Absent -> upd[key]
          [] OTHER -> MergeRemoveNullFields(now, upd[key])

WithUpdate(upd, key, change) ==
    [k \in DOMAIN upd \cup {key} |-> IF k = key THEN change ELSE upd[k]]

\* set: merged into an earlier change of the block; after a removal the
\* fields of the entity in the store that are not set are unset.
SetEntity(cache, upd, key, change) ==
    IF key \notin DOMAIN upd
    THEN [cache |-> cache, updates |-> WithUpdate(upd, key, change)]
    ELSE IF upd[key] # Absent
    THEN [cache |-> cache, updates |-> WithUpdate(upd, key, Merge(upd[key], change))]
    ELSE LET got == GetEntity(cache, key)
             old == IF got.entity = Absent THEN {} ELSE DOMAIN got.entity
         IN  [cache |-> got.cache,
              updates |-> WithUpdate(upd, key,
                  Merge([f \in old |-> Null], change))]

\* The entities that are to be changed and are not in the cache are loaded
\* with get_many, __typename included.
LoadMissing(cache, upd) ==
    LET missing == {k \in DOMAIN upd : ~ContainsKey(cache, k) /\ stored[k] # Absent}
    IN  LfuInsertAll(cache, [k \in missing |-> NewEntry(WithTypename(stored[k]))])

\* What becomes of one entity: the modification, if any is needed.
Modification(now, update) ==
    CASE now = Absent /\ update # Absent ->
            [op |-> "Insert", data |-> MergeRemoveNullFields(<<>>, update)]
      [] now # Absent /\ update # Absent ->
            LET data == MergeRemoveNullFields(now, update)
            IN  [op |-> IF data = now THEN "None" ELSE "Overwrite", data |-> data]
      [] now # Absent /\ update = Absent -> [op |-> "Remove", data |-> Absent]
      [] now = Absent /\ update = Absent -> [op |-> "None", data |-> Absent]

\* as_modifications: for every update the entity leaves the cache and comes
\* back as it will be in the store, unless it neither was nor will be there.
AsModifications(cache, upd) ==
    LET loaded == LoadMissing(cache, upd)
        now(k) == IF ContainsKey(loaded, k) THEN loaded.entries[k].value ELSE Absent
        result == [k \in DOMAIN upd |-> Modification(now(k), upd[k])]
        kept == {k \in DOMAIN upd : now(k) # Absent \/ upd[k] # Absent}
    IN  [modifications |-> Restrict(result, {k \in DOMAIN upd : result[k].op # "None"}),
         cache |-> LfuInsertAll(LfuRemoveAll(loaded, DOMAIN upd),
                                [k \in kept |-> NewEntry(result[k].data)])]

------------------------------------------------------------------------------
(***************************************************************************)
(* A block: the handlers' operations, then the end of the block            *)
(***************************************************************************)

Performs == ops < MaxOps /\ ~panicked /\ ops' = ops + 1 /\ mods' = <<>>

StoreGet(key) ==
    /\ Performs
    /\ current' = GetEntity(current, key).cache
    /\ UNCHANGED <<stored, updates, view, derived, panicked>>

SetView(key, change) ==
    [view EXCEPT ![key] =
        MergeRemoveNullFields(IF @ = Absent THEN <<>> ELSE @, change)]

StoreSet(key, change) ==
    /\ Performs
    /\ LET r == SetEntity(current, updates, key, change)
       IN  current' = r.cache /\ updates' = r.updates
    /\ view' = SetView(key, change)
    /\ UNCHANGED <<stored, derived, panicked>>

StoreRemove(key) ==
    /\ Performs
    /\ updates' = WithUpdate(updates, key, Absent)
    /\ view' = [view EXCEPT ![key] = Absent]
    /\ UNCHANGED <<stored, current, derived, panicked>>

\* ipfs.map: the callback loads and sets an entity in a block state of its
\* own, which then extends this one.
IpfsMap(key, change) ==
    /\ Performs
    /\ LET other == GetEntity(LfuNew, key).cache
           r == SetEntity(LfuExtend(current, other), updates, key, change)
       IN  current' = r.cache /\ updates' = r.updates
    /\ view' = SetView(key, change)
    /\ derived' = TRUE
    /\ UNCHANGED <<stored, panicked>>

\* Faulty variant: nothing is evicted.
KeepAll(cache, max) == {cache}

Evict(cache, max) == LfuEvict(cache, max)

ApplyTo(st, modifications) ==
    [k \in EntityKeys |->
        IF k \in DOMAIN modifications
        THEN IF modifications[k].data = Absent THEN Absent
             ELSE WithoutTypename(modifications[k].data)
        ELSE st[k]]

\* process_block after the last trigger: write the modifications, keep the
\* cache for the next block and evict from it.
EndBlock ==
    /\ ~panicked
    /\ updates # <<>>
    /\ LET r == AsModifications(current, updates)
       IN  /\ mods' = r.modifications
           /\ stored' = ApplyTo(stored, r.modifications)
           /\ \/ \E c \in Evict(r.cache, CacheSize) :
                    current' = c /\ UNCHANGED panicked
              \/ /\ Evict(r.cache, CacheSize) = {}
                 /\ panicked' = TRUE
                 /\ current' = LfuNew
    /\ updates' = <<>>
    /\ ops' = 0
    /\ UNCHANGED <<view, derived>>

\* Faulty variant: a revert leaves the cache as it is.
RevertKeepsCache(key, entity) ==
    /\ ~panicked
    /\ ops = 0
    /\ entity # stored[key]
    /\ stored' = [stored EXCEPT ![key] = entity]
    /\ view' = [view EXCEPT ![key] = entity]
    /\ mods' = <<>>
    /\ UNCHANGED <<current, updates, ops, derived, panicked>>

\* A revert, by which the store changes under the cache: the cache is reset.
RevertResetsCache(key, entity) ==
    /\ ~panicked
    /\ ops = 0
    /\ entity # stored[key]
    /\ stored' = [stored EXCEPT ![key] = entity]
    /\ view' = [view EXCEPT ![key] = entity]
    /\ current' = LfuNew
    /\ mods' = <<>>
    /\ UNCHANGED <<updates, ops, derived, panicked>>

CacheInit ==
    /\ stored = [k \in EntityKeys |-> Absent]
    /\ current = LfuNew
    /\ updates = <<>>
    /\ view = stored
    /\ ops = 0
    /\ derived = FALSE
    /\ mods = <<>>
    /\ panicked = FALSE

CacheNext ==
    \/ \E k \in EntityKeys : StoreGet(k) \/ StoreRemove(k)
    \/ \E k \in EntityKeys, c \in Changes : StoreSet(k, c) \/ IpfsMap(k, c)
    \/ EndBlock
    \/ \E k \in EntityKeys, e \in Entities \cup {Absent} : RevertResetsCache(k, e)

CacheSpec == CacheInit /\ [][CacheNext]_cacheVars

------------------------------------------------------------------------------

\* The store, the cache and the updates have their types.
CacheTypeOK ==
    /\ stored \in [EntityKeys -> Entities \cup {Absent}]
    /\ DOMAIN current.entries \subseteq EntityKeys
    /\ current.total_weight \in 0..(Word - 1)
    /\ DOMAIN updates \subseteq EntityKeys
    /\ \A k \in DOMAIN updates :
          updates[k] = Absent \/ DOMAIN updates[k] \subseteq Fields \cup {TypenameField}
    /\ ops \in 0..MaxOps

\* An entity without the values that a query would not show.
Shown(e) ==
    IF e = Absent THEN Absent
    ELSE Restrict(e, {f \in DOMAIN e \ {TypenameField} : e[f] # Null})

\* A handler reads what earlier handlers of the block, or of earlier blocks,
\* wrote, whether it comes from the cache, the updates or the store.
HandlersSeeWrites ==
    \A k \in EntityKeys : Shown(Get(current, updates, k)) = view[k]

\* Between blocks the store holds what the handlers wrote.
StoreHasWrites == updates = <<>> => stored = view

\* Cached entities are what the store holds.
CacheMatchesStore ==
    \A k \in DOMAIN current.entries : Shown(current.entries[k].value) = stored[k]

\* The cache holds the entity with a __typename.
Tagged(k) ==
    /\ k \in DOMAIN current.entries
    /\ current.entries[k].value # Absent
    /\ TypenameField \in DOMAIN current.entries[k].value

\* A block inserts, overwrites or removes an entity according to what is in
\* the store, and writes it only if that changes it, unless the cache holds
\* the entity with a __typename (as_modifications).
OnlyNeededModifications ==
    [][updates # <<>> /\ updates' = <<>> =>
          \A k \in DOMAIN mods' :
             /\ Tagged(k) \/ stored'[k] # stored[k]
             /\ mods'[k].op = "Insert" <=> stored[k] = Absent
             /\ mods'[k].op = "Remove" <=> stored'[k] = Absent]_cacheVars

\* What the comment on EntityCache promises without that exception: "only
\* entities that will actually be changed from what they are in the store
\* are changed".
OnlyChangedEntitiesWritten ==
    [][updates # <<>> /\ updates' = <<>> =>
          \A k \in DOMAIN mods' : stored'[k] # stored[k]]_cacheVars

\* total_weight is the weight of the entries.  (It is not after extend.)
WeightExact ==
    current.total_weight = WeightOf(current.entries, DOMAIN current.entries)

\* total_weight is the weight of the entries and evict never runs out of
\* entries, as long as ipfs.map did not extend the cache.
WeightExactUnlessExtended == derived \/ (WeightExact /\ ~panicked)

\* After a block the cache is within its limit ("Evict entries in the cache
\* until the total weight of the cache is equal to or smaller than
\* max_weight").
EvictedToLimit ==
    [][updates # <<>> /\ updates' = <<>> =>
          WeightOf(current'.entries, DOMAIN current'.entries) <= CacheSize]_cacheVars

\* The same, as long as ipfs.map did not extend the cache.
EvictedToLimitUnlessExtended ==
    [][~derived' /\ updates # <<>> /\ updates' = <<>> =>
          WeightOf(current'.entries, DOMAIN current'.entries) <= CacheSize]_cacheVars

\* No handler sees __typename ("`__typename` is for queries not for
\* mappings").
NoTypenameInMappings ==
    \A k \in EntityKeys : LET e == Get(current, updates, k)
                          IN  e # Absent => TypenameField \notin DOMAIN e

\* The entity cache cannot be told from the store: handlers read what they wrote,
\* as_modifications passes exactly that on, what is kept for later blocks is what
\* the store has, and the weight eviction goes by is that of the entries.
EntityCacheConsistent ==
    /\ CacheTypeOK /\ HandlersSeeWrites /\ StoreHasWrites
    /\ CacheMatchesStore /\ WeightExactUnlessExtended

\* A block ends with the modifications that are needed and no more, and with a
\* cache that is within its limit, unless ipfs.map has extended it.
BlocksEndLean == OnlyNeededModifications /\ EvictedToLimitUnlessExtended
==============================================================================
