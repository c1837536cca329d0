--------------------------- MODULE EntityVersions ---------------------------
(***************************************************************************)
(* Relational entity storage (store/postgres/src/relational.rs and         *)
(* relational_queries.rs): every version of an entity is a row with the    *)
(* range of blocks [lo, hi) in which it is valid.  A block clamps the      *)
(* versions it replaces and inserts new ones, a revert removes and         *)
(* unclamps, and a graft copies all versions of another deployment and     *)
(* rewinds them to the block of the graft.                                 *)
(*                                                                         *)
(* Two deployments share the database: one that starts empty and one that  *)
(* is grafted onto it.  The attributes of an entity are one value of Data. *)
(***************************************************************************)
EXTENDS Integers, FiniteSets, Functions

CONSTANTS
    Keys,             \* the entities, as records of a type and an id
    Data,
    NoEntity,
    MaxBlock,         \* bound on block numbers
    MaxMods,          \* bound on the modifications of one block
    SharedInterface,  \* the types that share an interface with a type
    AccountLike,      \* the types whose tables are account-like
    DataSourceIds     \* ids that make_id may hand out

ASSUME VersionsAssumption ==
    /\ MaxBlock \in Nat
    /\ MaxMods \in Nat
    /\ NoEntity \notin Data
    /\ \A k \in Keys : SharedInterface[k.type] \subseteq {l.type : l \in Keys}
    /\ \A k, l \in Keys : k.type \in SharedInterface[l.type] => l.type \in SharedInterface[k.type]

VARIABLES
    rows,      \* the rows of the entity tables of each deployment
    ptr,       \* the number of latestEthereumBlock of each deployment
    count,     \* SubgraphDeployment.entityCount of each deployment
    dds,       \* dynamic data sources: id, deployment, lo
    parts,     \* ids of data sources with subordinate metadata rows
    event,     \* the deployment and the keys of the last store event
    graft      \* the graft of the second deployment

versionVars == <<rows, ptr, count, dds, parts, event, graft>>

Base == "base"
Copy == "copy"
Deployments == {Base, Copy}

\* An unbounded range contains every block number, i32::MAX included.
BLOCK_NUMBER_MAX == MaxBlock + 1
Unbounded == MaxBlock + 2

Blocks == 0..MaxBlock

Row == [key : Keys, data : Data, lo : Blocks, hi : Blocks \cup {Unbounded}]

NoGraft == [state |-> "none", block |-> 0, view |-> <<>>, rewound |-> FALSE,
            copied |-> 0]

------------------------------------------------------------------------------
(***************************************************************************)
(* The queries                                                             *)
(***************************************************************************)

\* block_range @> block, and for account-like tables the same by bounds.
BlockRangeContains(r, block) ==
    /\ r.lo <= block /\ block < r.hi
    /\ r.key.type \in AccountLike /\ block < BLOCK_NUMBER_MAX
         => /\ (IF r.hi = Unbounded THEN BLOCK_NUMBER_MAX ELSE r.hi) > block
            /\ r.lo <= block

BlockRangeCurrent(r) == r.lo <= BLOCK_NUMBER_MAX /\ BLOCK_NUMBER_MAX < r.hi

FindQuery(rs, key, block) ==
    {r \in rs : r.key = key /\ BlockRangeContains(r, block)}

Find(rs, key, block) ==
    LET found == FindQuery(rs, key, block)
    IN  IF found = {} THEN NoEntity ELSE (CHOOSE r \in found : TRUE).data

FindManyQuery(rs, keys, block) ==
    {r \in rs : r.key \in keys /\ BlockRangeContains(r, block)}

\* The contents as of a block, read with one query for all keys.
FindMany(rs, keys, block) ==
    [k \in keys |->
        LET found == {r \in FindManyQuery(rs, keys, block) : r.key = k}
        IN  IF found = {} THEN NoEntity ELSE (CHOOSE r \in found : TRUE).data]

\* Any version, current or not, of the same id in a type with a shared
\* interface.
ConflictingEntity(rs, key) ==
    {r.key : r \in {x \in rs : /\ x.key.id = key.id
                               /\ x.key.type \in SharedInterface[key.type]}}

\* The statements for one entity, for all of the keys.
InsertQuery(rs, keys, data, block) ==
    rs \cup {[key |-> k, data |-> data[k], lo |-> block, hi |-> Unbounded] : k \in keys}

ClampRangeQuery(rs, keys, block) ==
    {IF r.key \in keys /\ BlockRangeCurrent(r) THEN [r EXCEPT !.hi = block] ELSE r
        : r \in rs}

\* An empty range has no lower bound, so the comparison is not true of it.
RevertRemoveQuery(rs, block) == {r \in rs : r.lo < r.hi /\ r.lo >= block}

RevertClampQuery(rs, block) ==
    {r \in rs : /\ r.lo <= block /\ block < r.hi
                /\ ~BlockRangeCurrent(r)}

------------------------------------------------------------------------------
(***************************************************************************)
(* Layout: insert, update, delete, revert_block, revert_metadata           *)
(***************************************************************************)

Insert(rs, keys, data, block) == InsertQuery(rs, keys, data, block)

Update(rs, keys, data, block) ==
    InsertQuery(ClampRangeQuery(rs, keys, block), keys, data, block)

Delete(rs, keys, block) == ClampRangeQuery(rs, keys, block)

\* The rows a delete of these entities clamps, which the store counts.
DeletedRows(rs, keys) == {r \in rs : r.key \in keys /\ BlockRangeCurrent(r)}

\* Faulty variant: versions that start at the block itself are kept.
RevertFromNext(rs, block) ==
    LET removed == RevertRemoveQuery(rs, block + 1)
        unclamped == RevertClampQuery(rs \ removed, block - 1)
    IN  [rows |-> {IF r \in unclamped THEN [r EXCEPT !.hi = Unbounded] ELSE r
                      : r \in rs \ removed},
         removed |-> {r.key : r \in removed},
         set |-> {r.key : r \in unclamped}]

\* Faulty variant: entities that come back are not announced.
RevertRemovedOnly(rs, block) ==
    LET removed == RevertRemoveQuery(rs, block)
        unclamped == RevertClampQuery(rs \ removed, block - 1)
    IN  [rows |-> {IF r \in unclamped THEN [r EXCEPT !.hi = Unbounded] ELSE r
                      : r \in rs \ removed},
         removed |-> {r.key : r \in removed},
         set |-> {}]

RevertBlock(rs, block) ==
    LET removed == RevertRemoveQuery(rs, block)
        unclamped == RevertClampQuery(rs \ removed, block - 1)
    IN  [rows |-> {IF r \in unclamped THEN [r EXCEPT !.hi = Unbounded] ELSE r
                      : r \in rs \ removed},
         removed |-> {r.key : r \in removed},
         set |-> {r.key : r \in unclamped}]

\* id in (removed - unclamped) was an insert, in (unclamped - removed) a
\* delete: the change of the entity count.
RevertCount(reverted) ==
    Cardinality(reverted.set \ reverted.removed)
        - Cardinality(reverted.removed \ reverted.set)

\* The data sources of deployment d that were created from the block on.
DeleteDynamicDataSources(d, block) ==
    {s \in dds : s.deployment = d /\ s.lo >= block}

\* Subordinate rows whose id has the id of one of the data sources as prefix.
DeleteByPrefix(ids) == parts \cap ids

RevertMetadata(d, block) ==
    LET gone == DeleteDynamicDataSources(d, block)
    IN  /\ dds' = dds \ gone
        /\ parts' = parts \ DeleteByPrefix({s.id : s \in gone})

------------------------------------------------------------------------------
(***************************************************************************)
(* Store: apply_entity_modifications and transact_block_operations         *)
(***************************************************************************)

\* The modifications as_modifications can produce for one block: at most one
\* per entity, an insert of what is absent, the rest of what is there.
Modifications(d) ==
    LET exists(k) == Find(rows[d], k, BLOCK_NUMBER_MAX) # NoEntity
    IN  {m \in UNION {[ks -> {"Insert", "Overwrite", "Remove"}]
                         : ks \in {s \in SUBSET Keys : IsFiniteSet(s) /\ Cardinality(s) <= MaxMods}} :
            \A k \in DOMAIN m : m[k] = "Insert" <=> ~exists(k)}

\* check_interface_entity_uniqueness, for every write of the block.
InterfaceUniqueness(d, m) ==
    LET writes == {k \in DOMAIN m : m[k] # "Remove"}
    IN  \A k \in writes :
            /\ ConflictingEntity(rows[d], k) = {}
            /\ \A l \in writes : l.id = k.id => l.type \notin SharedInterface[k.type]

\* The loop over the modifications.  Each entity has at most one, so those of a
\* kind can be applied together, in any order.
ApplyEntityModifications(d, m, data, block) ==
    LET to(op) == {k \in DOMAIN m : m[k] = op}
    IN  Delete(Update(Insert(rows[d], to("Insert"), data, block),
                      to("Overwrite"), data, block),
               to("Remove"), block)

CountModifications(d, m) ==
    Cardinality({k \in DOMAIN m : m[k] = "Insert"})
        - Cardinality(DeletedRows(rows[d], {k \in DOMAIN m : m[k] = "Remove"}))

Started(d) == d = Copy => graft.state = "Ready"

\* Bound: once it has been copied, the base is only reverted.
BaseMayAdvance(d) == d = Base => graft.state # "Ready"

\* The exclusion constraint of the table: no two versions of one entity
\* overlap.  Postgres would abort a transaction that breaks it; none does.
Exclusion(rs) ==
    \A r, s \in rs : r # s /\ r.key = s.key => r.hi <= s.lo \/ s.hi <= r.lo

\* One block: entity changes, possibly a new dynamic data source with its
\* subordinate rows, the entity count and the pointer, in one transaction.
TransactBlock(d, block, m, data, created) ==
    /\ Started(d)
    /\ BaseMayAdvance(d)
    /\ block > ptr[d]
    /\ InterfaceUniqueness(d, m)
    /\ rows' = [rows EXCEPT ![d] = ApplyEntityModifications(d, m, data, block)]
    /\ count' = [count EXCEPT ![d] = @ + CountModifications(d, m)]
    /\ ptr' = [ptr EXCEPT ![d] = block]
    /\ dds' = dds \cup {[id |-> i, deployment |-> d, lo |-> block] : i \in created}
    /\ parts' = parts \cup created
    /\ event' = [deployment |-> d, keys |-> DOMAIN m]
    /\ UNCHANGED graft

\* revert_block_operations: the head block goes, but never the graft itself.
RevertBlockOperations(d) ==
    /\ Started(d)
    /\ ptr[d] > 0
    /\ d = Copy => graft.block <= ptr[d] - 1
    /\ LET reverted == RevertBlock(rows[d], ptr[d])
       IN  /\ rows' = [rows EXCEPT ![d] = reverted.rows]
           /\ count' = [count EXCEPT ![d] = @ + RevertCount(reverted)]
           /\ event' = [deployment |-> d, keys |-> reverted.removed \cup reverted.set]
    /\ RevertMetadata(d, ptr[d])
    /\ ptr' = [ptr EXCEPT ![d] = @ - 1]
    /\ graft' = [graft EXCEPT !.rewound =
                    @ \/ (d = Base /\ graft.state = "Init" /\ ptr[d] <= graft.block)]

------------------------------------------------------------------------------
(***************************************************************************)
(* Grafting: the base is checked when the deployment is created and copied *)
(* when it is started                                                      *)
(***************************************************************************)

\* Graft::validate, and the pointer of the new deployment.
CreateGraft(block) ==
    /\ graft.state = "none"
    /\ ptr[Base] >= block
    /\ ptr[Base] > 0
    /\ graft' = [NoGraft EXCEPT !.state = "Init", !.block = block,
                    !.view = [b \in 0..block |-> FindMany(rows[Base], Keys, b)]]
    /\ ptr' = [ptr EXCEPT ![Copy] = block]
    /\ UNCHANGED <<rows, count, dds, parts, event>>

\* CopyEntityDataQuery: every version of every table of the base.
CopyEntityData == rows[Base]

\* Faulty variant: the block of the graft itself is rewound too.
CopyFromBelow(block) == RevertBlock(CopyEntityData, block).rows

\* copy_from: copy everything, then revert block + 1.
CopyFrom(block) == RevertBlock(CopyEntityData, block + 1).rows

\* CopyDynamicDataSourceQuery, with new ids, and revert_metadata: a data
\* source that is newer than the graft is copied and deleted again.
CopyDynamicDataSources(block, newId) ==
    LET olds == {s \in dds : s.deployment = Base}
        kept == {s \in olds : s.lo < block + 1}
    IN  /\ dds' = dds \cup {[id |-> newId[s.id], deployment |-> Copy, lo |-> s.lo]
                               : s \in kept}
        /\ parts' = parts \cup {newId[s.id] : s \in {x \in kept : x.id \in parts}}

NewIds == Injection({s.id : s \in {x \in dds : x.deployment = Base}},
                    DataSourceIds \ {s.id : s \in dds})

\* start_subgraph of a deployment in state Init.
StartSubgraph(newId) ==
    /\ graft.state = "Init"
    /\ rows' = [rows EXCEPT ![Copy] = CopyFrom(graft.block)]
    /\ CopyDynamicDataSources(graft.block, newId)
    /\ graft' = [graft EXCEPT !.state = "Ready",
                    !.copied = Cardinality({r \in rows'[Copy] : BlockRangeCurrent(r)})]
    /\ UNCHANGED <<ptr, count, event>>

------------------------------------------------------------------------------

VersionsInit ==
    /\ rows = [d \in Deployments |-> {}]
    /\ ptr = [d \in Deployments |-> 0]
    /\ count = [d \in Deployments |-> 0]
    /\ dds = {}
    /\ parts = {}
    /\ event = [deployment |-> Base, keys |-> {}]
    /\ graft = NoGraft

VersionsNext ==
    \/ \E d \in Deployments : \E block \in Blocks, m \in Modifications(d) :
          \E data \in [DOMAIN m -> Data] :
             \E created \in {{}} \cup {{i} : i \in DataSourceIds \ {s.id : s \in dds}} :
                TransactBlock(d, block, m, data, created)
    \/ \E d \in Deployments : RevertBlockOperations(d)
    \/ \E block \in Blocks : CreateGraft(block)
    \/ \E newId \in NewIds : StartSubgraph(newId)

VersionsSpec == VersionsInit /\ [][VersionsNext]_versionVars

------------------------------------------------------------------------------

\* The rows, counts, pointers, data sources and the graft have their types.
VersionsTypeOK ==
    /\ rows \in [Deployments -> SUBSET Row]
    /\ ptr \in [Deployments -> Blocks]
    /\ count \in [Deployments -> Int]
    /\ dds \in SUBSET [id : DataSourceIds, deployment : Deployments, lo : Blocks]
    /\ parts \in SUBSET DataSourceIds
    /\ event \in [deployment : Deployments, keys : SUBSET Keys]
    /\ graft.state \in {"none", "Init", "Ready"} /\ graft.block \in Blocks

\* The versions of an entity never overlap and no version is empty or starts
\* after the head, so a block, a revert or a graft never runs into the
\* exclusion constraint.
VersionsDisjoint ==
    \A d \in Deployments :
        /\ Exclusion(rows[d])
        /\ \A r \in rows[d] : r.lo < r.hi /\ r.lo <= ptr[d]
                              /\ (r.hi # Unbounded => r.hi <= ptr[d])

\* entityCount is the number of current entities, except for those that a
\* graft copied, which it does not count.
EntityCountExact ==
    \A d \in Deployments :
        count[d] + (IF d = Copy THEN graft.copied ELSE 0)
            = Cardinality({r \in rows[d] : BlockRangeCurrent(r)})

\* At no block do two types with a shared interface hold the same id.
InterfaceIdsUnique ==
    \A d \in Deployments : \A r, s \in rows[d] :
        r.key.id = s.key.id => s.key.type \notin SharedInterface[r.key.type]

\* No dynamic data source outlives the block that created it, and no
\* subordinate row outlives its data source.
DataSourcesRewound ==
    /\ \A s \in dds : s.lo <= ptr[s.deployment]
    /\ parts = {s.id : s \in dds}

\* A graft shows, at every block up to the graft, what the base showed when
\* the graft was accepted, unless the base lost that block before the copy.
GraftCopiesHistory ==
    graft.state = "Ready" /\ ~graft.rewound =>
        \A b \in 0..graft.block : FindMany(rows[Copy], Keys, b) = graft.view[b]

\* The same without the exception: what Graft::validate checks ("failed to
\* graft onto ... since it has only processed block ...") still holds when
\* the data is copied.
GraftBaseProcessed ==
    graft.state = "Ready" =>
        \A b \in 0..graft.block : FindMany(rows[Copy], Keys, b) = graft.view[b]

\* The store event of a block or a revert names every entity whose current
\* value the step changed.
EventsCoverChanges ==
    [][\A d \in Deployments : ptr'[d] # ptr[d] /\ Started(d) /\ Started(d)' =>
          \A k \in Keys :
             Find(rows[d], k, BLOCK_NUMBER_MAX) # Find(rows'[d], k, BLOCK_NUMBER_MAX)
                 => event'.deployment = d /\ k \in event'.keys]_versionVars

\* The store as EntityHistory sees it.
HistoryOf(d) == [b \in Blocks |-> [k \in Keys |-> Find(rows[d], k, b)]]

BaseHistory ==
    INSTANCE EntityHistory WITH hist <- HistoryOf(Base), tip <- ptr[Base],
                                seeded <- TRUE
CopyHistory ==
    INSTANCE EntityHistory WITH hist <- HistoryOf(Copy), tip <- ptr[Copy],
                                seeded <- graft.state = "Ready"

\* The rows implement the history of a deployment: a block changes what is
\* seen from it on, a revert restores what its predecessor left, and nothing
\* else changes what was seen at an earlier block.
BaseImplementsHistory == BaseHistory!HSpec

\* So do the rows of a deployment that starts as a graft.
CopyImplementsHistory == CopyHistory!HSpec

\* The tables and the metadata of a deployment fit together after every block,
\* revert_block_operations and start of a graft: versions, counts, ids under an
\* interface, data sources, and what a graft took from its base.
TablesConsistent ==
    /\ VersionsTypeOK /\ VersionsDisjoint /\ EntityCountExact
    /\ InterfaceIdsUnique /\ DataSourcesRewound /\ GraftCopiesHistory

\* The block-range rows of a deployment, and those of one that starts as a
\* graft, implement the plain history of entity states.
TablesImplementHistory == BaseImplementsHistory /\ CopyImplementsHistory
==============================================================================
