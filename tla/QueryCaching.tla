--------------------------- MODULE QueryCaching ---------------------------
(* The caches in front of query execution                                  *)
(* (graphql/src/execution/execution.rs, cache.rs and query/mod.rs): the    *)
(* results of recent blocks, the LFU cache for older ones, the herd cache  *)
(* that lets equal queries share one execution, and the semaphore that     *)
(* bounds concurrent executions.  Requests of several clients interleave   *)
(* with an indexer that adds and reverts blocks, and clients may go away.  *)
(*                                                                         *)
(* The subgraph's chain is a sequence of labels; a prefix of it stands for *)
(* a block and for the data as of that block.  The result of a query is    *)
(* the prefix that was read.                                               *)
EXTENDS Integers, Sequences, FiniteSets, SequencesExt

CONSTANTS
    Clients,             \* each makes one request
    ClientRequests,      \* what they may ask for: a query and a block
    QUERY_CACHE_BLOCKS,  \* capacity of the block cache
    BlockWeight,         \* QUERY_CACHE_MAX_MEM / QUERY_CACHE_BLOCKS, in results
    QueryPermits,        \* max_concurrent_queries
    Forks,               \* labels for blocks
    ChainBound,          \* bound: height of the subgraph
    ChainReverts         \* bound: number of reverts

ASSUME CachingAssumption ==
    /\ {QUERY_CACHE_BLOCKS, BlockWeight, QueryPermits} \subseteq Nat \ {0}
    /\ IsFiniteSet(Clients)
    /\ \A r \in ClientRequests : r.by \in {"latest", "number", "index"} /\ r.number \in Nat
    /\ Forks # {} /\ {"zero", "error"} \cap Forks = {}

VARIABLES
    chain,       \* the blocks of the subgraph
    undone,      \* reorg_count, current and max depth, and the blocks that
                 \* were ever reverted
    client,      \* for each client its request and how far it is
    work,        \* executions, by the client that started them
    herd,        \* QUERY_HERD_CACHE: key -> the client whose work is shared
    blockCache,  \* QUERY_BLOCK_CACHE for one network, the newest block first
    lfuCache,    \* QUERY_LFU_CACHE: key -> result
    permits      \* permits left

cachingVars == <<chain, undone, client, work, herd, blockCache, lfuCache, permits>>
chainVars == <<chain, undone>>
cacheVars == <<blockCache, lfuCache>>

NoHash == <<"zero">>

Failure == <<"error">>

NoWork == [stage |-> "none", holders |-> {}, result |-> <<>>]

(* What an earlier query may have left in the block cache.                 *)
FirstChain == <<CHOOSE f \in Forks : TRUE>>

EarlierEntry ==
    LET ptr == [hash |-> FirstChain, number |-> 1]
    IN [block |-> ptr, weight |-> 1, cache |-> [k \in {<<"q0", ptr>>} |-> FirstChain]]

CachingInit ==
    /\ chain = FirstChain
    /\ undone = [count |-> 0, current |-> 0, max |-> 0, blocks |-> {}]
    /\ client \in [Clients ->
          [step : {"new"}, request : ClientRequests, ptr : {[hash |-> NoHash, number |-> 0]},
           state : {[count |-> 0, latest |-> 0]}, result : {<<>>}, shared : {0}, hit : {FALSE}]]
    /\ work = [c \in Clients |-> NoWork]
    /\ herd = <<>>
    /\ blockCache \in {<<>>, <<EarlierEntry>>}
    /\ lfuCache = <<>>
    /\ permits = QueryPermits

---------------------------------------------------------------------------
(* The indexer                                                             *)

ChainForward ==
    /\ Len(chain) < ChainBound
    /\ \E f \in Forks : chain' = Append(chain, f)
    /\ undone' = [undone EXCEPT !.current = 0]
    /\ UNCHANGED <<client, work, herd, cacheVars, permits>>

ChainRevert ==
    /\ Len(chain) > 1 /\ undone.count < ChainReverts
    /\ chain' = Front(chain)
    /\ undone' = LET depth == undone.current + 1
                 IN [count |-> undone.count + 1, current |-> depth,
                     max |-> IF depth > undone.max THEN depth ELSE undone.max,
                     blocks |-> undone.blocks \cup {chain}]
    /\ UNCHANGED <<client, work, herd, cacheVars, permits>>

---------------------------------------------------------------------------
(* Caches                                                                  *)

(* Faulty variant: the key leaves the block out, and the cache by block    *)
(* keeps results apart while the other one does not.                       *)
KeyByQuery(c) == <<client[c].request.query, 0>>

KeyOf(c) == <<client[c].request.query, client[c].ptr>>

Indexing(c) == client[c].request.by = "index"

Lookup(f, key) == IF key \in DOMAIN f THEN f[key] ELSE <<>>

Stored(f, key, value) ==
    [k \in DOMAIN f \cup {key} |-> IF k = key THEN value ELSE f[k]]

Without(f, key) == [k \in DOMAIN f \ {key} |-> f[k]]

(* QueryBlockCache::get: the block must match in hash and number.          *)
BlockCacheGet(ptr, key) ==
    LET found == {i \in 1..Len(blockCache) : blockCache[i].block = ptr}
    IN IF found = {} THEN <<>>
       ELSE Lookup(blockCache[CHOOSE i \in found : \A j \in found : i <= j].cache, key)

(* CacheByBlock::insert: a result that does not fit is not added; the      *)
(* weight grows even when the result of a key is replaced.                 *)
BlockInsert(entry, key, result) ==
    IF entry.weight + 1 <= BlockWeight
    THEN [entry EXCEPT !.weight = @ + 1, !.cache = Stored(@, key, result)]
    ELSE entry

Fits(entry) == entry.weight + 1 <= BlockWeight

(* should_insert: blocks older than the newest one are not for this cache. *)
StartsEntry(ptr) ==
    /\ QUERY_CACHE_BLOCKS > 0
    /\ blockCache = <<>> \/ blockCache[1].block.number <= ptr.number

NewEntry(ptr) == [block |-> ptr, weight |-> 0, cache |-> <<>>]

(* At capacity the oldest block is popped.                                 *)
RoomMade(cache) == IF Len(cache) = QUERY_CACHE_BLOCKS THEN Front(cache) ELSE cache

(* QueryBlockCache::insert; false if the result has to go elsewhere.       *)
BlockCacheInsert(ptr, key, result) ==
    LET found == {i \in 1..Len(blockCache) : blockCache[i].block = ptr}
        at    == CHOOSE i \in found : TRUE
    IN IF found # {}
       THEN [cache |-> [blockCache EXCEPT ![at] = BlockInsert(@, key, result)],
             done |-> Fits(blockCache[at])]
       ELSE IF StartsEntry(ptr)
       THEN [cache |-> <<BlockInsert(NewEntry(ptr), key, result)>> \o RoomMade(blockCache),
             done |-> Fits(NewEntry(ptr))]
       ELSE [cache |-> blockCache, done |-> FALSE]

---------------------------------------------------------------------------
(* A request                                                               *)

(* locate_block: the number a client names gets an all-zero hash.          *)
Located(request) ==
    IF request.by = "latest" THEN [hash |-> chain, number |-> Len(chain)]
    ELSE [hash |-> NoHash, number |-> request.number]

(* run_query up to the block pointer: a block that is not there yet is     *)
(* refused.  A request to the index node runs on metadata.                 *)
Arrive(c) ==
    /\ client[c].step = "new"
    /\ client' = [client EXCEPT
          ![c].step = IF client[c].request.by = "number"
                            /\ client[c].request.number > Len(chain) THEN "failed"
                      ELSE IF Indexing(c) THEN "enter" ELSE "lookup",
          ![c].state = [count |-> undone.count, latest |-> Len(chain)],
          ![c].ptr = IF Indexing(c) THEN @ ELSE Located(client[c].request)]
    /\ UNCHANGED <<chainVars, work, herd, cacheVars, permits>>

(* execute_root_selection_set looks into the caches.                       *)
LookupCaches(c) ==
    LET recent == BlockCacheGet(client[c].ptr, KeyOf(c))
        older  == Lookup(lfuCache, KeyOf(c))
        found  == IF recent # <<>> THEN recent ELSE older
    IN /\ client[c].step = "lookup"
       /\ client' = [client EXCEPT ![c].step = IF found = <<>> THEN "enter" ELSE "answer",
                                   ![c].result = found, ![c].hit = (found # <<>>)]
       /\ UNCHANGED <<chainVars, work, herd, cacheVars, permits>>

(* cached_query: join the work on the same key or start it.  Requests to   *)
(* the index node have no key.                                             *)
EnterHerd(c) ==
    /\ client[c].step = "enter"
    /\ LET owner == IF ~Indexing(c) /\ KeyOf(c) \in DOMAIN herd THEN herd[KeyOf(c)] ELSE c
       IN /\ client' = [client EXCEPT ![c].step = "wait", ![c].shared = owner]
          /\ work' = [work EXCEPT
                ![owner] = IF owner = c THEN [NoWork EXCEPT !.stage = "queued", !.holders = {c}]
                           ELSE [work[owner] EXCEPT !.holders = @ \cup {c}]]
          /\ herd' = IF owner = c /\ ~Indexing(c) THEN Stored(herd, KeyOf(c), c) ELSE herd
    /\ UNCHANGED <<chainVars, cacheVars, permits>>

(* query_permit *)
TakePermit(c) ==
    /\ work[c].stage = "queued" /\ permits > 0
    /\ permits' = permits - 1
    /\ work' = [work EXCEPT ![c].stage = IF Indexing(c) THEN "nested" ELSE "running"]
    /\ UNCHANGED <<chainVars, client, herd, cacheVars>>

(* Faulty variant: the nested query takes a permit of its own.             *)
NestedMayRunWithPermit == permits > 0

(* The resolver of the index node runs a query within its own, on          *)
(* metadata: no key, and no second permit.                                 *)
NestedMayRun == TRUE

NestedQuery(c) ==
    /\ work[c].stage = "nested"
    /\ NestedMayRun
    /\ work' = [work EXCEPT ![c].stage = "running"]
    /\ UNCHANGED <<chainVars, client, herd, cacheVars, permits>>

(* The blocking execution: it reads the data at the number of its block,   *)
(* whatever chain that is now, or it fails or panics.                      *)
Execute(c) ==
    /\ work[c].stage = "running"
    /\ \E result \in {Failure, SubSeq(chain, 1, IF client[c].ptr.number < Len(chain)
                                                THEN client[c].ptr.number ELSE Len(chain))} :
          work' = [work EXCEPT ![c].stage = "done", ![c].result = result]
    /\ permits' = permits + 1
    /\ UNCHANGED <<chainVars, client, herd, cacheVars>>

(* The guard of the client that started the work takes the key out.        *)
LeaveHerd(c) ==
    IF client[c].shared = c /\ ~Indexing(c) THEN Without(herd, KeyOf(c)) ELSE herd

(* The future resolves.                                                    *)
Resolve(c) ==
    LET owner == client[c].shared
    IN /\ client[c].step = "wait" /\ work[owner].stage = "done"
       /\ client' = [client EXCEPT ![c].step = "store", ![c].result = work[owner].result]
       /\ herd' = LeaveHerd(c)
       /\ UNCHANGED <<chainVars, work, cacheVars, permits>>

(* no_cache, for clients that have a key.                                  *)
Cacheable(c) == client[c].shared = c /\ client[c].result # Failure /\ ~Indexing(c)

(* The result goes into the block cache or, if it does not fit there, into *)
(* the LFU cache, which evicts some entries before.                        *)
StoreResult(c) ==
    LET inserted == BlockCacheInsert(client[c].ptr, KeyOf(c), client[c].result)
    IN /\ client[c].step = "store"
       /\ IF ~Cacheable(c) THEN UNCHANGED cacheVars
          ELSE /\ blockCache' = inserted.cache
               /\ IF inserted.done THEN UNCHANGED lfuCache
                  ELSE \E kept \in SUBSET DOMAIN lfuCache :
                          lfuCache' = Stored([k \in kept |-> lfuCache[k]],
                                             KeyOf(c), client[c].result)
       /\ client' = [client EXCEPT ![c].step = "answer"]
       /\ UNCHANGED <<chainVars, work, herd, permits>>

(* deployment_changed, as in QueryExecution.                               *)
Reverted(c) ==
    /\ ~Indexing(c)
    /\ undone.count > client[c].state.count
    /\ client[c].ptr.number + undone.max * (undone.count - client[c].state.count)
          > client[c].state.latest

Answer(c) ==
    /\ client[c].step = "answer"
    /\ client' = [client EXCEPT ![c].step = IF Reverted(c) \/ client[c].result = Failure
                                            THEN "failed" ELSE "answered"]
    /\ UNCHANGED <<chainVars, work, herd, cacheVars, permits>>

(* A client goes away: its future is dropped, its guard runs, and work     *)
(* nobody holds any more is dropped with its permit.                       *)
GoAway(c) ==
    LET owner == client[c].shared
        left  == work[owner].holders \ {c}
        drop  == left = {} /\ work[owner].stage \in {"queued", "running", "nested"}
    IN /\ client[c].step = "wait"
       /\ client' = [client EXCEPT ![c].step = "gone"]
       /\ herd' = LeaveHerd(c)
       /\ work' = [work EXCEPT ![owner].holders = left,
                               ![owner].stage = IF drop THEN "dropped" ELSE @]
       /\ permits' = IF drop /\ work[owner].stage # "queued" THEN permits + 1 ELSE permits
       /\ UNCHANGED <<chainVars, cacheVars>>

CachingNext ==
    \/ ChainForward \/ ChainRevert
    \/ \E c \in Clients :
          \/ Arrive(c) \/ LookupCaches(c) \/ EnterHerd(c) \/ TakePermit(c) \/ NestedQuery(c)
          \/ Execute(c) \/ Resolve(c) \/ StoreResult(c) \/ Answer(c) \/ GoAway(c)

(* The runtime polls every future, and the semaphore is fair.              *)
CachingFairness ==
    \A c \in Clients :
        /\ WF_cachingVars(Arrive(c) \/ LookupCaches(c) \/ EnterHerd(c) \/ NestedQuery(c)
                          \/ Execute(c) \/ Resolve(c) \/ StoreResult(c) \/ Answer(c))
        /\ SF_cachingVars(TakePermit(c))

CachingSpec == CachingInit /\ [][CachingNext]_cachingVars /\ CachingFairness

---------------------------------------------------------------------------
(* Properties                                                              *)

(* The caches keep their shape: permits are neither lost nor made, the     *)
(* block cache is within its capacity and weight, and holds no failure.    *)
CachesTypeOK ==
    /\ permits = QueryPermits -
          Cardinality({c \in Clients : work[c].stage \in {"running", "nested"}})
    /\ Len(blockCache) <= QUERY_CACHE_BLOCKS
    /\ \A i \in 1..Len(blockCache) :
          /\ blockCache[i].weight <= BlockWeight
          /\ Cardinality(DOMAIN blockCache[i].cache) <= blockCache[i].weight
          /\ \A k \in DOMAIN blockCache[i].cache : blockCache[i].cache[k] # Failure

(* The newest block is in front, as insert takes for granted when it calls *)
(* the first entry the highest, and no block has two entries, although the *)
(* chain goes back and forth and requests finish in any order.             *)
NewestBlockFirst ==
    \A i, j \in 1..Len(blockCache) :
        i < j => /\ blockCache[i].block.number >= blockCache[j].block.number
                 /\ blockCache[i].block # blockCache[j].block

(* A shared execution is on the list only as long as the client that       *)
(* started it is there to take it off: no result stays in the herd cache   *)
(* and is served to clients that come later.                               *)
HerdEntriesOwned ==
    \A key \in DOMAIN herd :
        /\ client[herd[key]].step = "wait" /\ client[herd[key]].shared = herd[key]
        /\ KeyOf(herd[key]) = key
        /\ work[herd[key]].stage # "dropped"

(* A client that asked for the latest block gets the data of the block     *)
(* that was the latest when it asked, from whatever cache, unless that     *)
(* block has been reverted at some time.                                   *)
LatestServedRight ==
    \A c \in Clients :
        client[c].step = "answered" /\ client[c].request.by = "latest"
            /\ client[c].ptr.hash \notin undone.blocks
        => client[c].result = client[c].ptr.hash

(* What the comment on the cache key says: the wrong result is not served. *)
(* A client that is answered gets data that were those of its block at     *)
(* some moment since it asked.                                             *)
NoWrongResultServed ==
    [][\A c \in Clients :
          client[c].step = "answer" /\ client'[c].step = "answered" /\ ~Indexing(c)
          => client[c].result = SubSeq(chain, 1, client[c].ptr.number)
             \/ client[c].result = client[c].ptr.hash]_cachingVars

(* Every client is answered, fails or goes away: the permits, the shared   *)
(* futures and the queries within queries never wait for each other.       *)
EveryoneAnswered ==
    \A c \in Clients : <>(client[c].step \in {"answered", "failed", "gone"})

(* The herd cache and the block cache serve what execution would: entries  *)
(* of the herd have an owner at work, the newest block is in front, and    *)
(* who asks for the latest block gets its data.                            *)
CachingConsistent ==
    CachesTypeOK /\ NewestBlockFirst /\ HerdEntriesOwned /\ LatestServedRight
============================================================================
