------------------------------ MODULE LfuCache ------------------------------
(***************************************************************************)
(* graph/src/util/lfu_cache.rs: a cache whose entries are evicted, the     *)
(* stale ones first and then the least frequently used ones, once their    *)
(* total weight exceeds a limit.  A cache is a record: its entries by key, *)
(* total_weight and stale_counter.  total_weight is a usize: arithmetic on *)
(* it wraps at Word.                                                       *)
(***************************************************************************)
EXTENDS Integers, FiniteSets, Functions, FiniteSetsExt

CONSTANTS
    Word,           \* stands for 2^64
    StalePeriod,    \* STALE_PERIOD
    MaxFrequency    \* bound on the access counter of an entry

ASSUME LfuAssumption ==
    Word \in Nat \ {0} /\ StalePeriod \in Nat \ {0} /\ MaxFrequency \in Nat \ {0}

Entry(value, weight, frequency) ==
    [value |-> value, weight |-> weight, frequency |-> frequency,
     stale |-> FALSE, willStale |-> FALSE]

LfuNew == [entries |-> <<>>, total_weight |-> 0, stale_counter |-> 0]

ContainsKey(cache, key) == key \in DOMAIN cache.entries

Bumped(f) == IF f < MaxFrequency THEN f + 1 ELSE f

Accessed(e) == [e EXCEPT !.frequency = Bumped(@), !.willStale = FALSE]

\* get_mut: count the access; what was accessed will not be stale.
Touch(cache, key) ==
    IF ContainsKey(cache, key) THEN [cache EXCEPT !.entries[key] = Accessed(@)] ELSE cache

\* insert: a new entry, or a new value and weight for an old one.
LfuInsert(cache, key, value, weight) ==
    IF ContainsKey(cache, key)
    THEN LET touched == Touch(cache, key)
             old == cache.entries[key].weight
         IN  [touched EXCEPT !.entries[key].value = value,
                             !.entries[key].weight = weight,
                             !.total_weight = (@ - old + weight) % Word]
    ELSE [cache EXCEPT
             !.entries = [k \in DOMAIN @ \cup {key} |->
                             IF k = key THEN Entry(value, weight, 1) ELSE @[k]],
             !.total_weight = (@ + weight) % Word]

WeightOf(entries, keys) == SumFunctionOnSet([k \in keys |-> entries[k].weight], keys)

\* remove of several keys: each entry gets the highest priority and is popped.
LfuRemoveAll(cache, keys) ==
    LET there == keys \cap DOMAIN cache.entries
    IN  [cache EXCEPT
            !.entries = Restrict(@, DOMAIN @ \ keys),
            !.total_weight = (@ - WeightOf(cache.entries, there)) % Word]

\* insert of several entries that are not there, one after the other.
LfuInsertAll(cache, new) ==
    [cache EXCEPT
        !.entries = [k \in DOMAIN @ \cup DOMAIN new |->
                        IF k \in DOMAIN new THEN new[k] ELSE @[k]],
        !.total_weight = (@ + WeightOf(new, DOMAIN new)) % Word]

\* extend: the queue takes the entries of another cache; an entry that is
\* there already keeps its value and takes the priority of the other one.
\* total_weight is not adjusted.
LfuExtend(cache, other) ==
    [cache EXCEPT
        !.entries = [k \in DOMAIN @ \cup DOMAIN other.entries |->
            IF k \in DOMAIN @
            THEN IF k \in DOMAIN other.entries
                 THEN [@[k] EXCEPT !.frequency = other.entries[k].frequency,
                                   !.stale = other.entries[k].stale]
                 ELSE @[k]
            ELSE other.entries[k]]]

\* The period ends: what was not accessed in it is stale from now on.
Aged(cache) ==
    IF cache.stale_counter + 1 = StalePeriod
    THEN [cache EXCEPT
             !.stale_counter = 0,
             !.entries = [k \in DOMAIN @ |->
                 [@[k] EXCEPT !.stale = cache.entries[k].willStale,
                              !.willStale = TRUE]]]
    ELSE [cache EXCEPT !.stale_counter = @ + 1]

\* Priority order of the queue: stale first, then by least frequency.
PoppedBefore(e, f) ==
    \/ e.stale /\ ~f.stale
    \/ e.stale = f.stale /\ e.frequency <= f.frequency

\* Enough was popped when the weight that is left is within the limit.
EnoughEvicted(cache, gone, max) ==
    (cache.total_weight - WeightOf(cache.entries, gone)) % Word <= max

\* evict: the caches that popping entries until the weight is within the
\* limit can leave (entries of equal priority go in any order).  There is
\* none when the queue runs empty first: the expect panics.
LfuEvict(cache, max) ==
    IF cache.total_weight <= max THEN {cache}
    ELSE LET aged == Aged(cache)
             es == aged.entries
             popped == {gone \in SUBSET DOMAIN es :
                 /\ EnoughEvicted(aged, gone, max)
                 /\ \A k \in gone, l \in DOMAIN es \ gone : PoppedBefore(es[k], es[l])
                 /\ \E last \in gone :
                       /\ \A k \in gone : PoppedBefore(es[k], es[last])
                       /\ ~EnoughEvicted(aged, gone \ {last}, max)}
         IN  {LfuRemoveAll(aged, gone) : gone \in popped}
==============================================================================
