------------------------------ MODULE MCStorage ------------------------------
(* Two instances that share a run and nothing else.                         *)
(*   tables: two entity types that share an interface, one of them with an  *)
(*     account-like table, one id, two values and two dynamic data sources, *)
(*     in a deployment and in one that is grafted onto it;                  *)
(*   cache: two entities of two fields and a cache that holds about one.    *)
EXTENDS EntityVersions, EntityCache, TLC

CONSTANTS A, B, i, x, y, s1, s2, k1, k2, v1

VARIABLE part   \* the part of the storage at work

ModelKeys == {[type |-> A, id |-> i], [type |-> B, id |-> i]}
ModelShared == [t \in {A, B} |-> IF t = A THEN {B} ELSE {A}]

(* The values of an entity and the keys of the cache are exchanged together: *)
(* a behaviour has only one of them.                                        *)
ModelSymmetry ==
    {(x :> y) @@ (y :> x) @@ (k1 :> k2) @@ (k2 :> k1)} \cup Permutations({s1, s2})

StorageInit == part \in {"tables", "cache"} /\ VersionsInit /\ CacheInit

StorageNext ==
    \/ part = "tables" /\ VersionsNext /\ UNCHANGED <<part, cacheVars>>
    \/ part = "cache" /\ CacheNext /\ UNCHANGED <<part, versionVars>>

StorageSpec == StorageInit /\ [][StorageNext]_<<part, versionVars, cacheVars>>
==============================================================================
