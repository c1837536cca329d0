------------------------------ MODULE ChainStore ------------------------------
(***************************************************************************)
(* The chain store: the tables ethereum_blocks (the block cache) and       *)
(* ethereum_networks (the chain head) and the operations on them           *)
(* (store/postgres/src/store.rs, impl ChainStore for Store, and the SQL    *)
(* functions of its migrations).  Every operator here is one SQL           *)
(* statement or one transaction, so it is atomic; the processes that call  *)
(* it are modelled in the modules that extend this one.                    *)
(***************************************************************************)
EXTENDS BlockTree

CONSTANT AncestorCount   \* ETHEREUM_ANCESTOR_COUNT, ancestor_count

ASSUME AncestorAssumption == AncestorCount \in Nat \ {0}

VARIABLES
    ethereum_blocks,   \* per block: not cached, cached without receipts, or full
    chain_head         \* head_block_hash/head_block_number, NoBlock if NULL

storeVars == <<ethereum_blocks, chain_head>>

CacheState == {"absent", "light", "full"}

Cached == {b \in Block : ethereum_blocks[b] # "absent"}

HeadNumber == IF chain_head = NoBlock THEN -1 ELSE Number[chain_head]

------------------------------------------------------------------------------
\* upsert_blocks: insert full blocks, overwriting what the table has for them.
UpsertBlocks(S) ==
    ethereum_blocks' = [b \in Block |-> IF b \in S THEN "full"
                                                   ELSE ethereum_blocks[b]]

\* upsert_light_blocks: insert blocks without receipts; ON CONFLICT DO NOTHING.
UpsertLightBlocks(S) ==
    ethereum_blocks' = [b \in Block |->
                          IF b \in S /\ ethereum_blocks[b] = "absent"
                          THEN "light" ELSE ethereum_blocks[b]]

\* blocks: the cached ones among the given hashes.
Blocks(S) == S \cap Cached

\* block_hashes_by_block_number
BlockHashesByBlockNumber(n) == {b \in Cached : Number[b] = n}

\* The effect of deleting rows of ethereum_blocks.
Delete(S) ==
    ethereum_blocks' = [b \in Block |-> IF b \in S THEN "absent"
                                                   ELSE ethereum_blocks[b]]

\* Faulty variant: drops the confirmed block too.
ConfirmBlockHashDropsAll(n, hash) == Delete(BlockHashesByBlockNumber(n))

\* confirm_block_hash: drop every other block with that number.
ConfirmBlockHash(n, hash) == Delete(BlockHashesByBlockNumber(n) \ {hash})

\* ancestor_block / lookup_ancestor_block: the cached ancestor of b that is
\* offset blocks back, NoBlock if the chain of cached blocks breaks before it.
AncestorBlock(b, offset) ==
    LET walked == {a \in PathOf[b] : Number[a] + offset >= Number[b]}
    IN  IF walked \subseteq Cached
        THEN CHOOSE a \in walked : Number[a] + offset = Number[b]
        ELSE NoBlock

------------------------------------------------------------------------------
(***************************************************************************)
(* attempt_chain_head_update                                               *)
(***************************************************************************)

Better(a, b) == \/ Number[a] > Number[b]
                \/ Number[a] = Number[b] /\ Hash[a] < Hash[b]

\* Faulty variants: the comparison with the head is off by one, either way.
AboveHeadOrLevel == {b \in Cached : Number[b] >= HeadNumber}
AboveHeadByTwo == {b \in Cached : Number[b] > HeadNumber + 1}

AboveHead == {b \in Cached : Number[b] > HeadNumber}

\* ORDER BY number DESC, hash ASC LIMIT 1 among the blocks above the head.
IsHeadCandidate(c) ==
    c \in AboveHead /\ \A d \in AboveHead \ {c} : Better(c, d)

\* Faulty variant: the walk goes one block too far.
RequiredAncestorsOneMore(c) ==
    {a \in PathOf[c] \ {c} : Number[a] + AncestorCount + 1 >= Number[c]}

\* The ancestors the recursive query visits when none of them is missing.
RequiredAncestors(c) ==
    {a \in PathOf[c] \ {c} : Number[a] + AncestorCount >= Number[c]}

\* missing_parents: the first block at which the walk back from c stops.
MissingParents(c) ==
    {m \in RequiredAncestors(c) \ Cached :
        \A a \in RequiredAncestors(c) : Number[a] > Number[m] => a \in Cached}

\* The candidate's chain is complete: it becomes the head (and subscribers are
\* notified: see the modules that extend this one).
SetChainHead(c) ==
    /\ IsHeadCandidate(c)
    /\ MissingParents(c) = {}
    /\ chain_head' = c

------------------------------------------------------------------------------
(***************************************************************************)
(* cleanup_cached_blocks: the rows strictly between the genesis block and  *)
(* least(slowest subgraph, head - ancestor_count).  SQL's least ignores    *)
(* NULLs: a network with no indexing subgraph (slowest = {}) or no head    *)
(* contributes no bound, and with no bound at all nothing is deleted.      *)
(***************************************************************************)
CleanupLimits(slowest) ==
    slowest \cup (IF chain_head = NoBlock
                  THEN {} ELSE {HeadNumber - AncestorCount})

CleanupRows(slowest) ==
    {b \in Cached : /\ 0 < Number[b]
                    /\ CleanupLimits(slowest) # {}
                    /\ \A limit \in CleanupLimits(slowest) : Number[b] < limit}
==============================================================================
