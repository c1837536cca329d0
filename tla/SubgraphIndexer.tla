--------------------------- MODULE SubgraphIndexer ---------------------------
(***************************************************************************)
(* One indexing subgraph: its block stream (chain/ethereum/src/            *)
(* block_stream.rs), the task that consumes it (run_subgraph and           *)
(* process_block in core/src/subgraph/instance_manager.rs) and its part of *)
(* the store (transact_block_operations and revert_block_operations),      *)
(* running concurrently with the block ingestor on the same chain store.   *)
(*                                                                         *)
(* Entity data is abstracted to the set of blocks whose triggers have been *)
(* applied.  Which triggers a block holds is reduced to whether it holds   *)
(* any for this subgraph (Triggers).                                       *)
(***************************************************************************)
EXTENDS BlockIngestor

CONSTANTS
    Triggers,        \* the blocks with events this subgraph handles
    NotifyMayFail    \* whether sending a store event may fail after a commit

ASSUME IndexerAssumption ==
    Triggers \subseteq Block /\ NotifyMayFail \in BOOLEAN

VARIABLES
    block_ptr,   \* the subgraph's latest block, NoBlock before the first one
    applied,     \* the blocks whose entity changes are in the store
    failed,      \* SubgraphDeployment.failed
    stream,      \* where the block stream and its consumer are
    head,        \* head_ptr, as read by get_next_step
    pending,     \* the blocks the stream is going to yield
    hits,        \* those of them for which it found triggers
    woken,       \* a chain head update the stream has not seen yet
    cache        \* the blocks whose changes entity_lfu_cache reflects

deploymentVars == <<block_ptr, applied, failed>>
streamVars == <<stream, head, pending, hits>>
indexerVars == <<deploymentVars, streamVars, woken, cache>>
systemVars == <<ingestorVars, indexerVars>>

StreamState ==
    {"reconcile", "decide", "scan", "load", "revert", "yield", "done", "idle",
     "stopped"}

\* The type invariant: the stream is in a state of the state machine of
\* block_stream.rs and has triggers only for blocks it still has to process.
IndexerTypeOK ==
    /\ TypeOK
    /\ block_ptr \in Block \cup {NoBlock}
    /\ applied \in SUBSET Triggers
    /\ failed \in BOOLEAN
    /\ stream \in StreamState
    /\ head \in Block \cup {NoBlock}
    /\ pending \in SUBSET Block
    /\ hits \in SUBSET pending
    /\ woken \in BOOLEAN
    /\ cache \in SUBSET Triggers

IndexerInit ==
    /\ Init
    /\ block_ptr = NoBlock
    /\ applied = {}
    /\ failed = FALSE
    /\ stream = "reconcile"
    /\ head = NoBlock
    /\ pending = {}
    /\ hits = {}
    /\ woken = FALSE
    /\ cache = {}

------------------------------------------------------------------------------
(***************************************************************************)
(* BlockStream: get_next_step, do_step and poll                            *)
(***************************************************************************)

\* Make sure not to include genesis in the reorg threshold.
Threshold == IF ReorgThreshold <= Number[head] THEN ReorgThreshold
                                               ELSE Number[head]

\* Faulty variant: the scan goes up to the head itself.
ToHead == Number[head]

\* The first block to scan, and the last one that is beyond the threshold.
From == IF block_ptr = NoBlock THEN 0 ELSE Number[block_ptr] + 1
ToLimit == Number[head] - Threshold

\* "Really far" behind the head: the node is trusted with block numbers.
FarBehind ==
    block_ptr # NoBlock => Number[head] - Number[block_ptr] > Threshold

\* get_next_step reads the two pointers and stops at or above the head.
ReadPointers ==
    /\ stream = "reconcile"
    /\ head' = chain_head
    /\ stream' = IF \/ chain_head = NoBlock
                    \/ /\ block_ptr # NoBlock
                       /\ Number[block_ptr] >= Number[chain_head]
                 THEN "done" ELSE "decide"
    /\ UNCHANGED <<ingestorVars, deploymentVars, pending, hits, woken, cache>>

\* block_hash_by_block_number (ethereum_adapter.rs): a single cached block is
\* taken to be the right one; otherwise the node is asked, and the others are
\* deleted if there are several.
BlockHashByBlockNumber(n) ==
    LET hashes == BlockHashesByBlockNumber(n)
    IN  IF \E h \in Block : hashes = {h} THEN hashes ELSE NodeBlock(n)

ConfirmIfSeveral(n, hash) ==
    IF \E g, h \in BlockHashesByBlockNumber(n) : g # h
    THEN ConfirmBlockHash(n, hash)
    ELSE UNCHANGED ethereum_blocks

\* Faulty variant: the answer of is_on_main_chain is ignored.
CheckMainChainIgnored ==
    /\ stream = "decide"
    /\ FarBehind
    /\ stream' = "scan"
    /\ UNCHANGED <<ingestorVars, deploymentVars, head, pending, hits, woken, cache>>

\* is_on_main_chain: go forward from the subgraph's block or revert it.
CheckMainChain ==
    /\ stream = "decide"
    /\ FarBehind
    /\ IF block_ptr = NoBlock
       THEN stream' = "scan" /\ UNCHANGED ethereum_blocks
       ELSE \E h \in BlockHashByBlockNumber(Number[block_ptr]) :
               /\ stream' = IF h = block_ptr THEN "scan" ELSE "revert"
               /\ ConfirmIfSeveral(Number[block_ptr], h)
    /\ UNCHANGED <<chain_head, nodeVars, pollVars, deploymentVars, head,
                   pending, hits, woken, cache>>

\* Where a scan may end: how long a range it takes depends on how many triggers
\* earlier ranges had and on the start blocks of the data sources; it never
\* passes the limit.
ScanEnds == From .. ToLimit

\* blocks_with_triggers: the node searches a range of numbers for triggers and
\* `to` itself is added.  Two blocks with the number `to` are an error.
ScanRange(to) ==
    LET found == {b \in Triggers \cap PathOf[latest] : Number[b] \in From .. to}
    IN  /\ stream = "scan"
        /\ to \in ScanEnds
        /\ \E h \in BlockHashByBlockNumber(to) :
              /\ \A b \in found : Number[b] = to => b = h
              /\ pending' = found \cup {h}
              /\ hits' = found
              /\ ConfirmIfSeveral(to, h)
        /\ stream' = "load"
        /\ UNCHANGED <<chain_head, nodeVars, pollVars, deploymentVars, head,
                       woken, cache>>

\* load_blocks: the blocks that are not cached come from the node, and are
\* cached without receipts.
LoadBlocks ==
    /\ stream = "load"
    /\ UpsertLightBlocks(pending \ Blocks(pending))
    /\ stream' = "yield"
    /\ UNCHANGED <<chain_head, nodeVars, pollVars, deploymentVars, head,
                   pending, hits, woken, cache>>

\* Faulty variant: the child found is taken without comparing its parent.
WalkBackUnchecked ==
    /\ stream = "decide"
    /\ ~FarBehind
    /\ LET child == AncestorBlock(head, Number[head] - Number[block_ptr] - 1)
       IN  /\ child # NoBlock
           /\ pending' = {child}
           /\ hits' = {child} \cap Triggers
    /\ stream' = "yield"
    /\ UNCHANGED <<ingestorVars, deploymentVars, head, woken, cache>>

\* triggers_in_block: near the head, the triggers of a block are parsed from the
\* receipts the cache has for it.
TriggersInBlock(b) == {b} \cap {t \in Triggers : ethereum_blocks[t] = "full"}

\* Near the head: walk back from the head to the child of the subgraph's block
\* and compare.  A missing block means starting over.
WalkBack ==
    /\ stream = "decide"
    /\ ~FarBehind
    /\ LET child == AncestorBlock(head, Number[head] - Number[block_ptr] - 1)
       IN  \/ /\ child = NoBlock
              /\ stream' = "reconcile"
              /\ UNCHANGED <<pending, hits>>
           \/ /\ child # NoBlock
              /\ Parent[child] = block_ptr
              /\ pending' = {child}
              /\ hits' = TriggersInBlock(child)
              /\ stream' = "yield"
           \/ /\ child # NoBlock
              /\ Parent[child] # block_ptr
              /\ stream' = "revert"
              /\ UNCHANGED <<pending, hits>>
    /\ UNCHANGED <<ingestorVars, deploymentVars, head, woken, cache>>

\* Faulty variant: entity versions of the reverted block are kept (off by one).
RevertBlockOperationsTooFew ==
    /\ block_ptr' = Parent[block_ptr]
    /\ applied' = {b \in applied : Number[b] <= Number[block_ptr]}
    /\ UNCHANGED failed

\* revert_block_operations, first transaction: the pointer goes back by one
\* block and every entity version written at or above it is removed.
RevertBlockOperations ==
    /\ block_ptr' = Parent[block_ptr]
    /\ applied' = {b \in applied : Number[b] < Number[block_ptr]}
    /\ UNCHANGED failed

\* Faulty variant: the entity cache is not cleared.
RevertBlockKeepsCache ==
    /\ stream = "revert"
    /\ block_ptr # Genesis
    /\ UpsertLightBlocks({block_ptr} \ Blocks({block_ptr}))
    /\ RevertBlockOperations
    /\ stream' = "reconcile"
    /\ UNCHANGED <<chain_head, nodeVars, pollVars, head, pending, hits, woken, cache>>

\* do_step for RevertBlock: load_blocks and revert_block_operations.  The Revert
\* event makes run_subgraph drop its entity cache; when only the second
\* transaction, which sends the store event, fails, the revert is committed but
\* reported as an error, and no Revert event is produced.
RevertBlock ==
    /\ stream = "revert"
    /\ block_ptr # Genesis
    /\ UpsertLightBlocks({block_ptr} \ Blocks({block_ptr}))
    /\ RevertBlockOperations
    /\ stream' = "reconcile"
    /\ \/ cache' = {}
       \/ NotifyMayFail /\ cache' = cache
    /\ UNCHANGED <<chain_head, nodeVars, pollVars, head, pending, hits, woken>>

\* Done yielding blocks.
QueueEmpty ==
    /\ stream = "yield"
    /\ pending = {}
    /\ stream' = "reconcile"
    /\ UNCHANGED <<ingestorVars, deploymentVars, head, pending, hits, woken, cache>>

\* A request of the reconciliation fails: RetryAfterDelay, then start over.
StreamError ==
    /\ stream \in {"decide", "scan", "load", "revert", "done"}
    /\ stream' = "reconcile"
    /\ pending' = {}
    /\ hits' = {}
    /\ UNCHANGED <<ingestorVars, deploymentVars, head, woken, cache>>

\* Faulty variant: going idle discards a chain head update that came after the
\* pointers were read.
GoIdleForgetsUpdate ==
    /\ stream = "done"
    /\ stream' = "idle"
    /\ woken' = FALSE
    /\ UNCHANGED <<ingestorVars, deploymentVars, head, pending, hits, cache>>

\* Reconciliation is complete: after update_subgraph_synced_status (not modelled
\* here), wait for a chain head update.
GoIdle ==
    /\ stream = "done"
    /\ stream' = "idle"
    /\ UNCHANGED <<ingestorVars, deploymentVars, head, pending, hits, woken, cache>>

\* Idle: the stream of chain head updates has one that was not seen.
HeadUpdate ==
    /\ stream = "idle"
    /\ woken
    /\ woken' = FALSE
    /\ stream' = "reconcile"
    /\ UNCHANGED <<ingestorVars, deploymentVars, head, pending, hits, cache>>

------------------------------------------------------------------------------
(***************************************************************************)
(* run_subgraph and process_block                                          *)
(***************************************************************************)

\* The blocks are yielded in the order of their numbers.
IsNextBlock(b) ==
    /\ stream = "yield"
    /\ b \in pending
    /\ \A c \in pending : Number[b] <= Number[c]

\* transact_block_operations rejects a block that is not ahead of block_ptr
\* (DuplicateBlockProcessing); else it writes the entities and moves the pointer.
AheadOfPointer(b) == block_ptr # NoBlock => Number[block_ptr] < Number[b]

TransactBlockOperations(b) ==
    /\ AheadOfPointer(b)
    /\ block_ptr' = b
    /\ applied' = applied \cup ({b} \cap hits)

\* The task ends and the deployment is marked as failed, if that can be written.
Fail ==
    /\ failed' \in {TRUE, failed}
    /\ stream' = "stopped"
    /\ pending' = {}
    /\ hits' = {}
    /\ cache' = {}

\* The block is processed.  If it created data sources, the stream is built
\* anew and the blocks it had in store are dropped.
ProcessBlock(b) ==
    /\ IsNextBlock(b)
    /\ TransactBlockOperations(b)
    /\ \/ /\ cache' = cache \cup ({b} \cap hits)
          /\ \/ /\ pending' = pending \ {b}
                /\ hits' = hits \ {b}
                /\ stream' = "yield"
             \/ /\ b \in hits
                /\ pending' = {}
                /\ hits' = {}
                /\ stream' = "reconcile"
          /\ UNCHANGED failed
       \/ NotifyMayFail /\ Fail
    /\ UNCHANGED <<ingestorVars, head, woken>>

\* A handler fails, or the store answers DuplicateBlockProcessing.
ProcessError(b) ==
    /\ IsNextBlock(b)
    /\ b \in hits \/ ~AheadOfPointer(b)
    /\ Fail
    /\ UNCHANGED <<ingestorVars, block_ptr, applied, head, woken>>

\* An eth_call of a handler finds the block gone: restart without the block.
PossibleReorg(b) ==
    /\ IsNextBlock(b)
    /\ b \in hits
    /\ stream' = "reconcile"
    /\ pending' = {}
    /\ hits' = {}
    /\ cache' = {}
    /\ UNCHANGED <<ingestorVars, deploymentVars, head, woken>>

\* handle_subgraph_events: the deployment is unassigned and its task cancelled.
StopSubgraph ==
    /\ stream # "stopped"
    /\ stream' = "stopped"
    /\ pending' = {}
    /\ hits' = {}
    /\ cache' = {}
    /\ UNCHANGED <<ingestorVars, deploymentVars, head, woken>>

\* start_subgraph, after a restart of the node or a new assignment: the
\* deployment is started again, from its pointer, and "unfailed".
Restart ==
    /\ stream' = "reconcile"
    /\ pending' = {}
    /\ hits' = {}
    /\ cache' = {}
    /\ failed' = FALSE
    /\ UNCHANGED <<ingestorVars, block_ptr, applied, head, woken>>

------------------------------------------------------------------------------
\* The slowest subgraph, for cleanup_cached_blocks: this one, unless it failed.
Slowest == IF block_ptr = NoBlock \/ failed THEN {} ELSE {Number[block_ptr]}

\* A step of the ingestor or of the Ethereum node; a new head is announced.
IngestorStep ==
    /\ \/ PollStep
       \/ CleanupCachedBlocks(Slowest)
       \/ \E b \in Block : NewHead(b)
    /\ woken' = (woken \/ chain_head' # chain_head)
    /\ UNCHANGED <<deploymentVars, streamVars, cache>>

IndexerStep ==
    \/ ReadPointers \/ CheckMainChain \/ WalkBack \/ LoadBlocks \/ RevertBlock
    \/ QueueEmpty \/ GoIdle \/ HeadUpdate
    \/ \E to \in Numbers : ScanRange(to)
    \/ \E b \in Block : ProcessBlock(b)

IndexerDisturbed ==
    \/ StreamError \/ StopSubgraph \/ Restart
    \/ \E b \in Block : ProcessError(b) \/ PossibleReorg(b)

IndexerNext == IngestorStep \/ IndexerStep \/ IndexerDisturbed

IndexerSpec == IndexerInit /\ [][IndexerNext]_systemVars

(***************************************************************************)
(* Fairness: the task of the subgraph is never abandoned.  Handlers,       *)
(* requests and processes may fail any number of times, but from some      *)
(* point on they no longer do.                                             *)
(***************************************************************************)
IndexerLiveSpec ==
    /\ IndexerSpec
    /\ <>[][IngestorStep \/ IndexerStep]_systemVars
    /\ WF_systemVars(IndexerStep)

------------------------------------------------------------------------------
\* The history of the subgraph's pointer.
IndexedPath == IF block_ptr = NoBlock THEN {} ELSE PathOf[block_ptr]

\* What the store holds is exactly the effect of the blocks with triggers on
\* the history of the pointer: none was skipped, by a scan or near the head,
\* and nothing of an abandoned fork is left.
AppliedMatchesPointer == applied = Triggers \cap IndexedPath

\* A deployment fails only because of its own handlers or of the database: the
\* stream never yields a block that the store rejects as a duplicate.
NeverDuplicate ==
    \A b \in Block : IsNextBlock(b) => AheadOfPointer(b)

\* The genesis block is never reverted ("genesis block cannot be reverted").
GenesisKept == ~(stream = "revert" /\ block_ptr = Genesis)

\* The entity cache holds nothing that has been reverted: what handlers load
\* from it is what the store holds ("on revert, clear the entity cache").
CacheFresh == cache \subseteq applied

\* The pointer goes forward only along one chain and back only by one block: it
\* never jumps from one fork to another, whatever the node and the head do
\* between the decision and the step.
StaysOnOneChain ==
    [][block_ptr' # block_ptr =>
          \/ block_ptr = NoBlock
          \/ block_ptr' = Parent[block_ptr]
          \/ block_ptr \in PathOf[block_ptr']
      ]_systemVars

\* When the chain head stops moving, a subgraph that has not been left stopped
\* gets to it and stays: no chain head update is lost between the decision to
\* stop and going idle, and no sequence of scans, steps and reverts goes on
\* forever, whatever errors and restarts came before.
CatchesUp ==
    /\ <>[][UNCHANGED chain_head]_systemVars
    /\ <>[](stream # "stopped")
    => <>[](block_ptr = chain_head)

\* Beyond the reorg threshold the subgraph goes on from a block only when that
\* block "was permanently accepted into the main chain" (get_next_step).
ForwardOnlyFromMainChain ==
    stream = "scan" /\ block_ptr # NoBlock => block_ptr \in final

\* What the store holds and what the stream yields agree with the pointer, after
\* every step of get_next_step, do_step and process_block: the data are those of
\* the pointer's chain, no block comes twice and the genesis block stays.
IndexerConsistent ==
    IndexerTypeOK /\ AppliedMatchesPointer /\ NeverDuplicate /\ GenesisKept
==============================================================================
