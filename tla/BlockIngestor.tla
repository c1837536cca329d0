---------------------------- MODULE BlockIngestor ----------------------------
(***************************************************************************)
(* The block ingestor (chain/ethereum/src/block_ingestor.rs): one process  *)
(* that polls the Ethereum node, copies the latest block and its missing   *)
(* ancestors into the chain store and moves the chain head.  A poll is a   *)
(* sequence of awaits; between any two of them the node may reorganise its *)
(* chain, the block streams may use the same cache, and the process may    *)
(* crash.  The Ethereum node is external: it reports a latest block and    *)
(* serves blocks by hash, and a block with ReorgThreshold confirmations in *)
(* a chain it has reported is permanent (block_stream.rs: "eventually, the *)
(* probability is so low, that a block is effectively permanent").         *)
(***************************************************************************)
EXTENDS ChainStore

CONSTANT ReorgThreshold   \* ETHEREUM_REORG_THRESHOLD

\* assert!(*ANCESTOR_COUNT >= *REORG_THRESHOLD) in node/src/main.rs.
ASSUME ThresholdAssumption ==
    ReorgThreshold \in Nat \ {0} /\ ReorgThreshold <= AncestorCount

VARIABLES
    latest,   \* the node's latest block
    final,    \* the blocks that have become permanent
    pc,       \* where do_poll is
    seen,     \* do_poll's head_block_ptr_opt
    block,    \* the block do_poll has asked for or holds
    rounds    \* iterations of do_poll's loop so far in this poll

nodeVars == <<latest, final>>
pollVars == <<pc, seen, block, rounds>>
ingestorVars == <<storeVars, nodeVars, pollVars>>

PollState == {"idle", "header", "latest", "get", "ingest", "update", "cleanup"}

Numbers == {Number[b] : b \in Block}

\* The type invariant: the ingestor is between polls or at one await of a poll,
\* and what it has seen or fetched are blocks of the tree.
TypeOK ==
    /\ ethereum_blocks \in [Block -> CacheState]
    /\ chain_head \in Block \cup {NoBlock}
    /\ latest \in Block
    /\ final \in SUBSET Block
    /\ pc \in PollState
    /\ seen \in Block \cup {NoBlock}
    /\ block \in Block \cup {NoBlock}
    /\ rounds \in Nat

Init ==
    /\ ethereum_blocks = [b \in Block |-> "absent"]
    /\ chain_head = NoBlock
    /\ latest = Genesis
    /\ final = Confirmed(Genesis, ReorgThreshold)
    /\ pc = "idle"
    /\ seen = NoBlock
    /\ block = NoBlock
    /\ rounds = 0

------------------------------------------------------------------------------
\* The node adopts b, which may be on another fork and may have a lower
\* number, but extends every block that has become permanent.
NewHead(b) ==
    /\ b # latest
    /\ final \subseteq PathOf[b]
    /\ latest' = b
    /\ final' = final \cup Confirmed(b, ReorgThreshold)
    /\ UNCHANGED <<storeVars, pollVars>>

\* eth_getBlockByNumber: the node's block with number n, if it has one.
NodeBlock(n) == {b \in PathOf[latest] : Number[b] = n}

------------------------------------------------------------------------------
(***************************************************************************)
(* do_poll                                                                 *)
(***************************************************************************)

\* chain_head_ptr
PollStart ==
    /\ pc = "idle"
    /\ seen' = chain_head
    /\ pc' = "header"
    /\ rounds' = 0
    /\ UNCHANGED <<storeVars, nodeVars, block>>

\* latest_block_header, and the early return when nothing is new.
LatestHeader ==
    /\ pc = "header"
    /\ pc' = IF latest = seen THEN "cleanup" ELSE "latest"
    /\ UNCHANGED <<storeVars, nodeVars, seen, block, rounds>>

\* latest_block and load_full_block: a second request, which may answer with
\* another block than the header did.
LatestBlock ==
    /\ pc = "latest"
    /\ block' = latest
    /\ pc' = "ingest"
    /\ UNCHANGED <<storeVars, nodeVars, seen, rounds>>

\* ingest_blocks, first half: upsert_blocks.
IngestBlock ==
    /\ pc = "ingest"
    /\ UpsertBlocks({block})
    /\ pc' = "update"
    /\ UNCHANGED <<chain_head, nodeVars, seen, block, rounds>>

\* ingest_blocks, second half: attempt_chain_head_update finds no candidate.
UpdateNoCandidate ==
    /\ pc = "update"
    /\ AboveHead = {}
    /\ pc' = "cleanup"
    /\ UNCHANGED <<storeVars, nodeVars, seen, block, rounds>>

\* attempt_chain_head_update moves the head.
UpdateHead ==
    /\ pc = "update"
    /\ \E c \in Block : SetChainHead(c)
    /\ pc' = "cleanup"
    /\ UNCHANGED <<ethereum_blocks, nodeVars, seen, block, rounds>>

\* attempt_chain_head_update returns a missing parent: another loop iteration.
UpdateMissing ==
    /\ pc = "update"
    /\ \E c \in Block : /\ IsHeadCandidate(c)
                        /\ \E m \in MissingParents(c) : block' = m
    /\ pc' = "get"
    /\ rounds' = rounds + 1
    /\ UNCHANGED <<storeVars, nodeVars, seen>>

\* get_blocks succeeds: block_by_hash, then load_full_block.
GetBlock ==
    /\ pc = "get"
    /\ pc' = "ingest"
    /\ UNCHANGED <<storeVars, nodeVars, seen, block, rounds>>

\* get_blocks fails: the node does not have the block (BlockUnavailable), or
\* the request fails.  The poll ends; the error is only logged.
BlockUnavailable ==
    /\ pc = "get"
    /\ pc' = "cleanup"
    /\ UNCHANGED <<storeVars, nodeVars, seen, block, rounds>>

\* Faulty variant: an error leaves the poll in a state that nothing handles.
PollErrorUnhandled ==
    /\ pc \in {"header", "latest", "ingest", "update"}
    /\ pc' = "error"
    /\ UNCHANGED <<storeVars, nodeVars, seen, block, rounds>>

\* Another request to the node or to the database fails, with the same effect.
PollError ==
    /\ pc \in {"header", "latest", "ingest", "update"}
    /\ pc' = "cleanup"
    /\ UNCHANGED <<storeVars, nodeVars, seen, block, rounds>>

\* into_polling_stream: with CLEANUP_BLOCKS set, clean the cache, then sleep.
CleanupCachedBlocks(slowest) ==
    /\ pc = "cleanup"
    /\ Delete(CleanupRows(slowest))
    /\ pc' = "idle"
    /\ UNCHANGED <<chain_head, nodeVars, seen, block, rounds>>

\* CLEANUP_BLOCKS is not set, or the clean-up fails.
SkipCleanup ==
    /\ pc = "cleanup"
    /\ pc' = "idle"
    /\ UNCHANGED <<storeVars, nodeVars, seen, block, rounds>>

\* The process dies and is restarted: only the database survives.
Crash ==
    /\ pc # "idle"
    /\ pc' = "idle"
    /\ seen' = NoBlock
    /\ block' = NoBlock
    /\ rounds' = 0
    /\ UNCHANGED <<storeVars, nodeVars>>

------------------------------------------------------------------------------
(***************************************************************************)
(* What the block streams do to the cache, seen from here: they insert     *)
(* blocks without receipts and drop ommers, both only at numbers with at   *)
(* least ReorgThreshold confirmations below the chain head.                *)
(***************************************************************************)
StreamLoadsBlocks(S) ==
    /\ chain_head # NoBlock
    /\ \A b \in S : Number[b] + ReorgThreshold <= Number[chain_head]
    /\ UpsertLightBlocks(S)
    /\ UNCHANGED <<chain_head, nodeVars, pollVars>>

StreamConfirmsBlock(n) ==
    /\ chain_head # NoBlock
    /\ n + ReorgThreshold <= Number[chain_head]
    /\ \E b \in NodeBlock(n) : ConfirmBlockHash(n, b)
    /\ UNCHANGED <<chain_head, nodeVars, pollVars>>

------------------------------------------------------------------------------
\* No subgraph is indexing the network, or the slowest one is at a block that
\* is no higher than the chain head (block streams stop at the head).
SlowestSubgraph == {{}} \cup {{n} : n \in {k \in Numbers : k <= HeadNumber}}

PollStep ==
    \/ PollStart \/ LatestHeader \/ LatestBlock \/ IngestBlock
    \/ UpdateNoCandidate \/ UpdateHead \/ UpdateMissing
    \/ GetBlock \/ BlockUnavailable
    \/ SkipCleanup

Poll ==
    \/ PollStep
    \/ \E slowest \in SlowestSubgraph : CleanupCachedBlocks(slowest)

Environment ==
    \/ \E b \in Block : NewHead(b)
    \/ \E S \in SUBSET Block : StreamLoadsBlocks(S)
    \/ \E n \in Numbers : StreamConfirmsBlock(n)

Next == Poll \/ PollError \/ Crash \/ Environment

Spec == Init /\ [][Next]_ingestorVars

(***************************************************************************)
(* Fairness: the polling task is never abandoned (into_polling_stream is   *)
(* an endless loop), and a block of the node's own chain that is requested *)
(* again and again is delivered in the end.  LiveSpec is about a process   *)
(* that may crash and fail any number of times, but from some point on     *)
(* meets only the errors of get_blocks, the ones that leave a chain half   *)
(* ingested.                                                               *)
(***************************************************************************)
PollFairness ==
    /\ WF_ingestorVars(Poll)
    /\ SF_ingestorVars(GetBlock /\ block \in PathOf[latest])

LiveSpec == Spec /\ <>[][Poll \/ Environment]_ingestorVars /\ PollFairness

------------------------------------------------------------------------------
\* The head and its AncestorCount most recent ancestors are in the cache, with
\* their receipts: what block_stream.rs calls the "helpful guarantee" of the
\* ingestor's design, on which the block streams build when they are near the
\* head (a block cached without receipts would look like one without events).
HeadAncestorsPresent ==
    chain_head # NoBlock =>
        \A a \in {chain_head} \cup RequiredAncestors(chain_head) :
            ethereum_blocks[a] = "full"

\* The comment in do_poll: "the loop will iterate at most ancestor_count times".
LoopBound == rounds <= AncestorCount

\* The chain head is never given up and its number only grows, although the
\* node's own latest block may go back: block streams rely on it when they
\* keep using a head they read earlier.
HeadOnlyGrows ==
    [][chain_head' # chain_head =>
          /\ chain_head' # NoBlock
          /\ chain_head # NoBlock => Number[chain_head'] > Number[chain_head]
      ]_ingestorVars

\* When the node settles on a block that beats everything in the cache, the
\* chain head reaches its height, whatever failed or was half done before.  (It
\* need not be that block: a reorganisation to a sibling of the head with the
\* same number does not move the head until the chain grows.)
Converges ==
    /\ <>[][UNCHANGED latest]_ingestorVars
    /\ <>[](\A c \in Cached \ {latest} : Better(latest, c))
    => []<>(HeadNumber >= Number[latest])
==============================================================================
