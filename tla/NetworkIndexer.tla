---------------------------- MODULE NetworkIndexer ----------------------------
(***************************************************************************)
(* The network indexer (chain/ethereum/src/network_indexer): a state       *)
(* machine that follows the Ethereum chain block by block, stores every    *)
(* block with its ommers in the network subgraph, and tells its consumers  *)
(* by an event of each block it adds and of each block it reverts.         *)
(*                                                                         *)
(* The node it asks switches between forks at any moment, blocks of one    *)
(* range are fetched concurrently (each one from the chain of the moment), *)
(* answers and transactions fail, the event channel may close, and the     *)
(* process may be killed between any two steps.  A store transaction is    *)
(* atomic; what reverting one restores is what EntityVersions shows, so    *)
(* the store is kept here as the stack of what each block left.            *)
(***************************************************************************)
EXTENDS BlockTree, Sequences, FiniteSets

CONSTANTS
    Ommers,       \* the ommers a block names, as a function
    MaxRange,     \* blocks fetched before the chain head is polled again (1000)
    Buffered      \* fetches that may be in flight at the same time (100)

\* A valid block names only ommers that are older than itself and not its own
\* ancestors.
ASSUME NetworkAssumption ==
    /\ Ommers \in [Block -> SUBSET Block]
    /\ \A b \in Block : \A o \in Ommers[b] : Number[o] < Number[b] /\ o \notin PathOf[b]
    /\ MaxRange \in Nat \ {0} /\ Buffered \in Nat \ {0}

VARIABLES
    step,         \* the state of StateMachine
    localHead,    \* local_head: the block the indexer believes it is at
    range,        \* next_blocks: the numbers still to come out of the stream
    fetched,      \* what the fetches in flight have answered, by number
    candidate,    \* the block VetBlock looks at, then the one being written
    deployed,     \* the network subgraph exists in the store
    stored,       \* the store: a stack of [ptr, kind], one per indexed block
    follower,     \* where the consumer of the events believes the indexer is
    closed,       \* the receiving end of the event channel is gone
    nodeHead      \* external: the head of the chain the Ethereum node serves

nvars == <<step, localHead, range, fetched, candidate, deployed, stored,
           follower, closed, nodeHead>>

Steps == {"Start", "EnsureSubgraph", "LoadLocalHead", "PollChainHead", "ProcessBlocks",
          "VetBlock", "RevertLocalHead", "SendRevert", "AddBlock", "SendAdd",
          "Failed"}
Unknown == [follower |-> "unknown"]      \* a consumer that has seen no event
NotFound == [fetch |-> "not found"]      \* no such block, or an ommer is missing
NumberOf(b) == IF b = NoBlock THEN -1 ELSE Number[b]
EmptyRange == [next |-> 0, end |-> 0]

\* block_ptr: the last block the store knows to be indexed.
StoredHead == IF stored = <<>> THEN NoBlock ELSE stored[Len(stored)].ptr
StoredKind == IF stored = <<>> THEN [b \in Block |-> "absent"]
                               ELSE stored[Len(stored)].kind

NetworkInit ==
    /\ step = "Start" /\ localHead = NoBlock /\ candidate = NoBlock
    /\ range = EmptyRange /\ fetched = <<>>
    /\ deployed = FALSE /\ stored = <<>>
    /\ follower = Unknown /\ closed = FALSE
    /\ nodeHead \in Block

----------------------------------------------------------------------------
(* The Ethereum node and the consumers of the events.                       *)

\* The node switches to another head, longer or shorter, on any fork.
NodeReorg ==
    /\ nodeHead' \in Block \ {nodeHead}
    /\ UNCHANGED <<step, localHead, range, fetched, candidate, deployed, stored, follower, closed>>

\* The block of the node's chain with this number, if it has one.
BlockByNumber(n) == {b \in PathOf[nodeHead] : Number[b] = n}

Answered(n, answer) ==
    [m \in DOMAIN fetched \cup {n} |-> IF m = n THEN answer ELSE fetched[m]]

Fetching == step \in {"ProcessBlocks", "VetBlock", "AddBlock", "SendAdd"}
InFlight == {n \in range.next .. (range.end - 1) :
               n < range.next + Buffered /\ n \notin DOMAIN fetched}

\* fetch_block_and_ommers_by_number: one of the buffered fetches is answered.
FetchBlock ==
    /\ Fetching
    /\ \E n \in InFlight :
          \E answer \in IF BlockByNumber(n) = {} THEN {NotFound} ELSE BlockByNumber(n) :
                fetched' = Answered(n, answer)
    /\ UNCHANGED <<step, localHead, range, candidate, deployed, stored, follower, closed, nodeHead>>

\* A block whose ommers cannot all be loaded counts as not found.
FetchMisses ==
    /\ Fetching
    /\ \E n \in InFlight : fetched' = Answered(n, NotFound)
    /\ UNCHANGED <<step, localHead, range, candidate, deployed, stored, follower, closed, nodeHead>>

\* The consumer drops its end of the channel: the node shuts down.
CloseChannel ==
    /\ ~closed /\ closed' = TRUE
    /\ UNCHANGED <<step, localHead, range, fetched, candidate, deployed, stored, follower, nodeHead>>

\* The process is killed and started again: only the store survives.
Restart ==
    /\ step' = "Start" /\ localHead' = NoBlock /\ candidate' = NoBlock
    /\ range' = EmptyRange /\ fetched' = <<>>
    /\ follower' = Unknown /\ closed' = FALSE
    /\ UNCHANGED <<deployed, stored, nodeHead>>

----------------------------------------------------------------------------
(* The states of the machine.  Each begins with poll_ready on the channel.  *)

\* Go to state s; the block stream of the state that is left is dropped.
GoTo(s) ==
    /\ step' = s /\ range' = EmptyRange /\ fetched' = <<>> /\ candidate' = NoBlock

\* try_ready!(context.event_sink.poll_ready()): a closed channel is fatal.
PollReadyFails ==
    /\ closed /\ step \in Steps \ {"SendRevert", "SendAdd", "Failed"}
    /\ GoTo("Failed")
    /\ UNCHANGED <<localHead, deployed, stored, follower, closed, nodeHead>>

Ready(s) == ~closed /\ step = s

poll_start ==
    /\ Ready("Start") /\ GoTo("EnsureSubgraph")
    /\ UNCHANGED <<localHead, deployed, stored, follower, closed, nodeHead>>

\* ensure_subgraph_exists: create the deployment if it is missing, in one
\* transaction; an error ends the indexer.
poll_ensure_subgraph ==
    /\ Ready("EnsureSubgraph") /\ GoTo("LoadLocalHead") /\ deployed' = TRUE
    /\ UNCHANGED <<localHead, stored, follower, closed, nodeHead>>
EnsureFails ==
    /\ Ready("EnsureSubgraph") /\ GoTo("Failed")
    /\ UNCHANGED <<localHead, deployed, stored, follower, closed, nodeHead>>

poll_load_local_head ==
    /\ Ready("LoadLocalHead") /\ GoTo("PollChainHead") /\ localHead' = StoredHead
    /\ UNCHANGED <<deployed, stored, follower, closed, nodeHead>>
LoadFails ==
    /\ Ready("LoadLocalHead") /\ GoTo("Failed")
    /\ UNCHANGED <<localHead, deployed, stored, follower, closed, nodeHead>>

\* The numbers to fetch for a chain head: from the block after the local head
\* to the chain head, at most MaxRange of them.
NextRange(chainHead) ==
    LET first == NumberOf(localHead) + 1
        remaining == Number[chainHead] + 1 - first
        size == IF remaining < MaxRange THEN remaining ELSE MaxRange
    IN  [next |-> first, end |-> first + size]

\* An error, a head without number or hash, the local head itself and a head
\* below the local head all mean: poll again.
poll_poll_chain_head ==
    /\ Ready("PollChainHead")
    /\ nodeHead # localHead /\ Number[nodeHead] >= NumberOf(localHead)
    /\ step' = "ProcessBlocks" /\ range' = NextRange(nodeHead)
    /\ fetched' = <<>> /\ candidate' = NoBlock
    /\ UNCHANGED <<localHead, deployed, stored, follower, closed, nodeHead>>

\* Faulty variant: a block that was not found does not end the stream.
NotFoundGoesOn ==
    /\ range.next >= range.end
    /\ GoTo("PollChainHead")

\* The stream ends with its range, or at the first block that was not found.
StreamEnds ==
    /\ \/ range.next >= range.end
       \/ range.next \in DOMAIN fetched /\ fetched[range.next] = NotFound
    /\ GoTo("PollChainHead")

\* The next block in order is there.
StreamYields ==
    /\ range.next \in DOMAIN fetched /\ fetched[range.next] # NotFound
    /\ step' = "VetBlock" /\ candidate' = fetched[range.next]
    /\ range' = [range EXCEPT !.next = @ + 1]
    /\ fetched' = [n \in DOMAIN fetched \ {range.next} |-> fetched[n]]

poll_process_blocks ==
    /\ Ready("ProcessBlocks")
    /\ StreamEnds \/ StreamYields
    /\ UNCHANGED <<localHead, deployed, stored, follower, closed, nodeHead>>
StreamFails ==
    /\ Ready("ProcessBlocks") /\ range.next < range.end
    /\ GoTo("PollChainHead")
    /\ UNCHANGED <<localHead, deployed, stored, follower, closed, nodeHead>>

\* Whether the block continues the local chain (parent_ptr() == local_head).
IsSuccessor == Parent[candidate] = localHead

\* The assertions of poll_vet_block on the block that came out of the stream.
VetAssertions ==
    IF localHead = NoBlock THEN Number[candidate] = 0 ELSE Number[candidate] > Number[localHead]

\* poll_vet_block: a failed assertion, a successor to add, or a reorg, which
\* reverts the local head by one block; without a local head that panics too.
poll_vet_block ==
    /\ Ready("VetBlock")
    /\ \/ /\ VetAssertions /\ IsSuccessor
          /\ step' = "AddBlock" /\ UNCHANGED <<range, fetched, candidate>>
       \/ VetAssertions /\ ~IsSuccessor /\ localHead # NoBlock /\ GoTo("RevertLocalHead")
    /\ UNCHANGED <<localHead, deployed, stored, follower, closed, nodeHead>>

\* The conditions under which poll_vet_block panics instead.
VetPanics ==
    Ready("VetBlock") /\ (VetAssertions => (~IsSuccessor /\ localHead = NoBlock))

\* revert_local_head: the parent is read from the entity of the local head and
\* the store reverts to it; a failure before that keeps the local head.
revert_local_head ==
    /\ Ready("RevertLocalHead")
    /\ StoredKind[localHead] # "absent" /\ StoredHead = localHead /\ Parent[localHead] # NoBlock
    /\ stored' = SubSeq(stored, 1, Len(stored) - 1)
    /\ step' = "SendRevert"
    /\ UNCHANGED <<localHead, range, fetched, candidate, deployed, follower, closed, nodeHead>>
RevertFails ==
    /\ Ready("RevertLocalHead") /\ GoTo("PollChainHead")
    /\ UNCHANGED <<localHead, deployed, stored, follower, closed, nodeHead>>

\* The Revert event.  Sent or not, the local head moves: the store has moved.
RevertSent ==
    /\ step = "SendRevert" /\ GoTo("PollChainHead")
    /\ localHead' = Parent[localHead]
    /\ follower' = IF closed THEN follower ELSE Parent[localHead]
    /\ UNCHANGED <<deployed, stored, closed, nodeHead>>

\* The entities a block writes: its own, then one per ommer.
BlockEntities(kind, block) ==
    [b \in Block |-> IF b \in Ommers[block] THEN "ommer"
                     ELSE IF b = block THEN "block" ELSE kind[b]]

\* Faulty variant: after a failure the indexer goes on from the head it had.
AddFailedKeepsHead == GoTo("PollChainHead")

\* A block that could not be written or announced: read the head again.
AddFailed == GoTo("LoadLocalHead")

\* BlockWriter::write in one transaction, which a failure rolls back.
WriteBlock ==
    /\ Ready("AddBlock")
    /\ stored' = Append(stored, [ptr  |-> candidate,
                                 kind |-> BlockEntities(StoredKind, candidate)])
    /\ step' = "SendAdd"
    /\ UNCHANGED <<localHead, range, fetched, candidate, deployed, follower, closed, nodeHead>>
WriteFails ==
    /\ Ready("AddBlock") /\ AddFailed
    /\ UNCHANGED <<localHead, deployed, stored, follower, closed, nodeHead>>

\* The AddBlock event, then poll_add_block.  When the event cannot be sent the
\* block is in the store already.
AddSent ==
    /\ step = "SendAdd"
    /\ \/ /\ ~closed /\ follower' = candidate /\ localHead' = candidate
          /\ step' = "ProcessBlocks" /\ candidate' = NoBlock /\ UNCHANGED <<range, fetched>>
       \/ closed /\ AddFailed /\ UNCHANGED <<localHead, follower>>
    /\ UNCHANGED <<deployed, stored, closed, nodeHead>>

Progress ==
    \/ poll_start \/ poll_ensure_subgraph \/ poll_load_local_head
    \/ poll_poll_chain_head \/ poll_process_blocks \/ poll_vet_block
    \/ revert_local_head \/ RevertSent \/ WriteBlock \/ AddSent \/ PollReadyFails

\* What can go wrong around the machine: store and node errors.
Fault == EnsureFails \/ LoadFails \/ StreamFails \/ FetchMisses \/ RevertFails \/ WriteFails

NetworkNext == Progress \/ Fault \/ FetchBlock \/ NodeReorg \/ CloseChannel \/ Restart

\* The runtime keeps polling the machine and every request is answered.
NetworkFairness == WF_nvars(Progress) /\ WF_nvars(FetchBlock)

NetworkSpec == NetworkInit /\ [][NetworkNext]_nvars /\ NetworkFairness

----------------------------------------------------------------------------
(* Properties.                                                              *)

\* The state machine is in one of its states, its heads and candidates are
\* blocks, and what was fetched belongs to the range that is being fetched.
NetworkTypeOK ==
    /\ step \in Steps /\ localHead \in Block \cup {NoBlock} /\ candidate \in Block \cup {NoBlock}
    /\ range \in [next : Nat, end : Nat] /\ DOMAIN fetched \subseteq range.next .. range.end
    /\ \A n \in DOMAIN fetched : fetched[n] \in Block \cup {NotFound}
    /\ deployed \in BOOLEAN /\ closed \in BOOLEAN /\ nodeHead \in Block
    /\ \A i \in 1 .. Len(stored) : stored[i].ptr \in Block
    /\ follower \in Block \cup {Unknown}

\* Whenever the machine decides from local_head (which blocks to fetch, whether
\* a block is a successor, what to revert), it is the head the store has: no
\* failed write, failed revert, lost event or restart leaves it behind.
LocalHeadIsStored ==
    step \in {"PollChainHead", "ProcessBlocks", "VetBlock", "AddBlock", "RevertLocalHead"}
        => localHead = StoredHead

\* "By checking parent/child succession, we ensure that there are no gaps in the
\* indexed data": the Block entities of the store are exactly the history of the
\* stored head, and those marked isOmmer exactly the ommers that history names,
\* also after reorgs in which a block changes from one to the other.
IndexedDataIsOneChain ==
    LET path == IF StoredHead = NoBlock THEN {} ELSE PathOf[StoredHead]
    IN  \A b \in Block :
          /\ StoredKind[b] = "block" <=> b \in path
          /\ StoredKind[b] = "ommer" <=> \E c \in path : b \in Ommers[c]

\* The assertions and the expect of poll_vet_block never fire, whatever the node
\* answers and whichever step fails.
VetNeverPanics == ~VetPanics

\* A consumer that has seen an event is where the store is, unless the store has
\* just moved and the event is being sent, or the channel is closed.
FollowerAgrees ==
    follower = Unknown \/ closed \/ step \in {"SendRevert", "SendAdd"} \/ follower = StoredHead

\* The stored head only ever moves to a child or back to its parent.
HeadMovesByOneBlock ==
    [][LET h == StoredHead IN
         h' # h => \/ h' # NoBlock /\ Parent[h'] = h
                   \/ h # NoBlock /\ Parent[h] = h']_nvars

\* Once the node stays with one chain and nothing fails any more, the indexer
\* reaches its head, unless the local chain is already as long: the comment on
\* VetBlock, "Ultimately, this will take us back to the common ancestor, and at
\* that point we can move forward again".
NetworkCatchesUp ==
    (/\ <>[][UNCHANGED nodeHead /\ ~Fault /\ ~Restart]_nvars
     /\ <>[](step # "Failed" /\ ~closed))
       => <>[](localHead = nodeHead \/ NumberOf(localHead) >= Number[nodeHead])

\* The store of the network indexer is one chain, its machine and the followers
\* of its events are where the store is, and poll_vet_block never panics.
NetworkConsistent ==
    /\ NetworkTypeOK /\ LocalHeadIsStored /\ IndexedDataIsOneChain
    /\ VetNeverPanics /\ FollowerAgrees

\* The network indexer follows the chain: block by block, back and forth, and to
\* its head in the end.
NetworkFollows == HeadMovesByOneBlock /\ NetworkCatchesUp
============================================================================
