--------------------------- MODULE ServicesProofs ---------------------------
(***************************************************************************)
(* Proofs about services of a node that share nothing: the network indexer,*)
(* the assignments an index node follows, the caches in front of query     *)
(* execution, and subscriptions.                                           *)
(***************************************************************************)
EXTENDS NetworkIndexer, NodeAssignments, QueryCaching, Subscriptions, BlockTreeProofs,
        FiniteSetTheorems, SequenceTheorems

-----------------------------------------------------------------------------
(***************************************************************************)
(* Proofs about NetworkIndexer, for every tree of blocks and ommers, range *)
(* and number of buffered fetches: the store holds exactly one chain, the  *)
(* machine and its consumers are where the store is, poll_vet_block never  *)
(* panics (NetworkConsistent), and the stored head moves by single blocks  *)
(* (HeadMovesByOneBlock).                                                  *)
(*                                                                         *)
(* None of it is inductive by itself.  A revert takes the store back to    *)
(* what it was below the head, so each entry of the stack has to be right, *)
(* not only the last (StackOK); that a block from the stream continues the *)
(* numbers of the local chain has to be known while it is fetched          *)
(* (StreamOK); and while an event is sent the store is one block ahead of, *)
(* or behind, the local head (HeadOK).                                     *)
(***************************************************************************)

\* The entities are exactly the blocks of a history and the ommers it names.
ChainOf(kind, path) ==
    \A b \in Block : /\ kind[b] = "block" <=> b \in path
                     /\ kind[b] = "ommer" <=> \E c \in path : b \in Ommers[c]

StoredEntry == [ptr : Block, kind : [Block -> {"absent", "block", "ommer"}]]

\* Every entry of the stack is one block on top of the one below it, and holds
\* what the history of its block leaves.
StackOK ==
    /\ stored \in Seq(StoredEntry)
    /\ \A i \in 1 .. Len(stored) :
          /\ Parent[stored[i].ptr] = IF i = 1 THEN NoBlock ELSE stored[i - 1].ptr
          /\ ChainOf(stored[i].kind, PathOf[stored[i].ptr])

\* What is fetched has the number it was fetched for, and what comes out of the
\* stream next is one above the local head.
StreamOK ==
    /\ \A n \in DOMAIN fetched :
          fetched[n] # NotFound => fetched[n] \in Block /\ Number[fetched[n]] = n
    /\ step = "ProcessBlocks" => range.next = NumberOf(localHead) + 1
    /\ step \in {"VetBlock", "AddBlock", "SendAdd"} =>
          /\ candidate \in Block /\ Number[candidate] = NumberOf(localHead) + 1
          /\ range.next = Number[candidate] + 1

\* How the local head and the stored head differ while an event is sent.
HeadOK ==
    /\ LocalHeadIsStored
    /\ step = "RevertLocalHead" => localHead \in Block
    /\ step \in {"AddBlock", "SendAdd"} => Parent[candidate] = localHead
    /\ step = "SendAdd" => StoredHead = candidate
    /\ step = "SendRevert" =>
          localHead \in Block /\ Parent[localHead] = StoredHead /\ StoredHead \in Block

NetInv == NetworkTypeOK /\ StackOK /\ StreamOK /\ HeadOK /\ FollowerAgrees

----------------------------------------------------------------------------
(* The store.                                                               *)

\* The head of the stack and what is in it.
LEMMA StoredFacts ==
    ASSUME StackOK
    PROVE  /\ StoredHead \in Block \cup {NoBlock}
           /\ StoredHead = NoBlock <=> stored = <<>>
           /\ StoredKind \in [Block -> {"absent", "block", "ommer"}]
           /\ StoredHead = NoBlock => ChainOf(StoredKind, {})
           /\ StoredHead # NoBlock => ChainOf(StoredKind, PathOf[StoredHead])
<1>1. CASE stored = <<>>
  BY <1>1, TreeAssumption DEF StoredHead, StoredKind, ChainOf
<1>2. CASE stored # <<>>
  <2>1. Len(stored) \in 1 .. Len(stored) /\ stored[Len(stored)] \in StoredEntry
    BY <1>2 DEF StackOK
  <2>2. StoredHead = stored[Len(stored)].ptr /\ StoredKind = stored[Len(stored)].kind
    BY <1>2 DEF StoredHead, StoredKind
  <2>3. ChainOf(StoredKind, PathOf[StoredHead])
    BY <2>1, <2>2 DEF StackOK
  <2>. QED  BY <1>2, <2>1, <2>2, <2>3, TreeAssumption DEF StoredEntry
<1>. QED  BY <1>1, <1>2

\* A block on top of the head: BlockEntities turns the entities of the history of
\* its parent into those of its own.
LEMMA EntitiesOfBlock ==
    ASSUME NEW b \in Block, NEW kind \in [Block -> {"absent", "block", "ommer"}],
           Parent[b] = NoBlock => ChainOf(kind, {}),
           Parent[b] # NoBlock => Parent[b] \in Block /\ ChainOf(kind, PathOf[Parent[b]])
    PROVE  /\ BlockEntities(kind, b) \in [Block -> {"absent", "block", "ommer"}]
           /\ ChainOf(BlockEntities(kind, b), PathOf[b])
<1>. DEFINE below == IF Parent[b] = NoBlock THEN {} ELSE PathOf[Parent[b]]
            now == BlockEntities(kind, b)
<1>1. now \in [Block -> {"absent", "block", "ommer"}]
  BY DEF BlockEntities
<1>2. PathOf[b] = {b} \cup below /\ below \subseteq Block
  <2>1. b = Genesis <=> Parent[b] = NoBlock
    BY TreeAssumption
  <2>. QED  BY <2>1, PathUnfold, PathClosed
<1>3. ChainOf(kind, below)
  OBVIOUS
<1>4. \A c \in below : Number[c] < Number[b] /\ c # b
  <2>. SUFFICES ASSUME NEW c \in below PROVE Number[c] < Number[b] /\ c # b
    OBVIOUS
  <2>1. Parent[b] \in Block /\ c \in PathOf[Parent[b]] /\ b # Genesis
    BY TreeAssumption
  <2>2. Number[c] <= Number[Parent[b]] /\ Number[b] = Number[Parent[b]] + 1
    BY <2>1, PathNumbers, TreeAssumption
  <2>3. Number[c] \in Nat /\ Number[Parent[b]] \in Nat
    BY <1>2, <2>1, TreeAssumption
  <2>. QED  BY <2>2, <2>3
<1>5. /\ Ommers \in [Block -> SUBSET Block]
      /\ \A c \in below : b \notin Ommers[c]
      /\ \A c \in PathOf[b] : c \notin Ommers[b]
  <2>1. ASSUME NEW c \in below, b \in Ommers[c]
        PROVE  FALSE
    <3>1. Number[b] < Number[c] /\ Number[c] < Number[b]
      BY <1>2, <1>4, <2>1, NetworkAssumption
    <3>2. Number[b] \in Nat /\ Number[c] \in Nat
      BY <1>2, TreeAssumption
    <3>. QED  BY <3>1, <3>2
  <2>. QED  BY <2>1, NetworkAssumption
<1>. HIDE DEF below
<1>6. ASSUME NEW x \in Block
      PROVE  /\ now[x] = "block" <=> x \in PathOf[b]
             /\ now[x] = "ommer" <=> \E c \in PathOf[b] : x \in Ommers[c]
  <2>1. now[x] = IF x \in Ommers[b] THEN "ommer" ELSE IF x = b THEN "block" ELSE kind[x]
    BY DEF BlockEntities
  <2>2. /\ kind[x] = "block" <=> x \in below
        /\ kind[x] = "ommer" <=> \E c \in below : x \in Ommers[c]
    BY <1>3 DEF ChainOf
  <2>. HIDE DEF now
  <2>3. now[x] = "block" <=> x \in PathOf[b]
    BY <1>2, <1>5, <2>1, <2>2
  <2>4. now[x] = "ommer" <=> \E c \in PathOf[b] : x \in Ommers[c]
    BY <1>2, <1>5, <2>1, <2>2
  <2>. QED  BY <2>3, <2>4
<1>. QED  BY <1>1, <1>6 DEF ChainOf

\* The stack does not change.
LEMMA StoredKept ==
    ASSUME StackOK, stored' = stored
    PROVE  StackOK' /\ StoredHead' = StoredHead /\ StoredKind' = StoredKind
  BY DEF StackOK, StoredHead, StoredKind, ChainOf

----------------------------------------------------------------------------
(* The machine.                                                             *)

\* What NextRange gives for a head that is not below the local one.
LEMMA RangeFacts ==
    ASSUME NEW h \in Block, localHead \in Block \cup {NoBlock}, Number[h] >= NumberOf(localHead)
    PROVE  NextRange(h) \in [next : Nat, end : Nat] /\ NextRange(h).next = NumberOf(localHead) + 1
<1>1. NumberOf(localHead) \in Int /\ NumberOf(localHead) + 1 \in Nat /\ Number[h] \in Nat
  BY TreeAssumption DEF NumberOf
<1>. QED  BY <1>1, NetworkAssumption DEF NextRange

\* A transition that drops the stream and leaves the store alone.
LEMMA GoToKeeps ==
    ASSUME NetInv, NEW s \in {"EnsureSubgraph", "LoadLocalHead", "PollChainHead", "RevertLocalHead",
                              "Failed"},
           GoTo(s), stored' = stored, nodeHead' = nodeHead, closed' = closed, deployed' \in BOOLEAN,
           localHead' \in Block \cup {NoBlock}, follower' \in Block \cup {Unknown},
           s \in {"PollChainHead", "RevertLocalHead"} => localHead' = StoredHead,
           s = "RevertLocalHead" => localHead' \in Block,
           follower' = Unknown \/ closed \/ follower' = StoredHead
    PROVE  NetInv'
<1>1. StackOK' /\ StoredHead' = StoredHead
  BY StoredKept DEF NetInv
<1>2. /\ step' = s /\ range' = EmptyRange /\ fetched' = <<>> /\ candidate' = NoBlock
      /\ DOMAIN fetched' = {}
  BY DEF GoTo
<1>3. NetworkTypeOK'
  BY <1>2 DEF NetInv, NetworkTypeOK, EmptyRange, Steps
<1>4. StreamOK'
  BY <1>2 DEF StreamOK
<1>5. HeadOK'
  BY <1>1, <1>2 DEF HeadOK, LocalHeadIsStored
<1>6. FollowerAgrees'
  BY <1>1 DEF FollowerAgrees
<1>. QED  BY <1>1, <1>3, <1>4, <1>5, <1>6 DEF NetInv

\* The steps that end in such a transition.
LEMMA TransitionsKeep ==
    ASSUME NetInv,
           \/ PollReadyFails \/ poll_start \/ poll_ensure_subgraph \/ EnsureFails
           \/ poll_load_local_head \/ LoadFails \/ StreamFails \/ RevertFails \/ WriteFails
           \/ RevertSent
           \/ poll_process_blocks /\ StreamEnds
           \/ poll_vet_block /\ GoTo("RevertLocalHead")
           \/ AddSent /\ closed
    PROVE  NetInv'
<1>0. /\ StoredHead \in Block \cup {NoBlock} /\ localHead \in Block \cup {NoBlock}
      /\ follower \in Block \cup {Unknown} /\ deployed \in BOOLEAN /\ StackOK
  BY StoredFacts DEF NetInv, NetworkTypeOK
<1>1. step \notin {"SendRevert", "SendAdd"} => follower = Unknown \/ closed \/ follower = StoredHead
  BY DEF NetInv, FollowerAgrees
<1>2. step \in {"ProcessBlocks", "VetBlock", "RevertLocalHead"} => localHead = StoredHead
  BY DEF NetInv, HeadOK, LocalHeadIsStored
<1>3. CASE PollReadyFails
  BY <1>0, <1>1, <1>3, GoToKeeps DEF PollReadyFails
<1>4. CASE poll_start
  BY <1>0, <1>1, <1>4, GoToKeeps DEF poll_start, Ready
<1>5. CASE poll_ensure_subgraph
  BY <1>0, <1>1, <1>5, GoToKeeps DEF poll_ensure_subgraph, Ready
<1>6. CASE EnsureFails
  BY <1>0, <1>1, <1>6, GoToKeeps DEF EnsureFails, Ready
<1>7. CASE poll_load_local_head
  BY <1>0, <1>1, <1>7, GoToKeeps DEF poll_load_local_head, Ready
<1>8. CASE LoadFails
  BY <1>0, <1>1, <1>8, GoToKeeps DEF LoadFails, Ready
<1>9. CASE StreamFails
  BY <1>0, <1>1, <1>2, <1>9, GoToKeeps DEF StreamFails, Ready
<1>10. CASE RevertFails
  BY <1>0, <1>1, <1>2, <1>10, GoToKeeps DEF RevertFails, Ready
<1>11. CASE WriteFails
  BY <1>0, <1>1, <1>11, GoToKeeps DEF WriteFails, Ready, AddFailed
<1>12. CASE RevertSent
  <2>1. step = "SendRevert"
    BY <1>12 DEF RevertSent
  <2>2. localHead \in Block /\ Parent[localHead] = StoredHead /\ StoredHead \in Block
    BY <2>1 DEF NetInv, HeadOK
  <2>. QED  BY <1>0, <1>12, <2>2, GoToKeeps DEF RevertSent
<1>13. CASE poll_process_blocks /\ StreamEnds
  BY <1>0, <1>1, <1>2, <1>13, GoToKeeps DEF poll_process_blocks, StreamEnds, Ready
<1>14. CASE poll_vet_block /\ GoTo("RevertLocalHead")
  <2>1. localHead # NoBlock
    BY <1>14 DEF poll_vet_block, GoTo
  <2>. QED  BY <1>0, <1>1, <1>2, <1>14, <2>1, GoToKeeps DEF poll_vet_block, Ready
<1>15. CASE AddSent /\ closed
  BY <1>0, <1>15, GoToKeeps DEF AddSent, AddFailed
<1>. QED  BY <1>3, <1>4, <1>5, <1>6, <1>7, <1>8, <1>9, <1>10, <1>11, <1>12, <1>13, <1>14, <1>15

\* An answer for a number that is being fetched.
LEMMA AnswerKeeps ==
    ASSUME NetInv, NEW n \in InFlight, NEW answer,
           answer = NotFound \/ (answer \in Block /\ Number[answer] = n),
           fetched' = Answered(n, answer),
           UNCHANGED <<step, localHead, range, candidate, deployed, stored, follower, closed, nodeHead>>
    PROVE  NetInv'
<1>1. StackOK' /\ StoredHead' = StoredHead
  BY StoredKept DEF NetInv
<1>2. /\ DOMAIN fetched' = DOMAIN fetched \cup {n}
      /\ \A m \in DOMAIN fetched' : fetched'[m] = IF m = n THEN answer ELSE fetched[m]
  BY DEF Answered
<1>3. range \in [next : Nat, end : Nat] /\ n \in range.next .. range.end
  BY DEF NetInv, NetworkTypeOK, InFlight
<1>4. NetworkTypeOK'
  <2>1. /\ DOMAIN fetched' \subseteq range.next .. range.end
        /\ \A m \in DOMAIN fetched' : fetched'[m] \in Block \cup {NotFound}
    BY <1>2, <1>3 DEF NetInv, NetworkTypeOK
  <2>. QED  BY <2>1 DEF NetInv, NetworkTypeOK
<1>5. StreamOK'
  <2>1. \A m \in DOMAIN fetched' :
           fetched'[m] # NotFound => fetched'[m] \in Block /\ Number[fetched'[m]] = m
    BY <1>2 DEF NetInv, StreamOK
  <2>. QED  BY <2>1 DEF NetInv, StreamOK, NumberOf
<1>6. HeadOK' /\ FollowerAgrees'
  BY <1>1 DEF NetInv, HeadOK, LocalHeadIsStored, FollowerAgrees
<1>. QED  BY <1>1, <1>4, <1>5, <1>6 DEF NetInv

\* The steps of the node, the network and the process.
LEMMA EnvironmentKeeps ==
    ASSUME NetInv, FetchBlock \/ FetchMisses \/ NodeReorg \/ CloseChannel \/ Restart
    PROVE  NetInv'
<1>0. StackOK
  BY DEF NetInv
<1>1. CASE FetchBlock
  <2>1. PICK n \in InFlight : \E answer \in IF BlockByNumber(n) = {} THEN {NotFound} ELSE BlockByNumber(n) :
           fetched' = Answered(n, answer)
    BY <1>1 DEF FetchBlock
  <2>2. PICK answer \in IF BlockByNumber(n) = {} THEN {NotFound} ELSE BlockByNumber(n) :
           fetched' = Answered(n, answer)
    BY <2>1
  <2>3. answer = NotFound \/ (answer \in Block /\ Number[answer] = n)
    <3>1. nodeHead \in Block
      BY DEF NetInv, NetworkTypeOK
    <3>2. PathOf[nodeHead] \subseteq Block
      BY <3>1, PathClosed
    <3>. QED  BY <3>2 DEF BlockByNumber
  <2>. QED  BY <1>1, <2>2, <2>3, AnswerKeeps DEF FetchBlock
<1>2. CASE FetchMisses
  <2>1. PICK n \in InFlight : fetched' = Answered(n, NotFound)
    BY <1>2 DEF FetchMisses
  <2>. QED  BY <1>2, <2>1, AnswerKeeps DEF FetchMisses
<1>3. CASE NodeReorg \/ CloseChannel
  <2>1. /\ UNCHANGED <<step, localHead, range, fetched, candidate, deployed, stored, follower>>
        /\ nodeHead' \in Block /\ closed' \in BOOLEAN /\ (closed => closed')
    BY <1>3 DEF NodeReorg, CloseChannel, NetInv, NetworkTypeOK
  <2>2. StackOK' /\ StoredHead' = StoredHead
    BY <1>0, <2>1, StoredKept
  <2>3. NetworkTypeOK'
    BY <2>1 DEF NetInv, NetworkTypeOK
  <2>4. StreamOK'
    BY <2>1 DEF NetInv, StreamOK, NumberOf
  <2>5. HeadOK' /\ FollowerAgrees'
    BY <2>1, <2>2 DEF NetInv, HeadOK, LocalHeadIsStored, FollowerAgrees
  <2>. QED  BY <2>2, <2>3, <2>4, <2>5 DEF NetInv
<1>4. CASE Restart
  <2>1. /\ step' = "Start" /\ localHead' = NoBlock /\ candidate' = NoBlock /\ range' = EmptyRange
        /\ fetched' = <<>> /\ follower' = Unknown /\ closed' = FALSE
        /\ deployed' = deployed /\ stored' = stored /\ nodeHead' = nodeHead /\ DOMAIN fetched' = {}
    BY <1>4 DEF Restart
  <2>2. StackOK'
    BY <1>0, <2>1, StoredKept
  <2>3. NetworkTypeOK'
    BY <2>1 DEF NetInv, NetworkTypeOK, EmptyRange, Steps
  <2>4. StreamOK' /\ HeadOK' /\ FollowerAgrees'
    BY <2>1 DEF StreamOK, HeadOK, LocalHeadIsStored, FollowerAgrees
  <2>. QED  BY <2>2, <2>3, <2>4 DEF NetInv
<1>. QED  BY <1>1, <1>2, <1>3, <1>4

\* The steps that follow the stream of blocks and leave the store alone.
LEMMA StreamKeeps ==
    ASSUME NetInv,
           \/ poll_poll_chain_head
           \/ poll_process_blocks /\ StreamYields
           \/ poll_vet_block /\ step' = "AddBlock"
           \/ AddSent /\ ~closed
    PROVE  NetInv'
<1>0. /\ StackOK /\ NetworkTypeOK /\ StreamOK /\ HeadOK /\ FollowerAgrees
      /\ localHead \in Block \cup {NoBlock}
      /\ range \in [next : Nat, end : Nat] /\ DOMAIN fetched \subseteq range.next .. range.end
  BY DEF NetInv, NetworkTypeOK
<1>1. CASE poll_poll_chain_head
  <2>1. /\ step = "PollChainHead" /\ step' = "ProcessBlocks" /\ range' = NextRange(nodeHead)
        /\ fetched' = <<>> /\ candidate' = NoBlock /\ Number[nodeHead] >= NumberOf(localHead)
        /\ UNCHANGED <<localHead, deployed, stored, follower, closed, nodeHead>>
        /\ DOMAIN fetched' = {} /\ nodeHead \in Block
    BY <1>0, <1>1 DEF poll_poll_chain_head, Ready, NetworkTypeOK
  <2>2. StackOK' /\ StoredHead' = StoredHead
    BY <1>0, <2>1, StoredKept
  <2>3. range' \in [next : Nat, end : Nat] /\ range'.next = NumberOf(localHead) + 1
    BY <1>0, <2>1, RangeFacts
  <2>4. NetworkTypeOK'
    BY <1>0, <2>1, <2>3 DEF NetworkTypeOK, Steps
  <2>5. StreamOK'
    BY <2>1, <2>3 DEF StreamOK, NumberOf
  <2>6. HeadOK' /\ FollowerAgrees'
    BY <1>0, <2>1, <2>2 DEF HeadOK, LocalHeadIsStored, FollowerAgrees
  <2>. QED  BY <2>2, <2>4, <2>5, <2>6 DEF NetInv
<1>2. CASE poll_process_blocks /\ StreamYields
  <2>1. /\ step = "ProcessBlocks" /\ step' = "VetBlock" /\ range.next \in DOMAIN fetched
        /\ fetched[range.next] # NotFound /\ candidate' = fetched[range.next]
        /\ range' = [range EXCEPT !.next = @ + 1]
        /\ fetched' = [n \in DOMAIN fetched \ {range.next} |-> fetched[n]]
        /\ UNCHANGED <<localHead, deployed, stored, follower, closed, nodeHead>>
    BY <1>2 DEF poll_process_blocks, Ready, StreamYields
  <2>2. StackOK' /\ StoredHead' = StoredHead
    BY <1>0, <2>1, StoredKept
  <2>3. range' \in [next : Nat, end : Nat] /\ range'.next = range.next + 1 /\ range'.end = range.end
    BY <1>0, <2>1
  <2>4. candidate' \in Block /\ Number[candidate'] = range.next
    BY <1>0, <2>1 DEF StreamOK
  <2>5. /\ DOMAIN fetched' \subseteq range'.next .. range'.end
        /\ \A n \in DOMAIN fetched' : n \in DOMAIN fetched /\ fetched'[n] = fetched[n]
    BY <1>0, <2>1, <2>3
  <2>6. NetworkTypeOK'
    BY <1>0, <2>1, <2>3, <2>4, <2>5 DEF NetworkTypeOK, Steps
  <2>7. range.next = NumberOf(localHead) + 1
    BY <1>0, <2>1 DEF StreamOK
  <2>8. StreamOK'
    BY <1>0, <2>1, <2>3, <2>4, <2>5, <2>7 DEF StreamOK, NumberOf
  <2>9. HeadOK' /\ FollowerAgrees'
    BY <1>0, <2>1, <2>2 DEF HeadOK, LocalHeadIsStored, FollowerAgrees
  <2>. QED  BY <2>2, <2>6, <2>8, <2>9 DEF NetInv
<1>3. CASE poll_vet_block /\ step' = "AddBlock"
  <2>1. /\ step = "VetBlock" /\ step' = "AddBlock" /\ Parent[candidate] = localHead
        /\ UNCHANGED <<range, fetched, candidate, localHead, deployed, stored, follower, closed, nodeHead>>
    BY <1>3 DEF poll_vet_block, Ready, IsSuccessor, GoTo
  <2>2. StackOK' /\ StoredHead' = StoredHead
    BY <1>0, <2>1, StoredKept
  <2>3. NetworkTypeOK'
    BY <1>0, <2>1 DEF NetworkTypeOK, Steps
  <2>4. StreamOK'
    BY <1>0, <2>1 DEF StreamOK, NumberOf
  <2>5. HeadOK' /\ FollowerAgrees'
    BY <1>0, <2>1, <2>2 DEF HeadOK, LocalHeadIsStored, FollowerAgrees
  <2>. QED  BY <2>2, <2>3, <2>4, <2>5 DEF NetInv
<1>4. CASE AddSent /\ ~closed
  <2>1. /\ step = "SendAdd" /\ step' = "ProcessBlocks" /\ follower' = candidate
        /\ localHead' = candidate /\ candidate' = NoBlock
        /\ UNCHANGED <<range, fetched, deployed, stored, closed, nodeHead>>
    BY <1>4 DEF AddSent
  <2>2. StackOK' /\ StoredHead' = StoredHead
    BY <1>0, <2>1, StoredKept
  <2>3. /\ candidate \in Block /\ range.next = Number[candidate] + 1 /\ StoredHead = candidate
        /\ candidate # NoBlock
    BY <1>0, <2>1, TreeAssumption DEF StreamOK, HeadOK
  <2>4. NetworkTypeOK'
    BY <1>0, <2>1, <2>3 DEF NetworkTypeOK, Steps
  <2>5. StreamOK'
    BY <1>0, <2>1, <2>3 DEF StreamOK, NumberOf
  <2>6. HeadOK' /\ FollowerAgrees'
    BY <2>1, <2>2, <2>3 DEF HeadOK, LocalHeadIsStored, FollowerAgrees
  <2>. QED  BY <2>2, <2>4, <2>5, <2>6 DEF NetInv
<1>. QED  BY <1>1, <1>2, <1>3, <1>4

\* A block is written.
LEMMA WriteKeeps ==
    ASSUME NetInv, WriteBlock
    PROVE  NetInv' /\ StoredHead' = candidate /\ Parent[candidate] = StoredHead /\ candidate # NoBlock
<1>. DEFINE entry == [ptr |-> candidate, kind |-> BlockEntities(StoredKind, candidate)]
            n == Len(stored) + 1
<1>0. /\ StackOK /\ NetworkTypeOK /\ StreamOK /\ HeadOK /\ FollowerAgrees
  BY DEF NetInv
<1>1. /\ step = "AddBlock" /\ step' = "SendAdd" /\ stored' = Append(stored, entry)
      /\ UNCHANGED <<localHead, range, fetched, candidate, deployed, follower, closed, nodeHead>>
  BY DEF WriteBlock, Ready
<1>2. candidate \in Block /\ Parent[candidate] = StoredHead /\ candidate # NoBlock
      /\ localHead = StoredHead
  BY <1>0, <1>1, TreeAssumption DEF StreamOK, HeadOK, LocalHeadIsStored
<1>3. /\ entry \in StoredEntry /\ ChainOf(entry.kind, PathOf[entry.ptr]) /\ entry.ptr = candidate
  <2>1. /\ BlockEntities(StoredKind, candidate) \in [Block -> {"absent", "block", "ommer"}]
        /\ ChainOf(BlockEntities(StoredKind, candidate), PathOf[candidate])
    BY <1>0, <1>2, StoredFacts, EntitiesOfBlock
  <2>. QED  BY <1>2, <2>1 DEF StoredEntry
<1>. HIDE DEF entry
<1>4. /\ stored \in Seq(StoredEntry) /\ stored' \in Seq(StoredEntry) /\ Len(stored) \in Nat /\ Len(stored') = n
      /\ stored'[n] = entry /\ \A i \in 1 .. Len(stored) : stored'[i] = stored[i]
      /\ stored' # <<>>
  BY <1>0, <1>1, <1>3 DEF StackOK
<1>5. StoredHead' = candidate
  BY <1>3, <1>4 DEF StoredHead
<1>6. StackOK'
  <2>1. ASSUME NEW i \in 1 .. Len(stored')
        PROVE  /\ Parent[stored'[i].ptr] = IF i = 1 THEN NoBlock ELSE stored'[i - 1].ptr
               /\ ChainOf(stored'[i].kind, PathOf[stored'[i].ptr])
    <3>1. CASE i \in 1 .. Len(stored)
      <4>1. /\ Parent[stored[i].ptr] = IF i = 1 THEN NoBlock ELSE stored[i - 1].ptr
            /\ ChainOf(stored[i].kind, PathOf[stored[i].ptr])
        BY <1>0, <3>1 DEF StackOK
      <4>2. stored'[i] = stored[i] /\ (i # 1 => stored'[i - 1] = stored[i - 1])
        BY <1>4, <3>1
      <4>. QED  BY <4>1, <4>2
    <3>2. CASE i = n
      <4>1. i = 1 => stored = <<>>
        BY <1>4, <3>2
      <4>2. i # 1 => stored # <<>> /\ stored'[i - 1] = stored[Len(stored)]
        BY <1>4, <3>2
      <4>3. StoredHead = IF i = 1 THEN NoBlock ELSE stored'[i - 1].ptr
        BY <4>1, <4>2 DEF StoredHead
      <4>. QED  BY <1>2, <1>3, <1>4, <3>2, <4>3
    <3>. QED  BY <1>4, <3>1, <3>2
  <2>. QED  BY <1>4, <2>1 DEF StackOK, ChainOf
<1>7. NetworkTypeOK'
  <2>1. \A i \in 1 .. Len(stored') : stored'[i] \in StoredEntry
    BY <1>4
  <2>2. \A i \in 1 .. Len(stored') : stored'[i].ptr \in Block
    BY <2>1 DEF StoredEntry
  <2>. QED  BY <1>0, <1>1, <2>2 DEF NetworkTypeOK, Steps
<1>8. StreamOK'
  BY <1>0, <1>1 DEF StreamOK, NumberOf
<1>9. HeadOK' /\ FollowerAgrees'
  BY <1>0, <1>1, <1>5 DEF HeadOK, LocalHeadIsStored, FollowerAgrees
<1>. QED  BY <1>2, <1>5, <1>6, <1>7, <1>8, <1>9 DEF NetInv

\* The local head is reverted.
LEMMA RevertKeeps ==
    ASSUME NetInv, revert_local_head
    PROVE  NetInv' /\ StoredHead' = Parent[StoredHead] /\ StoredHead # NoBlock
<1>. DEFINE n == Len(stored)
<1>0. /\ StackOK /\ NetworkTypeOK /\ StreamOK /\ HeadOK /\ FollowerAgrees
  BY DEF NetInv
<1>1. /\ step = "RevertLocalHead" /\ step' = "SendRevert" /\ StoredHead = localHead
      /\ Parent[localHead] # NoBlock /\ stored' = SubSeq(stored, 1, n - 1)
      /\ UNCHANGED <<localHead, range, fetched, candidate, deployed, follower, closed, nodeHead>>
  BY DEF revert_local_head, Ready
<1>2. localHead \in Block /\ StoredHead # NoBlock /\ stored # <<>>
  BY <1>0, <1>1, StoredFacts, TreeAssumption DEF HeadOK
<1>3. stored \in Seq(StoredEntry) /\ n \in Nat \ {0} /\ StoredHead = stored[n].ptr
  BY <1>0, <1>2 DEF StackOK, StoredHead
<1>4. n # 1 /\ Parent[localHead] = stored[n - 1].ptr
  <2>1. Parent[stored[n].ptr] = IF n = 1 THEN NoBlock ELSE stored[n - 1].ptr
    <3>1. n \in 1 .. Len(stored)
      BY <1>3
    <3>. QED  BY <1>0, <3>1 DEF StackOK
  <2>. QED  BY <1>1, <1>3, <2>1
<1>5. /\ stored' \in Seq(StoredEntry) /\ Len(stored') = n - 1 /\ stored' # <<>>
      /\ \A i \in 1 .. (n - 1) : stored'[i] = stored[i]
  <2>0. n - 1 \in Nat /\ 1 <= n - 1 /\ n - 1 <= Len(stored) /\ Len(stored) \in Nat
    <3>1. n = Len(stored) /\ Len(stored) \in Nat
      BY <1>3
    <3>. HIDE DEF n
    <3>. QED  BY <1>3, <1>4, <3>1
  <2>1. /\ SubSeq(stored, 1, n - 1) \in Seq(StoredEntry)
        /\ Len(SubSeq(stored, 1, n - 1)) = n - 1
    <3>. HIDE DEF n
    <3>1. SubSeq(stored, 1, n - 1) \in Seq(StoredEntry)
      BY <1>3, <2>0
    <3>2. Len(SubSeq(stored, 1, n - 1)) = n - 1
      BY <1>3, <2>0
    <3>. QED  BY <3>1, <3>2
  <2>2. ASSUME NEW i \in 1 .. (n - 1)
        PROVE  SubSeq(stored, 1, n - 1)[i] = stored[i]
    <3>1. SubSeq(stored, 1, n - 1)[i] = stored[1 + i - 1] /\ 1 + i - 1 = i
      BY <1>3, <1>4
    <3>. QED  BY <3>1
  <2>3. Len(stored') # 0
    BY <1>1, <1>3, <1>4, <2>1
  <2>. QED  BY <1>1, <2>1, <2>2, <2>3
<1>. HIDE DEF n
<1>6. StoredHead' = Parent[localHead] /\ StoredHead' \in Block
  <2>1. StoredHead' = stored'[n - 1].ptr /\ n - 1 \in 1 .. (n - 1) /\ stored'[n - 1] \in StoredEntry
    BY <1>3, <1>4, <1>5 DEF StoredHead
  <2>. QED  BY <1>4, <1>5, <2>1 DEF StoredEntry
<1>7. StackOK'
  <2>1. ASSUME NEW i \in 1 .. Len(stored')
        PROVE  /\ Parent[stored'[i].ptr] = IF i = 1 THEN NoBlock ELSE stored'[i - 1].ptr
               /\ ChainOf(stored'[i].kind, PathOf[stored'[i].ptr])
    <3>1. i \in 1 .. (n - 1) /\ i \in 1 .. Len(stored) /\ (i # 1 => i - 1 \in 1 .. (n - 1))
      BY <1>3, <1>5 DEF n
    <3>2. /\ Parent[stored[i].ptr] = IF i = 1 THEN NoBlock ELSE stored[i - 1].ptr
          /\ ChainOf(stored[i].kind, PathOf[stored[i].ptr])
      BY <1>0, <3>1 DEF StackOK
    <3>. QED  BY <1>5, <3>1, <3>2
  <2>. QED  BY <1>5, <2>1 DEF StackOK, ChainOf
<1>8. NetworkTypeOK'
  <2>1. \A i \in 1 .. Len(stored') : stored'[i] \in StoredEntry
    BY <1>5
  <2>2. \A i \in 1 .. Len(stored') : stored'[i].ptr \in Block
    BY <2>1 DEF StoredEntry
  <2>. QED  BY <1>0, <1>1, <2>2 DEF NetworkTypeOK, Steps
<1>9. StreamOK'
  BY <1>0, <1>1 DEF StreamOK, NumberOf
<1>10. HeadOK' /\ FollowerAgrees'
  BY <1>1, <1>2, <1>6 DEF HeadOK, LocalHeadIsStored, FollowerAgrees
<1>. QED  BY <1>1, <1>2, <1>6, <1>7, <1>8, <1>9, <1>10 DEF NetInv

\* The indexer has not started and the store is empty.
LEMMA NetInvInit == NetworkInit => NetInv
<1>. SUFFICES ASSUME NetworkInit PROVE NetInv
  OBVIOUS
<1>1. /\ step = "Start" /\ localHead = NoBlock /\ candidate = NoBlock /\ range = EmptyRange
      /\ fetched = <<>> /\ deployed = FALSE /\ stored = <<>> /\ follower = Unknown
      /\ closed = FALSE /\ nodeHead \in Block /\ DOMAIN fetched = {} /\ Len(stored) = 0
      /\ stored \in Seq(StoredEntry)
  BY DEF NetworkInit
<1>2. NetworkTypeOK
  <2>1. range \in [next : Nat, end : Nat] /\ step \in Steps
    BY <1>1 DEF EmptyRange, Steps
  <2>2. \A i \in 1 .. Len(stored) : stored[i].ptr \in Block
    BY <1>1
  <2>. QED  BY <1>1, <2>1, <2>2 DEF NetworkTypeOK
<1>3. StackOK
  BY <1>1 DEF StackOK
<1>4. StreamOK /\ HeadOK /\ FollowerAgrees
  BY <1>1 DEF StreamOK, HeadOK, LocalHeadIsStored, FollowerAgrees
<1>. QED  BY <1>2, <1>3, <1>4 DEF NetInv

\* Every step that is not a write or a revert of the store leaves it alone.
LEMMA NextCases ==
    ASSUME [NetworkNext]_nvars
    PROVE  \/ WriteBlock \/ revert_local_head
           \/ PollReadyFails \/ poll_start \/ poll_ensure_subgraph \/ EnsureFails
           \/ poll_load_local_head \/ LoadFails \/ StreamFails \/ RevertFails \/ WriteFails
           \/ RevertSent
           \/ poll_process_blocks /\ StreamEnds
           \/ poll_vet_block /\ GoTo("RevertLocalHead")
           \/ AddSent /\ closed
           \/ poll_poll_chain_head
           \/ poll_process_blocks /\ StreamYields
           \/ poll_vet_block /\ step' = "AddBlock"
           \/ AddSent /\ ~closed
           \/ FetchBlock \/ FetchMisses \/ NodeReorg \/ CloseChannel \/ Restart
           \/ UNCHANGED nvars
<1>1. poll_process_blocks => StreamEnds \/ StreamYields
  BY DEF poll_process_blocks
<1>2. poll_vet_block => GoTo("RevertLocalHead") \/ step' = "AddBlock"
  BY DEF poll_vet_block
<1>. QED  BY <1>1, <1>2 DEF NetworkNext, Progress, Fault

\* Every step preserves the invariant.
LEMMA NetInvStep == NetInv /\ [NetworkNext]_nvars => NetInv'
<1>. SUFFICES ASSUME NetInv, [NetworkNext]_nvars PROVE NetInv'
  OBVIOUS
<1>1. CASE UNCHANGED nvars
  <2>1. UNCHANGED <<step, localHead, range, fetched, candidate, deployed, stored, follower, closed,
                    nodeHead>>
    BY <1>1 DEF nvars
  <2>2. StackOK' /\ StoredHead' = StoredHead
    BY <2>1, StoredKept DEF NetInv
  <2>3. NetworkTypeOK' /\ StreamOK'
    BY <2>1 DEF NetInv, NetworkTypeOK, StreamOK, NumberOf
  <2>4. HeadOK' /\ FollowerAgrees'
    BY <2>1, <2>2 DEF NetInv, HeadOK, LocalHeadIsStored, FollowerAgrees
  <2>. QED  BY <2>2, <2>3, <2>4 DEF NetInv
<1>. QED  BY <1>1, NextCases, TransitionsKeep, EnvironmentKeeps, StreamKeeps, WriteKeeps, RevertKeeps

\* What the run checks follows: a block from the stream has the number after the
\* local head's, so without a local head it is the genesis block.
LEMMA NetInvEnough == NetInv => NetworkConsistent
<1>. SUFFICES ASSUME NetInv PROVE NetworkConsistent
  OBVIOUS
<1>1. IndexedDataIsOneChain
  BY StoredFacts DEF NetInv, IndexedDataIsOneChain, ChainOf
<1>2. VetNeverPanics
  <2>. SUFFICES ASSUME step = "VetBlock"
                PROVE  VetAssertions /\ (IsSuccessor \/ localHead # NoBlock)
    BY DEF VetNeverPanics, VetPanics, Ready
  <2>1. candidate \in Block /\ Number[candidate] = NumberOf(localHead) + 1
        /\ localHead \in Block \cup {NoBlock}
    BY DEF NetInv, StreamOK, NetworkTypeOK
  <2>2. CASE localHead = NoBlock
    <3>1. Number[candidate] = 0
      BY <2>1, <2>2 DEF NumberOf
    <3>2. candidate = Genesis
      <4>1. candidate # Genesis => /\ Parent[candidate] \in Block
                                   /\ Number[candidate] = Number[Parent[candidate]] + 1
        BY <2>1, TreeAssumption
      <4>2. Parent[candidate] \in Block => Number[Parent[candidate]] \in Nat
        BY TreeAssumption
      <4>. QED  BY <3>1, <4>1, <4>2
    <3>. QED  BY <2>2, <3>1, <3>2, TreeAssumption DEF VetAssertions, IsSuccessor
  <2>3. CASE localHead # NoBlock
    BY <2>1, <2>3, TreeAssumption DEF VetAssertions, NumberOf
  <2>. QED  BY <2>2, <2>3
<1>. QED  BY <1>1, <1>2 DEF NetInv, HeadOK, NetworkConsistent

\* The network indexer's store is one chain, the machine and the consumers of its
\* events are where the store is, and poll_vet_block never panics, whatever the
\* node answers, whichever step fails and whenever the process is restarted.
THEOREM NetworkStaysConsistent == NetworkSpec => []NetworkConsistent
<1>. QED  BY NetInvInit, NetInvStep, NetInvEnough, PTL DEF NetworkSpec

\* The stored head only ever moves to a child or back to its parent.
THEOREM StoredHeadMovesByOneBlock == NetworkSpec => HeadMovesByOneBlock
<1>1. ASSUME NetInv, [NetworkNext]_nvars, StoredHead' # StoredHead
      PROVE  \/ StoredHead' # NoBlock /\ Parent[StoredHead'] = StoredHead
             \/ StoredHead # NoBlock /\ Parent[StoredHead] = StoredHead'
  <2>1. stored' # stored
    BY <1>1, StoredKept DEF NetInv
  <2>2. WriteBlock \/ revert_local_head
    BY <1>1, <2>1 DEF NetworkNext, Progress, Fault, nvars, PollReadyFails, poll_start,
       poll_ensure_subgraph, EnsureFails, poll_load_local_head, LoadFails, StreamFails, RevertFails,
       WriteFails, RevertSent, poll_process_blocks, poll_vet_block, AddSent, poll_poll_chain_head,
       FetchBlock, FetchMisses, NodeReorg, CloseChannel, Restart
  <2>. QED  BY <1>1, <2>2, WriteKeeps, RevertKeeps
<1>2. NetInv /\ [NetworkNext]_nvars =>
        [LET h == StoredHead IN
           h' # h => \/ h' # NoBlock /\ Parent[h'] = h
                     \/ h # NoBlock /\ Parent[h] = h']_nvars
  BY <1>1
<1>. QED  BY <1>2, NetInvInit, NetInvStep, PTL DEF NetworkSpec, HeadMovesByOneBlock

-----------------------------------------------------------------------------
(***************************************************************************)
(* Proofs about NodeAssignments, for any deployments and any bounds: what  *)
(* the provider asks of the instance manager and what it believes agree    *)
(* (NodeConsistent).                                                       *)
(*                                                                         *)
(* RequestsAlternate is inductive once the queue is known to hold requests *)
(* only: the provider appends a request exactly when it changes its mind   *)
(* about a deployment, and the manager only takes from the front.          *)
(***************************************************************************)

Request == [d : Deployment, op : {"Start", "Stop"}]
Announcement == [d : Deployment, op : {"Set", "Removed"}]

NodeInv ==
    /\ AssignmentsTypeOK /\ RequestsAlternate
    /\ queue \in Seq(Request) /\ stream \in Seq(Announcement) /\ unannounced \in Seq(Announcement)
    /\ \A f \in {spawned, working, doomed} : f \in [Deployment -> Nat]

\* The requests in a queue q alternate for every deployment and end with what the
\* provider, which runs the deployments R, believes.
Alternate(q, R) ==
    \A d \in Deployment :
      LET mine == {i \in DOMAIN q : q[i].d = d}
      IN  /\ \A i, j \in mine : i < j /\ (\A k \in mine : k <= i \/ j <= k) => q[i].op # q[j].op
          /\ \A i \in mine : (\A j \in mine : j <= i) => ((q[i].op = "Start") <=> (d \in R))

----------------------------------------------------------------------------

\* A request is appended for a deployment about which the provider changes its mind.
LEMMA AppendAlternates ==
    ASSUME NEW q \in Seq(Request), NEW R, NEW S, Alternate(q, R), NEW r \in Request,
           (r.op = "Start") <=> (r.d \in S), (r.d \in S) <=> ~(r.d \in R),
           \A d \in Deployment : d # r.d => ((d \in S) <=> (d \in R))
    PROVE  Alternate(Append(q, r), S) /\ Append(q, r) \in Seq(Request)
<1>. DEFINE p == Append(q, r)
            n == Len(q) + 1
<1>1. /\ p \in Seq(Request) /\ n \in Nat \ {0} /\ DOMAIN p = 1 .. n /\ DOMAIN q = 1 .. Len(q)
      /\ p[n] = r /\ \A i \in 1 .. Len(q) : p[i] = q[i] /\ q[i] \in Request
      /\ Len(q) \in Nat
  OBVIOUS
<1>. HIDE DEF p, n
<1>2. ASSUME NEW d \in Deployment
      PROVE  LET mine == {i \in DOMAIN p : p[i].d = d}
             IN  /\ \A i, j \in mine : i < j /\ (\A k \in mine : k <= i \/ j <= k) => p[i].op # p[j].op
                 /\ \A i \in mine : (\A j \in mine : j <= i) => ((p[i].op = "Start") <=> (d \in S))
  <2>. DEFINE old == {i \in DOMAIN q : q[i].d = d}
              mine == {i \in DOMAIN p : p[i].d = d}
  <2>1. /\ \A i, j \in old : i < j /\ (\A k \in old : k <= i \/ j <= k) => q[i].op # q[j].op
        /\ \A i \in old : (\A j \in old : j <= i) => ((q[i].op = "Start") <=> (d \in R))
    BY DEF Alternate
  <2>2. \A i : i \in old <=> i \in 1 .. Len(q) /\ q[i].d = d
    BY <1>1
  <2>3. \A i : i \in mine <=> i \in old \/ (i = n /\ r.d = d)
    BY <1>1, <2>2 DEF n
  <2>4. \A i \in old : i \in Nat /\ i < n /\ p[i] = q[i] /\ q[i].op \in {"Start", "Stop"}
    BY <1>1, <2>2 DEF n, Request
  <2>. HIDE DEF old, mine
  <2>5. CASE d # r.d
    <3>1. mine = old
      BY <2>3, <2>5
    <3>2. (d \in S) <=> (d \in R)
      BY <2>5
    <3>. QED  BY <2>1, <2>4, <3>1, <3>2 DEF mine
  <2>6. CASE d = r.d
    <3>1. \A i \in mine : i \in Nat /\ i <= n /\ (i # n => i \in old)
      BY <1>1, <2>3, <2>4
    <3>2. n \in mine
      BY <2>3, <2>6
    <3>3. ASSUME NEW i \in mine, NEW j \in mine, i < j, \A k \in mine : k <= i \/ j <= k
          PROVE  p[i].op # p[j].op
      <4>1. i \in old /\ \A k \in old : k \in mine
        BY <2>3, <2>4, <3>1, <3>3
      <4>2. CASE j = n
        <5>1. \A k \in old : k <= i
          BY <2>4, <3>3, <4>1, <4>2, <1>1
        <5>2. (q[i].op = "Start") <=> (d \in R)
          BY <2>1, <4>1, <5>1
        <5>. QED  BY <1>1, <2>4, <2>6, <4>1, <4>2, <5>2
      <4>3. CASE j # n
        BY <2>1, <2>4, <3>1, <3>3, <4>1, <4>3
      <4>. QED  BY <4>2, <4>3
    <3>4. ASSUME NEW i \in mine, \A j \in mine : j <= i
          PROVE  (p[i].op = "Start") <=> (d \in S)
      <4>1. i = n
        BY <1>1, <3>1, <3>2, <3>4
      <4>. QED  BY <1>1, <2>6, <4>1
    <3>. QED  BY <3>3, <3>4 DEF mine
  <2>. QED  BY <2>5, <2>6
<1>. QED  BY <1>1, <1>2 DEF Alternate, p

\* The manager takes the first request.
LEMMA TailAlternates ==
    ASSUME NEW q \in Seq(Request), NEW R, Alternate(q, R), q # <<>>
    PROVE  Alternate(Tail(q), R) /\ Tail(q) \in Seq(Request)
<1>. DEFINE p == Tail(q)
            n == Len(q)
<1>1. /\ p \in Seq(Request) /\ n \in Nat \ {0} /\ DOMAIN p = 1 .. (n - 1) /\ DOMAIN q = 1 .. n
      /\ \A i \in 1 .. (n - 1) : p[i] = q[i + 1]
  OBVIOUS
<1>. HIDE DEF p, n
<1>2. ASSUME NEW d \in Deployment
      PROVE  LET mine == {i \in DOMAIN p : p[i].d = d}
             IN  /\ \A i, j \in mine : i < j /\ (\A k \in mine : k <= i \/ j <= k) => p[i].op # p[j].op
                 /\ \A i \in mine : (\A j \in mine : j <= i) => ((p[i].op = "Start") <=> (d \in R))
  <2>. DEFINE old == {i \in DOMAIN q : q[i].d = d}
              mine == {i \in DOMAIN p : p[i].d = d}
  <2>1. /\ \A i, j \in old : i < j /\ (\A k \in old : k <= i \/ j <= k) => q[i].op # q[j].op
        /\ \A i \in old : (\A j \in old : j <= i) => ((q[i].op = "Start") <=> (d \in R))
    BY DEF Alternate
  <2>2. \A i \in mine : i \in Nat /\ i >= 1 /\ i + 1 \in old /\ p[i] = q[i + 1]
    BY <1>1
  <2>3. \A i \in old : i \in Nat /\ i >= 1 /\ (i = 1 \/ i - 1 \in mine)
    BY <1>1
  <2>. HIDE DEF old, mine
  <2>4. ASSUME NEW i \in mine, NEW j \in mine, i < j, \A k \in mine : k <= i \/ j <= k
        PROVE  p[i].op # p[j].op
    <3>1. \A k \in old : k <= i + 1 \/ j + 1 <= k
      <4>. SUFFICES ASSUME NEW k \in old PROVE k <= i + 1 \/ j + 1 <= k
        OBVIOUS
      <4>1. k = 1 \/ (k - 1 <= i \/ j <= k - 1)
        BY <2>3, <2>4
      <4>. QED  BY <2>2, <2>3, <4>1
    <3>2. i + 1 \in old /\ j + 1 \in old /\ i + 1 < j + 1
      BY <2>2, <2>4
    <3>3. q[i + 1].op # q[j + 1].op
      BY <2>1, <3>1, <3>2
    <3>. QED  BY <2>2, <3>3
  <2>5. ASSUME NEW i \in mine, \A j \in mine : j <= i
        PROVE  (p[i].op = "Start") <=> (d \in R)
    <3>1. \A k \in old : k <= i + 1
      <4>. SUFFICES ASSUME NEW k \in old PROVE k <= i + 1
        OBVIOUS
      <4>1. k = 1 \/ k - 1 <= i
        BY <2>3, <2>5
      <4>. QED  BY <2>2, <2>3, <4>1
    <3>2. i + 1 \in old
      BY <2>2
    <3>3. (q[i + 1].op = "Start") <=> (d \in R)
      BY <2>1, <3>1, <3>2
    <3>. QED  BY <2>2, <3>3
  <2>. QED  BY <2>4, <2>5 DEF mine
<1>. QED  BY <1>1, <1>2 DEF Alternate, p

\* RequestsAlternate in terms of Alternate, before and after a step.
LEMMA Requests ==
    /\ RequestsAlternate <=> Alternate(queue, running)
    /\ RequestsAlternate' <=> Alternate(queue', running')
  BY DEF RequestsAlternate, Alternate

----------------------------------------------------------------------------

\* What the provider does for one deployment keeps the requests in order.
LEMMA ProviderKeeps ==
    ASSUME NodeInv, NEW d \in Deployment, ProviderStart(d) \/ ResolveFails(d) \/ ProviderStop(d)
    PROVE  /\ queue' \in Seq(Request) /\ running' \subseteq Deployment /\ RequestsAlternate'
<1>1. queue \in Seq(Request) /\ running \subseteq Deployment /\ Alternate(queue, running)
  BY Requests DEF NodeInv, AssignmentsTypeOK
<1>2. CASE queue' = queue /\ running' = running
  BY <1>1, <1>2, Requests
<1>3. ASSUME d \notin running, running' = running \cup {d},
             queue' = Append(queue, [d |-> d, op |-> "Start"])
      PROVE  queue' \in Seq(Request) /\ running' \subseteq Deployment /\ RequestsAlternate'
  <2>. DEFINE r == [d |-> d, op |-> "Start"]
  <2>1. r \in Request /\ r.d = d /\ r.op = "Start"
    BY DEF Request
  <2>. HIDE DEF r
  <2>a. /\ r.d \in running' /\ ~(r.d \in running)
        /\ (r.op = "Start") <=> (r.d \in running')
        /\ \A e \in Deployment : e # r.d => ((e \in running') <=> (e \in running))
    BY <1>3, <2>1
  <2>2. Alternate(Append(queue, r), running') /\ Append(queue, r) \in Seq(Request)
    BY <1>1, <2>1, <2>a, AppendAlternates
  <2>. QED  BY <1>1, <1>3, <2>2, Requests DEF r
<1>4. ASSUME d \in running, running' = running \ {d},
             queue' = Append(queue, [d |-> d, op |-> "Stop"])
      PROVE  queue' \in Seq(Request) /\ running' \subseteq Deployment /\ RequestsAlternate'
  <2>. DEFINE r == [d |-> d, op |-> "Stop"]
  <2>1. r \in Request /\ r.d = d /\ r.op = "Stop"
    BY DEF Request
  <2>. HIDE DEF r
  <2>a. /\ ~(r.d \in running') /\ r.d \in running
        /\ (r.op = "Start") <=> (r.d \in running')
        /\ \A e \in Deployment : e # r.d => ((e \in running') <=> (e \in running))
    BY <1>4, <2>1
  <2>2. Alternate(Append(queue, r), running') /\ Append(queue, r) \in Seq(Request)
    BY <1>1, <2>1, <2>a, AppendAlternates
  <2>. QED  BY <1>1, <1>4, <2>2, Requests DEF r
<1>5. CASE ProviderStart(d) \/ ResolveFails(d)
  BY <1>2, <1>3, <1>5 DEF ProviderStart, ResolveFails
<1>6. CASE ProviderStop(d)
  <2>1. d \notin running => running \ {d} = running
    OBVIOUS
  <2>. QED  BY <1>2, <1>4, <1>6, <2>1 DEF ProviderStop
<1>. QED  BY <1>5, <1>6

\* Nothing is asked for and nothing runs.
LEMMA NodeInvInit == AssignmentsInit => NodeInv
<1>. SUFFICES ASSUME AssignmentsInit PROVE NodeInv
  OBVIOUS
<1>1. /\ table \in [Deployment -> {"here", "none"}] /\ unannounced = <<>> /\ stream = <<>>
      /\ phase = "down" /\ toStart = {} /\ running = {} /\ queue = <<>>
      /\ spawned = NoTasks /\ working = NoTasks /\ doomed = NoTasks
  BY DEF AssignmentsInit
<1>2. NoTasks \in [Deployment -> Nat]
  BY DEF NoTasks
<1>3. <<>> \in Seq(Request) /\ <<>> \in Seq(Announcement) /\ DOMAIN queue = {}
  BY <1>1
<1>4. RequestsAlternate
  BY <1>3 DEF RequestsAlternate
<1>5. \A d \in Deployment : spawned[d] \in Nat /\ working[d] \in Nat /\ doomed[d] \in Nat
  BY <1>1, <1>2
<1>6. AssignmentsTypeOK
  BY <1>1, <1>5 DEF AssignmentsTypeOK
<1>. QED  BY <1>1, <1>2, <1>3, <1>4, <1>6 DEF NodeInv

\* Every step preserves the invariant.
LEMMA NodeInvStep == NodeInv /\ [AssignmentsNext]_avars => NodeInv'
<1>. SUFFICES ASSUME NodeInv, [AssignmentsNext]_avars PROVE NodeInv'
  OBVIOUS
<1>0. /\ table \in [Deployment -> {"here", "elsewhere", "none"}]
      /\ phase \in {"down", "subscribed", "booting", "running"}
      /\ running \subseteq Deployment /\ toStart \subseteq Deployment /\ RequestsAlternate
      /\ queue \in Seq(Request) /\ stream \in Seq(Announcement) /\ unannounced \in Seq(Announcement)
      /\ spawned \in [Deployment -> Nat] /\ working \in [Deployment -> Nat]
      /\ doomed \in [Deployment -> Nat]
  BY DEF NodeInv, AssignmentsTypeOK
<1>a. ASSUME /\ table' \in [Deployment -> {"here", "elsewhere", "none"}]
             /\ phase' \in {"down", "subscribed", "booting", "running"}
             /\ running' \subseteq Deployment /\ toStart' \subseteq Deployment /\ RequestsAlternate'
             /\ queue' \in Seq(Request) /\ stream' \in Seq(Announcement)
             /\ unannounced' \in Seq(Announcement)
             /\ spawned' \in [Deployment -> Nat] /\ working' \in [Deployment -> Nat]
             /\ doomed' \in [Deployment -> Nat]
      PROVE  NodeInv'
  <2>1. \A d \in Deployment : spawned'[d] \in Nat /\ working'[d] \in Nat /\ doomed'[d] \in Nat
    BY <1>a
  <2>. QED  BY <1>a, <2>1 DEF NodeInv, AssignmentsTypeOK
<1>b. ASSUME queue' = queue, running' = running
      PROVE  RequestsAlternate'
  BY <1>0, <1>b, Requests
<1>c. ASSUME queue # <<>>, queue' = Tail(queue), running' = running
      PROVE  RequestsAlternate' /\ queue' \in Seq(Request)
  BY <1>0, <1>c, TailAlternates, Requests
<1>1. ASSUME NEW d \in Deployment, NEW place \in {"here", "elsewhere", "none"},
             ChangeAssignment(d, place)
      PROVE  NodeInv'
  <2>1. [d |-> d, op |-> IF place = "none" THEN "Removed" ELSE "Set"] \in Announcement
    BY DEF Announcement
  <2>2. unannounced' \in Seq(Announcement)
    BY <1>0, <1>1, <2>1 DEF ChangeAssignment
  <2>3. table' \in [Deployment -> {"here", "elsewhere", "none"}]
    BY <1>0, <1>1 DEF ChangeAssignment
  <2>. QED  BY <1>0, <1>1, <1>a, <1>b, <2>2, <2>3 DEF ChangeAssignment
<1>2. CASE Announce
  <2>1. PICK i \in 1 .. Len(unannounced) :
           /\ unannounced' = SubSeq(unannounced, 1, i - 1) \o SubSeq(unannounced, i + 1, Len(unannounced))
           /\ stream' = IF phase = "down" THEN stream ELSE Append(stream, unannounced[i])
    BY <1>2 DEF Announce
  <2>2. unannounced[i] \in Announcement /\ i \in Nat /\ i >= 1 /\ i <= Len(unannounced)
        /\ Len(unannounced) \in Nat
    BY <1>0
  <2>3. stream' \in Seq(Announcement)
    BY <1>0, <2>1, <2>2
  <2>4. unannounced' \in Seq(Announcement)
    <3>1. SubSeq(unannounced, 1, i - 1) \in Seq(Announcement)
      BY <1>0, <2>2
    <3>2. SubSeq(unannounced, i + 1, Len(unannounced)) \in Seq(Announcement)
      BY <1>0, <2>2
    <3>. QED  BY <2>1, <3>1, <3>2
  <2>. QED  BY <1>0, <1>2, <1>a, <1>b, <2>3, <2>4 DEF Announce
<1>3. CASE StartRegistrar
  <2>1. phase' \in {"down", "subscribed", "booting", "running"} /\ toStart' \subseteq Deployment
        /\ stream' = stream
    BY <1>0, <1>3 DEF StartRegistrar, SubscribeToEvents, Here
  <2>. QED  BY <1>0, <1>3, <1>a, <1>b, <2>1 DEF StartRegistrar
<1>4. CASE StartedAll
  BY <1>0, <1>4, <1>a, <1>b DEF StartedAll
<1>5. ASSUME NEW d \in Deployment, StartAssigned(d)
      PROVE  NodeInv'
  <2>1. queue' \in Seq(Request) /\ running' \subseteq Deployment /\ RequestsAlternate'
    BY <1>5, ProviderKeeps DEF StartAssigned
  <2>. QED  BY <1>0, <1>5, <1>a, <2>1 DEF StartAssigned
<1>6. CASE NextAssignment
  <2>1. stream # <<>> /\ Head(stream) \in Announcement /\ Tail(stream) \in Seq(Announcement)
    BY <1>0, <1>6 DEF NextAssignment
  <2>2. Head(stream).d \in Deployment
    BY <2>1 DEF Announcement
  <2>3. \/ ProviderStart(Head(stream).d) \/ ResolveFails(Head(stream).d)
        \/ ProviderStop(Head(stream).d)
        \/ queue' = queue /\ running' = running
    BY <1>6 DEF NextAssignment, HandleAssignment
  <2>4. queue' \in Seq(Request) /\ running' \subseteq Deployment /\ RequestsAlternate'
    BY <1>0, <1>b, <2>2, <2>3, ProviderKeeps
  <2>. QED  BY <1>0, <1>6, <1>a, <2>1, <2>4 DEF NextAssignment
<1>7. ASSUME NEW d \in Deployment, ManagerStart(d)
      PROVE  NodeInv'
  <2>1. spawned' = [spawned EXCEPT ![d] = @ + 1] \/ spawned' = spawned
    BY <1>7 DEF ManagerStart
  <2>2. spawned' \in [Deployment -> Nat]
    BY <1>0, <2>1
  <2>. QED  BY <1>0, <1>7, <1>a, <1>c, <2>2 DEF ManagerStart
<1>8. ASSUME NEW d \in Deployment, ManagerStop(d)
      PROVE  NodeInv'
  <2>1. working' \in [Deployment -> Nat] /\ doomed' \in [Deployment -> Nat]
    BY <1>0, <1>8, SMTT(30) DEF ManagerStop, Dropped
  <2>. QED  BY <1>0, <1>8, <1>a, <1>c, <2>1 DEF ManagerStop
<1>9. ASSUME NEW d \in Deployment,
             TaskRegisters(d) \/ TaskRestarts(d) \/ TaskEnds(d) \/ TaskFails(d)
      PROVE  NodeInv'
  <2>0. spawned[d] \in Nat /\ working[d] \in Nat /\ doomed[d] \in Nat
    BY <1>0
  <2>1. spawned' \in [Deployment -> Nat] /\ working' \in [Deployment -> Nat]
        /\ doomed' \in [Deployment -> Nat]
    <3>1. CASE TaskRegisters(d)
      <4>1. Dropped(d) \in Nat /\ working[d] + 1 - Dropped(d) \in Nat
        BY <2>0 DEF Dropped
      <4>. QED  BY <1>0, <2>0, <3>1, <4>1, SMTT(30) DEF TaskRegisters
    <3>2. CASE TaskRestarts(d)
      BY <1>0, <2>0, <3>2 DEF TaskRestarts
    <3>3. CASE TaskEnds(d)
      BY <1>0, <2>0, <3>3 DEF TaskEnds
    <3>4. CASE TaskFails(d)
      <4>1. /\ spawned' = spawned
            /\ \/ working[d] > 0 /\ working' = [working EXCEPT ![d] = @ - 1] /\ doomed' = doomed
               \/ doomed[d] > 0 /\ doomed' = [doomed EXCEPT ![d] = @ - 1] /\ working' = working
        BY <3>4 DEF TaskFails
      <4>2. CASE working[d] > 0 /\ working' = [working EXCEPT ![d] = @ - 1] /\ doomed' = doomed
        BY <1>0, <2>0, <4>1, <4>2
      <4>3. CASE doomed[d] > 0 /\ doomed' = [doomed EXCEPT ![d] = @ - 1] /\ working' = working
        BY <1>0, <2>0, <4>1, <4>3
      <4>. QED  BY <4>1, <4>2, <4>3
    <3>. QED  BY <1>9, <3>1, <3>2, <3>3, <3>4
  <2>. QED  BY <1>0, <1>9, <1>a, <1>b, <2>1 DEF TaskRegisters, TaskRestarts, TaskEnds, TaskFails
<1>10. CASE NodeCrash
  <2>1. NoTasks \in [Deployment -> Nat] /\ <<>> \in Seq(Request) /\ <<>> \in Seq(Announcement)
        /\ DOMAIN (<<>>) = {}
    BY DEF NoTasks
  <2>2. RequestsAlternate'
    BY <1>10, <2>1 DEF NodeCrash, RequestsAlternate
  <2>. QED  BY <1>0, <1>10, <1>a, <2>1, <2>2 DEF NodeCrash
<1>11. CASE UNCHANGED avars
  BY <1>0, <1>11, <1>a, <1>b DEF avars
<1>. QED  BY <1>1, <1>2, <1>3, <1>4, <1>5, <1>6, <1>7, <1>8, <1>9, <1>10, <1>11
          DEF AssignmentsNext, NodeStep

\* Provider, queue and instance manager agree on what was asked for: through
\* announcements that overtake each other, tasks that fail and crashes, the manager
\* is asked in turns to start and to stop a deployment.
THEOREM NodeStaysConsistent == AssignmentsSpec => []NodeConsistent
<1>1. NodeInv => NodeConsistent
  BY DEF NodeInv, NodeConsistent
<1>. QED  BY <1>1, NodeInvInit, NodeInvStep, PTL DEF AssignmentsSpec

-----------------------------------------------------------------------------
(***************************************************************************)
(* Proofs about QueryCaching, for any clients, requests, cache sizes,      *)
(* number of permits and chain: the caches in front of query execution     *)
(* are consistent (CachingConsistent).                                     *)
(*                                                                         *)
(* That the latest block is served right is a fact about every place a     *)
(* result passes through: the execution, the herd, the block cache, the    *)
(* LFU cache and the client.  The inductive invariant says of each of them *)
(* that the result is the data of the block, unless the block was ever     *)
(* reverted (RightData); of clients that share an execution that they      *)
(* asked for the same block; and of an execution somebody waits for that   *)
(* it was started and not dropped.                                         *)
(***************************************************************************)

Pointer == [hash : Seq(Forks) \cup {NoHash}, number : Nat]
Result == Seq(Forks) \cup {Failure}
ClientSteps == {"new", "lookup", "enter", "wait", "store", "answer", "answered", "failed", "gone"}
Stages == {"none", "queued", "nested", "running", "done", "dropped"}
Key == ({r.query : r \in ClientRequests} \cup {"q0"}) \X Pointer
Results == UNION {[K -> Result] : K \in SUBSET Key}
CacheEntry == [block : Pointer, weight : Nat, cache : Results]
Client == [step : ClientSteps, request : ClientRequests, ptr : Pointer,
           state : [count : Int, latest : Int], result : Result,
           shared : Clients \cup {0}, hit : BOOLEAN]
Work == [stage : Stages, holders : SUBSET Clients, result : Result]

Types ==
    /\ chain \in Seq(Forks)
    /\ undone \in [count : Int, current : Int, max : Int, blocks : SUBSET Seq(Forks)]
    /\ client \in [Clients -> Client]
    /\ work \in [Clients -> Work]
    /\ \A key \in DOMAIN herd : herd[key] \in Clients
    /\ lfuCache \in Results

\* What is known of a result for a block, when the blocks B have been reverted at some
\* time: it is the data of the block, unless the block is one of them.  Blocks that are
\* named by number only promise nothing.
RightData(B, ptr, result) ==
    ptr.hash \in Seq(Forks) => ptr.hash \in B \/ result \in {Failure, ptr.hash}

RightResults(B, results) == \A k \in DOMAIN results : RightData(B, k[2], results[k])

\* A block that was the latest once and was never reverted is still on the chain.
OnChain(ch, B, ptr) ==
    ptr.hash \in Seq(Forks) =>
        /\ ptr.number = Len(ptr.hash)
        /\ \/ ptr.hash \in B
           \/ Len(ptr.hash) <= Len(ch) /\ ptr.hash = SubSeq(ch, 1, Len(ptr.hash))

LocatedOK(c) ==
    /\ OnChain(chain, undone.blocks, client[c].ptr)
    /\ client[c].request.by = "latest" /\ client[c].step # "new" => client[c].ptr.hash # NoHash

Holding == {c \in Clients : work[c].stage \in {"running", "nested"}}

PermitsOK == permits = QueryPermits - Cardinality(Holding)

EntryOK(B, e) ==
    /\ e.weight <= BlockWeight
    /\ IsFiniteSet(DOMAIN e.cache) /\ Cardinality(DOMAIN e.cache) <= e.weight
    /\ \A k \in DOMAIN e.cache : e.cache[k] # Failure
    /\ RightResults(B, e.cache)

Newest(s) ==
    \A i, j \in 1 .. Len(s) :
        i < j => s[i].block.number >= s[j].block.number /\ s[i].block # s[j].block

BlockCacheOK(B, s) ==
    /\ s \in Seq(CacheEntry) /\ Len(s) <= QUERY_CACHE_BLOCKS
    /\ \A i \in 1 .. Len(s) : EntryOK(B, s[i])
    /\ Newest(s)

\* How far a client is and how far the execution it started is.
ClientOK(c) ==
    /\ client[c].step \in {"new", "lookup", "enter"} => work[c].stage = "none"
    /\ client[c].step = "new" => client[c].ptr.hash = NoHash
    /\ client[c].step = "wait" =>
          /\ client[c].shared \in Clients
          /\ c \in work[client[c].shared].holders
          /\ work[client[c].shared].stage \notin {"none", "dropped"}
          /\ client[client[c].shared].ptr = client[c].ptr
    /\ client[c].step \in {"store", "answer", "answered"} =>
          RightData(undone.blocks, client[c].ptr, client[c].result)
    /\ client[c].step = "answered" => client[c].result # Failure
    /\ work[c].stage = "done" => RightData(undone.blocks, client[c].ptr, work[c].result)

HerdOK ==
    \A key \in DOMAIN herd :
        /\ client[herd[key]].step = "wait" /\ client[herd[key]].shared = herd[key]
        /\ KeyOf(herd[key]) = key /\ ~Indexing(herd[key])

CachingInv ==
    /\ Types
    /\ PermitsOK
    /\ BlockCacheOK(undone.blocks, blockCache)
    /\ RightResults(undone.blocks, lfuCache)
    /\ \A c \in Clients : ClientOK(c) /\ LocatedOK(c)
    /\ HerdOK

----------------------------------------------------------------------------
(* Operators *)

\* The marks for a block named by number and for a failed query are no blocks.
LEMMA Marks == NoHash \notin Seq(Forks) /\ Failure \notin Seq(Forks) /\ Failure # <<>>
BY CachingAssumption DEF NoHash, Failure

\* A lookup that finds something returns a stored result.
LEMMA LookupType ==
    ASSUME NEW f \in Results, NEW key
    PROVE  /\ Lookup(f, key) \in Result
           /\ Lookup(f, key) # <<>> => key \in DOMAIN f /\ Lookup(f, key) = f[key]
BY DEF Lookup, Results, Result

\* Storing a result under a key changes the map at that key only.
LEMMA StoredType ==
    ASSUME NEW f \in Results, NEW key \in Key, NEW value \in Result
    PROVE  /\ Stored(f, key, value) \in Results
           /\ DOMAIN Stored(f, key, value) = DOMAIN f \cup {key}
           /\ \A k \in DOMAIN Stored(f, key, value) :
                 Stored(f, key, value)[k] = IF k = key THEN value ELSE f[k]
BY DEF Stored, Results

\* A restriction of a map of results is one.
LEMMA KeptType ==
    ASSUME NEW f \in Results, NEW K \in SUBSET DOMAIN f
    PROVE  [k \in K |-> f[k]] \in Results
BY DEF Results

\* A result stays right when more blocks are reverted.
LEMMA RightStays ==
    ASSUME NEW B, NEW C, B \subseteq C
    PROVE  /\ \A ptr, result : RightData(B, ptr, result) => RightData(C, ptr, result)
           /\ \A f : RightResults(B, f) => RightResults(C, f)
           /\ \A s : BlockCacheOK(B, s) => BlockCacheOK(C, s)
<1>1. \A ptr, result : RightData(B, ptr, result) => RightData(C, ptr, result)
  BY DEF RightData
<1>2. \A f : RightResults(B, f) => RightResults(C, f)
  BY <1>1 DEF RightResults
<1>3. \A s : BlockCacheOK(B, s) => BlockCacheOK(C, s)
  BY <1>2 DEF BlockCacheOK, EntryOK
<1>. QED  BY <1>1, <1>2, <1>3

\* Storing a right result keeps a map of results right.
LEMMA StoredRight ==
    ASSUME NEW B, NEW f \in Results, NEW key \in Key, NEW value \in Result,
           RightResults(B, f), RightData(B, key[2], value)
    PROVE  RightResults(B, Stored(f, key, value))
<1>. DEFINE g == Stored(f, key, value)
<1>1. /\ DOMAIN g = DOMAIN f \cup {key}
      /\ \A k \in DOMAIN g : g[k] = IF k = key THEN value ELSE f[k]
  BY StoredType
<1>. HIDE DEF g
<1>2. ASSUME NEW k \in DOMAIN g
      PROVE  RightData(B, k[2], g[k])
  BY <1>1 DEF RightResults
<1>. QED  BY <1>2 DEF RightResults, g

\* CacheByBlock::insert keeps an entry within its weight and right.
LEMMA InsertKeepsEntry ==
    ASSUME NEW B, NEW e \in CacheEntry, EntryOK(B, e), NEW key \in Key, NEW value \in Result,
           value # Failure, RightData(B, key[2], value)
    PROVE  /\ BlockInsert(e, key, value) \in CacheEntry /\ EntryOK(B, BlockInsert(e, key, value))
           /\ BlockInsert(e, key, value).block = e.block
<1>. DEFINE n == [e EXCEPT !.weight = @ + 1, !.cache = Stored(@, key, value)]
<1>1. CASE e.weight + 1 <= BlockWeight
  <2>1. BlockInsert(e, key, value) = n
    BY <1>1 DEF BlockInsert
  <2>2. e.cache \in Results /\ e.weight \in Nat
    BY DEF CacheEntry
  <2>. DEFINE g == Stored(e.cache, key, value)
  <2>dom. DOMAIN g = DOMAIN e.cache \cup {key}
    BY <2>2, StoredType
  <2>type. g \in Results
    BY <2>2, StoredType
  <2>vals. \A k \in DOMAIN g : g[k] = IF k = key THEN value ELSE e.cache[k]
    <3>. DEFINE c == e.cache
    <3>1. c \in Results
      BY <2>2
    <3>. HIDE DEF c
    <3>2. \A k \in DOMAIN Stored(c, key, value) :
             Stored(c, key, value)[k] = IF k = key THEN value ELSE c[k]
      BY <3>1, StoredType, ZenonT(30)
    <3>. QED  BY <3>2 DEF c
  <2>right. RightResults(B, g)
    BY <2>2, StoredRight DEF EntryOK
  <2>new. n = [e EXCEPT !.weight = e.weight + 1, !.cache = g]
    BY Zenon
  <2>. HIDE DEF g, n
  <2>3. n \in CacheEntry /\ n.block = e.block /\ n.weight = e.weight + 1 /\ n.cache = g
    <3>1. e = [block |-> e.block, weight |-> e.weight, cache |-> e.cache] /\ e.block \in Pointer
      BY DEF CacheEntry
    <3>2. n = [block |-> e.block, weight |-> e.weight + 1, cache |-> g]
      BY <2>new, <3>1
    <3>3. n.block = e.block /\ n.weight = e.weight + 1 /\ n.cache = g
      BY <3>2
    <3>4. n \in CacheEntry
      BY <3>2, <3>1, <2>2, <2>type DEF CacheEntry
    <3>. QED  BY <3>3, <3>4
  <2>4. DOMAIN n.cache = DOMAIN e.cache \cup {key}
    BY <2>3, <2>dom
  <2>5. IsFiniteSet(DOMAIN n.cache) /\ Cardinality(DOMAIN n.cache) <= n.weight
    <3>1. IsFiniteSet(DOMAIN e.cache) /\ Cardinality(DOMAIN e.cache) <= e.weight
      BY DEF EntryOK
    <3>2. Cardinality(DOMAIN e.cache) \in Nat
      BY <3>1, FS_CardinalityType
    <3>3. /\ IsFiniteSet(DOMAIN e.cache \cup {key})
          /\ Cardinality(DOMAIN e.cache \cup {key}) <= Cardinality(DOMAIN e.cache) + 1
      BY <3>1, <3>2, FS_AddElement, SMTT(30)
    <3>4. Cardinality(DOMAIN e.cache \cup {key}) \in Nat
      BY <3>3, FS_CardinalityType
    <3>. QED  BY <2>2, <2>3, <2>4, <3>1, <3>2, <3>3, <3>4
  <2>6. \A k \in DOMAIN n.cache : n.cache[k] # Failure
    BY <2>3, <2>4, <2>vals DEF EntryOK
  <2>7. RightResults(B, n.cache)
    BY <2>3, <2>right
  <2>. QED  BY <1>1, <2>1, <2>2, <2>3, <2>5, <2>6, <2>7 DEF EntryOK
<1>2. CASE ~(e.weight + 1 <= BlockWeight)
  BY <1>2 DEF BlockInsert
<1>. QED  BY <1>1, <1>2

\* QueryBlockCache::insert keeps the cache within its capacity, the newest block in
\* front, one entry for each block, and every result right.
LEMMA InsertKeepsBlockCache ==
    ASSUME NEW B, BlockCacheOK(B, blockCache), NEW ptr \in Pointer, NEW key \in Key,
           NEW value \in Result, key[2] = ptr, value # Failure, RightData(B, ptr, value)
    PROVE  BlockCacheOK(B, BlockCacheInsert(ptr, key, value).cache)
<1>. DEFINE found == {i \in 1 .. Len(blockCache) : blockCache[i].block = ptr}
            at == CHOOSE i \in found : TRUE
<1>1. /\ blockCache \in Seq(CacheEntry) /\ Len(blockCache) <= QUERY_CACHE_BLOCKS
      /\ \A i \in 1 .. Len(blockCache) : EntryOK(B, blockCache[i]) /\ blockCache[i] \in CacheEntry
      /\ Newest(blockCache)
  BY DEF BlockCacheOK
<1>2. CASE found # {}
  <2>. DEFINE s == [blockCache EXCEPT ![at] = BlockInsert(@, key, value)]
  <2>1. BlockCacheInsert(ptr, key, value).cache = s
    BY <1>2 DEF BlockCacheInsert
  <2>2. at \in 1 .. Len(blockCache)
    BY <1>2
  <2>3. LET e == BlockInsert(blockCache[at], key, value)
        IN  e \in CacheEntry /\ EntryOK(B, e) /\ e.block = blockCache[at].block
    BY <1>1, <2>2, InsertKeepsEntry
  <2>. HIDE DEF at, found
  <2>4. /\ s \in Seq(CacheEntry) /\ Len(s) = Len(blockCache)
        /\ \A i \in 1 .. Len(s) : s[i] = IF i = at THEN BlockInsert(blockCache[at], key, value)
                                         ELSE blockCache[i]
    BY <1>1, <2>2, <2>3
  <2>. HIDE DEF s
  <2>5. \A i \in 1 .. Len(s) : EntryOK(B, s[i]) /\ s[i].block = blockCache[i].block
    BY <1>1, <2>2, <2>3, <2>4
  <2>6. Newest(s)
    BY <1>1, <2>4, <2>5 DEF Newest
  <2>. QED  BY <1>1, <2>1, <2>4, <2>5, <2>6 DEF BlockCacheOK
<1>3. CASE found = {} /\ StartsEntry(ptr)
  <2>. DEFINE e == BlockInsert(NewEntry(ptr), key, value)
              rest == RoomMade(blockCache)
              s == <<e>> \o rest
  <2>1. BlockCacheInsert(ptr, key, value).cache = s
    BY <1>3 DEF BlockCacheInsert
  <2>2. NewEntry(ptr) \in CacheEntry /\ NewEntry(ptr).block = ptr
    <3>1. <<>> \in Results
      BY DEF Results
    <3>. QED  BY <3>1 DEF NewEntry, CacheEntry
  <2>3. EntryOK(B, NewEntry(ptr))
    <3>1. DOMAIN NewEntry(ptr).cache = {} /\ NewEntry(ptr).weight = 0
      BY DEF NewEntry
    <3>. QED  BY <3>1, FS_EmptySet, CachingAssumption DEF EntryOK, RightResults
  <2>4. e \in CacheEntry /\ EntryOK(B, e) /\ e.block = ptr
    BY <2>2, <2>3, InsertKeepsEntry
  <2>5. /\ rest \in Seq(CacheEntry) /\ Len(rest) + 1 <= QUERY_CACHE_BLOCKS
        /\ Len(rest) <= Len(blockCache)
        /\ \A i \in 1 .. Len(rest) : rest[i] = blockCache[i]
    BY <1>1, CachingAssumption DEF RoomMade, Front
  <2>. HIDE DEF e, rest
  <2>6. /\ s \in Seq(CacheEntry) /\ Len(s) = Len(rest) + 1 /\ s[1] = e
        /\ \A i \in 2 .. Len(s) : i - 1 \in 1 .. Len(rest) /\ s[i] = rest[i - 1]
    BY <2>4, <2>5
  <2>. HIDE DEF s
  <2>7. \A i \in 2 .. Len(s) : i - 1 \in 1 .. Len(blockCache) /\ s[i] = blockCache[i - 1]
    BY <1>1, <2>5, <2>6
  <2>8. \A i \in 1 .. Len(s) : EntryOK(B, s[i])
    BY <1>1, <2>4, <2>6, <2>7
  <2>9. \A i \in 1 .. Len(blockCache) : /\ ptr.number >= blockCache[i].block.number
                                        /\ blockCache[i].block # ptr
    <3>1. \A i \in 1 .. Len(blockCache) : blockCache[1].block.number >= blockCache[i].block.number
      <4>1. \A i, j \in 1 .. Len(blockCache) :
              i < j => blockCache[i].block.number >= blockCache[j].block.number
        BY <1>1 DEF Newest
      <4>2. \A i \in 1 .. Len(blockCache) : blockCache[i].block.number \in Nat
        BY <1>1 DEF CacheEntry, Pointer
      <4>3. Len(blockCache) \in Nat
        BY <1>1
      <4>. QED  BY <4>1, <4>2, <4>3
    <3>2. \A i \in 1 .. Len(blockCache) : blockCache[1].block.number <= ptr.number
      BY <1>1, <1>3 DEF StartsEntry
    <3>3. \A i \in 1 .. Len(blockCache) : blockCache[i].block.number \in Nat
      BY <1>1 DEF CacheEntry, Pointer
    <3>. QED  BY <1>3, <3>1, <3>2, <3>3 DEF Pointer
  <2>10. Newest(s)
    <3>. SUFFICES ASSUME NEW i \in 1 .. Len(s), NEW j \in 1 .. Len(s), i < j
                  PROVE  s[i].block.number >= s[j].block.number /\ s[i].block # s[j].block
      BY DEF Newest
    <3>1. CASE i = 1
      BY <2>4, <2>6, <2>7, <2>9, <3>1
    <3>2. CASE i # 1
      <4>1. /\ i - 1 \in 1 .. Len(blockCache) /\ s[i] = blockCache[i - 1]
            /\ j - 1 \in 1 .. Len(blockCache) /\ s[j] = blockCache[j - 1] /\ i - 1 < j - 1
        <5>1. Len(s) \in Nat /\ i \in 2 .. Len(s) /\ j \in 2 .. Len(s)
          BY <2>6, <3>2
        <5>. QED  BY <2>7, <5>1
      <4>2. \A k, l \in 1 .. Len(blockCache) :
              k < l => /\ blockCache[k].block.number >= blockCache[l].block.number
                       /\ blockCache[k].block # blockCache[l].block
        BY <1>1 DEF Newest
      <4>. QED  BY <4>1, <4>2
    <3>. QED  BY <3>1, <3>2
  <2>. QED  BY <2>1, <2>5, <2>6, <2>8, <2>10 DEF BlockCacheOK
<1>4. CASE found = {} /\ ~StartsEntry(ptr)
  BY <1>1, <1>4 DEF BlockCacheInsert, BlockCacheOK
<1>. QED  BY <1>2, <1>3, <1>4

\* QueryBlockCache::get returns a stored result for the key.
LEMMA GetType ==
    ASSUME NEW B, BlockCacheOK(B, blockCache), NEW ptr, NEW key
    PROVE  /\ BlockCacheGet(ptr, key) \in Result
           /\ BlockCacheGet(ptr, key) # <<>> => RightData(B, key[2], BlockCacheGet(ptr, key))
<1>. DEFINE found == {i \in 1 .. Len(blockCache) : blockCache[i].block = ptr}
            at == CHOOSE i \in found : \A j \in found : i <= j
<1>1. CASE found = {}
  BY <1>1 DEF BlockCacheGet, Result
<1>2. CASE found # {}
  <2>1. at \in found
    <3>1. PICK n \in found : TRUE
      BY <1>2
    <3>2. \A j \in found : n <= j
      BY <3>1 DEF BlockCacheOK, Newest
    <3>. QED  BY <3>1, <3>2
  <2>. DEFINE f == blockCache[at].cache
  <2>2. BlockCacheGet(ptr, key) = Lookup(f, key)
    BY <1>2 DEF BlockCacheGet
  <2>3. f \in Results /\ RightResults(B, f)
    <3>. HIDE DEF at
    <3>1. at \in 1 .. Len(blockCache)
      BY <2>1
    <3>2. blockCache[at] \in CacheEntry /\ EntryOK(B, blockCache[at])
      BY <3>1 DEF BlockCacheOK
    <3>. QED  BY <3>2 DEF CacheEntry, EntryOK
  <2>. HIDE DEF f
  <2>. QED  BY <2>2, <2>3, LookupType DEF RightResults
<1>. QED  BY <1>1, <1>2

\* A block stays on the chain when the chain grows.
LEMMA OnChainForward ==
    ASSUME NEW ch \in Seq(Forks), NEW f \in Forks, NEW B, NEW ptr, OnChain(ch, B, ptr)
    PROVE  OnChain(Append(ch, f), B, ptr)
<1>. SUFFICES ASSUME ptr.hash \in Seq(Forks), ptr.hash \notin B
              PROVE  /\ Len(ptr.hash) <= Len(Append(ch, f))
                     /\ ptr.hash = SubSeq(Append(ch, f), 1, Len(ptr.hash))
  BY DEF OnChain
<1>. DEFINE n == Len(ptr.hash)
<1>1. n \in Nat /\ n <= Len(ch) /\ ptr.hash = SubSeq(ch, 1, n)
  BY DEF OnChain
<1>. HIDE DEF n
<1>2. SubSeq(ch, 1, n) = SubSeq(Append(ch, f), 1, n)
  BY <1>1
<1>. QED  BY <1>1, <1>2 DEF n

\* When the latest block is reverted, the others stay on the chain.
LEMMA OnChainBack ==
    ASSUME NEW ch \in Seq(Forks), Len(ch) > 1, NEW B, NEW ptr, OnChain(ch, B, ptr)
    PROVE  OnChain(Front(ch), B \cup {ch}, ptr)
<1>. SUFFICES ASSUME ptr.hash \in Seq(Forks), ptr.hash \notin B, ptr.hash # ch
              PROVE  /\ Len(ptr.hash) <= Len(Front(ch))
                     /\ ptr.hash = SubSeq(Front(ch), 1, Len(ptr.hash))
  BY DEF OnChain
<1>. DEFINE n == Len(ptr.hash)
<1>1. n \in Nat /\ n <= Len(ch) /\ ptr.hash = SubSeq(ch, 1, n)
  BY DEF OnChain
<1>. HIDE DEF n
<1>2. n # Len(ch)
  BY <1>1
<1>3. Front(ch) \in Seq(Forks) /\ Len(Front(ch)) = Len(ch) - 1
  BY DEF Front
<1>4. SubSeq(ch, 1, n) = SubSeq(Front(ch), 1, n)
  BY <1>1, <1>2 DEF Front
<1>. QED  BY <1>1, <1>2, <1>3, <1>4 DEF n

\* An execution that reads the data at the number of its block reads the block, if that
\* is still on the chain.
LEMMA ReadsBlock ==
    ASSUME NEW ch \in Seq(Forks), NEW B, NEW ptr \in Pointer, OnChain(ch, B, ptr),
           NEW result, result \in {Failure, SubSeq(ch, 1, IF ptr.number < Len(ch)
                                                          THEN ptr.number ELSE Len(ch))}
    PROVE  result \in Result /\ RightData(B, ptr, result)
<1>1. ptr.number \in Nat /\ Len(ch) \in Nat
  BY DEF Pointer
<1>. DEFINE m == IF ptr.number < Len(ch) THEN ptr.number ELSE Len(ch)
<1>2. m \in 0 .. Len(ch) /\ (ptr.number <= Len(ch) => m = ptr.number)
  BY <1>1
<1>3. result \in {Failure, SubSeq(ch, 1, m)}
  OBVIOUS
<1>. HIDE DEF m
<1>4. SubSeq(ch, 1, m) \in Seq(Forks)
  BY <1>1, <1>2
<1>5. ASSUME ptr.hash \in Seq(Forks), ptr.hash \notin B
      PROVE  SubSeq(ch, 1, m) = ptr.hash
  BY <1>1, <1>2, <1>5 DEF OnChain
<1>. QED  BY <1>3, <1>4, <1>5 DEF RightData, Result

----------------------------------------------------------------------------
(* The initial states *)

\* Initially nobody waits, and the block cache is empty or holds an earlier result.
LEMMA CachingInitInv == CachingInit => CachingInv
<1>. SUFFICES ASSUME CachingInit PROVE CachingInv
  OBVIOUS
<1>1. FirstChain \in Seq(Forks) /\ Len(FirstChain) = 1
  BY CachingAssumption DEF FirstChain
<1>2. <<>> \in Result /\ <<>> \in Results /\ NoWork \in Work
  BY DEF Result, Results, NoWork, Work, Stages
<1>3. /\ client \in [Clients -> Client]
      /\ \A c \in Clients : client[c].step = "new" /\ client[c].ptr.hash = NoHash
  <2>1. [hash |-> NoHash, number |-> 0] \in Pointer
    BY DEF Pointer
  <2>. DEFINE fresh(c) == [step |-> "new", request |-> client[c].request,
                           ptr |-> [hash |-> NoHash, number |-> 0],
                           state |-> [count |-> 0, latest |-> 0], result |-> <<>>,
                           shared |-> 0, hit |-> FALSE]
  <2>2. client = [c \in Clients |-> client[c]]
    BY DEF CachingInit
  <2>3. ASSUME NEW c \in Clients
        PROVE  client[c] = fresh(c) /\ client[c].request \in ClientRequests
    BY DEF CachingInit
  <2>4. ASSUME NEW c \in Clients
        PROVE  client[c] \in Client
    <3>1. client[c].request \in ClientRequests
      BY <2>3
    <3>2. fresh(c) \in Client
      BY <1>2, <2>1, <3>1 DEF Client, ClientSteps
    <3>. QED  BY <2>3, <3>2, Zenon
  <2>5. ASSUME NEW c \in Clients
        PROVE  client[c].step = "new" /\ client[c].ptr.hash = NoHash
    <3>1. fresh(c).step = "new" /\ fresh(c).ptr.hash = NoHash
      OBVIOUS
    <3>. QED  BY <2>3, <3>1, Zenon
  <2>. QED  BY <2>2, <2>4, <2>5
<1>4. Types
  BY <1>1, <1>2, <1>3 DEF CachingInit, Types
<1>5. PermitsOK
  <2>1. Holding = {}
    BY DEF CachingInit, Holding, NoWork
  <2>. QED  BY <2>1, FS_EmptySet, CachingAssumption DEF CachingInit, PermitsOK
<1>6. BlockCacheOK(undone.blocks, blockCache)
  <2>1. CASE blockCache = <<>>
    BY <2>1, CachingAssumption DEF BlockCacheOK, Newest
  <2>2. CASE blockCache = <<EarlierEntry>>
    <3>. DEFINE ptr == [hash |-> FirstChain, number |-> 1]
                f == [k \in {<<"q0", ptr>>} |-> FirstChain]
    <3>1. EarlierEntry = [block |-> ptr, weight |-> 1, cache |-> f]
      BY DEF EarlierEntry
    <3>2. ptr \in Pointer /\ <<"q0", ptr>> \in Key
      BY <1>1 DEF Pointer, Key
    <3>3. f \in Results
      <4>1. FirstChain \in Result /\ {<<"q0", ptr>>} \in SUBSET Key
        BY <1>1, <3>2 DEF Result
      <4>2. f \in [{<<"q0", ptr>>} -> Result]
        BY <4>1
      <4>. QED  BY <4>1, <4>2 DEF Results
    <3>4. IsFiniteSet(DOMAIN f) /\ Cardinality(DOMAIN f) = 1
      BY FS_Singleton
    <3>5. RightResults(undone.blocks, f)
      BY DEF RightResults, RightData
    <3>6. \A k \in DOMAIN f : f[k] # Failure
      BY <1>1, Marks
    <3>. HIDE DEF f, ptr
    <3>7. EarlierEntry \in CacheEntry /\ EntryOK(undone.blocks, EarlierEntry)
      BY <3>1, <3>2, <3>3, <3>4, <3>5, <3>6, CachingAssumption DEF CacheEntry, EntryOK
    <3>8. /\ blockCache \in Seq(CacheEntry) /\ Len(blockCache) = 1
          /\ \A i \in 1 .. Len(blockCache) : blockCache[i] = EarlierEntry
      BY <2>2, <3>7
    <3>. QED  BY <3>7, <3>8, CachingAssumption DEF BlockCacheOK, Newest
  <2>. QED  BY <2>1, <2>2 DEF CachingInit
<1>7. RightResults(undone.blocks, lfuCache)
  BY DEF CachingInit, RightResults
<1>8. \A c \in Clients : ClientOK(c) /\ LocatedOK(c)
  BY <1>3, Marks DEF CachingInit, ClientOK, LocatedOK, OnChain, NoWork
<1>9. HerdOK
  BY DEF CachingInit, HerdOK
<1>. QED  BY <1>4, <1>5, <1>6, <1>7, <1>8, <1>9 DEF CachingInv

----------------------------------------------------------------------------
(* The indexer *)

\* A step of the indexer changes the chain and the reverted blocks only.  It keeps the
\* invariant if no block that was not reverted leaves the chain.
LEMMA IndexerStep ==
    ASSUME CachingInv, UNCHANGED <<client, work, herd, cacheVars, permits>>,
           chain' \in Seq(Forks),
           undone' \in [count : Int, current : Int, max : Int, blocks : SUBSET Seq(Forks)],
           undone.blocks \subseteq undone'.blocks,
           \A ptr : OnChain(chain, undone.blocks, ptr) => OnChain(chain', undone'.blocks, ptr)
    PROVE  CachingInv'
<1>. USE DEF CachingInv
<1>1. Types'
  BY DEF Types, cacheVars
<1>2. PermitsOK'
  BY DEF PermitsOK, Holding
<1>3. BlockCacheOK(undone.blocks, blockCache)' /\ RightResults(undone.blocks, lfuCache)'
  BY RightStays DEF cacheVars
<1>4. \A c \in Clients : ClientOK(c)'
  <2>1. \A ptr, result : RightData(undone.blocks, ptr, result)
                            => RightData(undone'.blocks, ptr, result)
    BY RightStays
  <2>. QED  BY <2>1 DEF ClientOK
<1>5. \A c \in Clients : LocatedOK(c)'
  BY DEF LocatedOK
<1>6. HerdOK'
  BY DEF HerdOK, KeyOf, Indexing
<1>. QED  BY <1>1, <1>2, <1>3, <1>4, <1>5, <1>6

\* The chain grows.
LEMMA ForwardStep == CachingInv /\ ChainForward => CachingInv'
<1>. SUFFICES ASSUME CachingInv, ChainForward PROVE CachingInv'
  OBVIOUS
<1>1. PICK f \in Forks : chain' = Append(chain, f)
  BY DEF ChainForward
<1>2. chain \in Seq(Forks) /\ chain' \in Seq(Forks)
  BY <1>1 DEF CachingInv, Types
<1>3. /\ undone' \in [count : Int, current : Int, max : Int, blocks : SUBSET Seq(Forks)]
      /\ undone'.blocks = undone.blocks
  BY DEF CachingInv, Types, ChainForward
<1>4. \A ptr : OnChain(chain, undone.blocks, ptr) => OnChain(chain', undone'.blocks, ptr)
  BY <1>1, <1>2, <1>3, OnChainForward
<1>. QED  BY <1>2, <1>3, <1>4, IndexerStep DEF ChainForward

\* The latest block is reverted, and remembered as such.
LEMMA RevertStep == CachingInv /\ ChainRevert => CachingInv'
<1>. SUFFICES ASSUME CachingInv, ChainRevert PROVE CachingInv'
  OBVIOUS
<1>1. chain \in Seq(Forks) /\ Len(chain) > 1 /\ chain' = Front(chain)
  BY DEF CachingInv, Types, ChainRevert
<1>2. chain' \in Seq(Forks)
  BY <1>1 DEF Front
<1>3. undone \in [count : Int, current : Int, max : Int, blocks : SUBSET Seq(Forks)]
  BY DEF CachingInv, Types
<1>4. /\ undone' \in [count : Int, current : Int, max : Int, blocks : SUBSET Seq(Forks)]
      /\ undone'.blocks = undone.blocks \cup {chain}
  BY <1>1, <1>3 DEF ChainRevert
<1>5. \A ptr : OnChain(chain, undone.blocks, ptr) => OnChain(chain', undone'.blocks, ptr)
  BY <1>1, <1>4, OnChainBack
<1>. QED  BY <1>2, <1>4, <1>5, IndexerStep DEF ChainRevert

----------------------------------------------------------------------------
(* The steps of a request *)

\* What a step that leaves the chain and the caches alone does not disturb.
LEMMA CachesStay ==
    ASSUME CachingInv, UNCHANGED <<chainVars, cacheVars>>
    PROVE  /\ chain' \in Seq(Forks)
           /\ undone' \in [count : Int, current : Int, max : Int, blocks : SUBSET Seq(Forks)]
           /\ lfuCache' \in Results
           /\ BlockCacheOK(undone.blocks, blockCache)' /\ RightResults(undone.blocks, lfuCache)'
BY DEF CachingInv, Types, chainVars, cacheVars

\* A request arrives and its block is located.
LEMMA ArriveStep ==
    ASSUME CachingInv, NEW c \in Clients, Arrive(c)
    PROVE  CachingInv'
<1>. USE DEF CachingInv
<1>. DEFINE next == IF client[c].request.by = "number"
                            /\ client[c].request.number > Len(chain) THEN "failed"
                    ELSE IF Indexing(c) THEN "enter" ELSE "lookup"
            ptr == IF Indexing(c) THEN client[c].ptr ELSE Located(client[c].request)
            st == [count |-> undone.count, latest |-> Len(chain)]
<1>0. /\ client \in [Clients -> Client] /\ client[c] \in Client
      /\ client[c].request \in ClientRequests /\ client[c].step = "new"
      /\ UNCHANGED <<chainVars, work, herd, cacheVars, permits>>
  BY DEF Types, Client, Arrive
<1>1. next \in {"failed", "enter", "lookup"} /\ st \in [count : Int, latest : Int]
  BY DEF Types
<1>2. ptr \in Pointer /\ OnChain(chain, undone.blocks, ptr)
      /\ (client[c].request.by = "latest" => ptr.hash # NoHash)
  <2>1. CASE Indexing(c)
    BY <1>0, <2>1 DEF Indexing, Client, LocatedOK
  <2>2. CASE ~Indexing(c) /\ client[c].request.by = "latest"
    <3>1. ptr = [hash |-> chain, number |-> Len(chain)]
      BY <2>2 DEF Located
    <3>2. chain \in Seq(Forks) /\ chain = SubSeq(chain, 1, Len(chain))
      BY DEF Types
    <3>. QED  BY <3>1, <3>2, Marks DEF Pointer, OnChain
  <2>3. CASE ~Indexing(c) /\ client[c].request.by # "latest"
    <3>1. ptr = [hash |-> NoHash, number |-> client[c].request.number]
      BY <2>3 DEF Located
    <3>2. client[c].request.number \in Nat
      BY <1>0, CachingAssumption
    <3>. QED  BY <2>3, <3>1, <3>2, Marks DEF Pointer, OnChain
  <2>. QED  BY <2>1, <2>2, <2>3
<1>3. client' = [client EXCEPT ![c].step = next, ![c].state = st, ![c].ptr = ptr]
  BY DEF Arrive
<1>. HIDE DEF next, ptr, st
<1>4. /\ client' \in [Clients -> Client] /\ \A d \in Clients \ {c} : client'[d] = client[d]
      /\ client'[c].step = next /\ client'[c].ptr = ptr
      /\ client'[c].request = client[c].request
  BY <1>0, <1>1, <1>2, <1>3 DEF Client, ClientSteps
<1>5. Types'
  BY <1>0, <1>4, CachesStay DEF Types
<1>6. PermitsOK'
  BY <1>0 DEF PermitsOK, Holding
<1>7. \A d \in Clients : ClientOK(d)'
  <2>1. work[c].stage = "none"
    BY <1>0 DEF ClientOK
  <2>2. ClientOK(c)'
    BY <1>0, <1>1, <1>4, <2>1 DEF ClientOK
  <2>3. ASSUME NEW d \in Clients \ {c}
        PROVE  ClientOK(d)'
    <3>1. ClientOK(d) /\ client'[d] = client[d]
      BY <1>4
    <3>2. client[d].step = "wait" => client[d].shared # c
      BY <2>1 DEF ClientOK
    <3>. QED  BY <1>0, <1>4, <3>1, <3>2 DEF ClientOK, chainVars
  <2>. QED  BY <2>2, <2>3
<1>8. \A d \in Clients : LocatedOK(d)'
  BY <1>0, <1>1, <1>2, <1>4 DEF LocatedOK, chainVars
<1>9. HerdOK'
  <2>1. \A key \in DOMAIN herd : herd[key] # c
    BY <1>0 DEF HerdOK
  <2>. QED  BY <1>0, <1>4, <2>1 DEF HerdOK, KeyOf, Indexing, Types
<1>. QED  BY <1>0, <1>5, <1>6, <1>7, <1>8, <1>9, CachesStay

\* The caches are asked.
LEMMA LookupStep ==
    ASSUME CachingInv, NEW c \in Clients, LookupCaches(c)
    PROVE  CachingInv'
<1>. USE DEF CachingInv
<1>. DEFINE recent == BlockCacheGet(client[c].ptr, KeyOf(c))
            older == Lookup(lfuCache, KeyOf(c))
            found == IF recent # <<>> THEN recent ELSE older
<1>0. /\ client \in [Clients -> Client] /\ client[c] \in Client
      /\ client[c].step = "lookup" /\ UNCHANGED <<chainVars, work, herd, cacheVars, permits>>
  BY DEF Types, LookupCaches
<1>1. found \in Result /\ (found # <<>> => RightData(undone.blocks, client[c].ptr, found))
  <2>1. KeyOf(c)[2] = client[c].ptr
    BY DEF KeyOf
  <2>2. /\ recent \in Result
        /\ recent # <<>> => RightData(undone.blocks, client[c].ptr, recent)
    BY <2>1, GetType
  <2>3. /\ older \in Result
        /\ older # <<>> => RightData(undone.blocks, client[c].ptr, older)
    BY <2>1, LookupType DEF Types, RightResults
  <2>. QED  BY <2>2, <2>3
<1>2. client' = [client EXCEPT ![c].step = IF found = <<>> THEN "enter" ELSE "answer",
                               ![c].result = found, ![c].hit = (found # <<>>)]
  BY DEF LookupCaches
<1>. HIDE DEF found
<1>4. /\ client' \in [Clients -> Client] /\ \A d \in Clients \ {c} : client'[d] = client[d]
      /\ client'[c].step = IF found = <<>> THEN "enter" ELSE "answer"
      /\ client'[c].ptr = client[c].ptr /\ client'[c].result = found
      /\ client'[c].request = client[c].request
  BY <1>0, <1>1, <1>2 DEF Client, ClientSteps
<1>5. Types'
  BY <1>0, <1>4, CachesStay DEF Types
<1>6. PermitsOK'
  BY <1>0 DEF PermitsOK, Holding
<1>7. \A d \in Clients : ClientOK(d)'
  <2>1. work[c].stage = "none"
    BY <1>0 DEF ClientOK
  <2>2. ClientOK(c)'
    BY <1>0, <1>1, <1>4, <2>1 DEF ClientOK, chainVars
  <2>3. ASSUME NEW d \in Clients \ {c}
        PROVE  ClientOK(d)'
    <3>1. ClientOK(d) /\ client'[d] = client[d]
      BY <1>4
    <3>2. client[d].step = "wait" => client[d].shared # c
      BY <2>1 DEF ClientOK
    <3>. QED  BY <1>0, <1>4, <3>1, <3>2 DEF ClientOK, chainVars
  <2>. QED  BY <2>2, <2>3
<1>8. \A d \in Clients : LocatedOK(d)'
  BY <1>0, <1>4 DEF LocatedOK, chainVars
<1>9. HerdOK'
  <2>1. \A key \in DOMAIN herd : herd[key] # c
    BY <1>0 DEF HerdOK
  <2>. QED  BY <1>0, <1>4, <2>1 DEF HerdOK, KeyOf, Indexing, Types
<1>. QED  BY <1>0, <1>5, <1>6, <1>7, <1>8, <1>9, CachesStay

\* The clients whose execution holds a permit are finitely many.
LEMMA HoldingFinite == IsFiniteSet(Holding) /\ Cardinality(Holding) \in Nat
<1>1. Holding \in SUBSET Clients
  BY DEF Holding
<1>. QED  BY <1>1, CachingAssumption, FS_Subset, FS_CardinalityType

\* A permit is taken for an execution that has none.
LEMMA PermitTaken ==
    ASSUME PermitsOK, NEW c \in Clients \ Holding, Holding' = Holding \cup {c},
           permits' = permits - 1
    PROVE  PermitsOK'
<1>1. Cardinality(Holding \cup {c}) = Cardinality(Holding) + 1
  BY HoldingFinite, FS_AddElement
<1>. QED  BY <1>1, HoldingFinite, CachingAssumption DEF PermitsOK

\* A permit is given back by an execution that has one.
LEMMA PermitReturned ==
    ASSUME PermitsOK, NEW c \in Holding, Holding' = Holding \ {c}, permits' = permits + 1
    PROVE  PermitsOK'
<1>1. Cardinality(Holding \ {c}) = Cardinality(Holding) - 1
  BY HoldingFinite, FS_RemoveElement
<1>. QED  BY <1>1, HoldingFinite, CachingAssumption DEF PermitsOK

\* A step of an execution that is under way, with the result it ends with.
LEMMA WorkStep ==
    ASSUME CachingInv, NEW c \in Clients, UNCHANGED <<chainVars, client, herd, cacheVars>>,
           NEW stage \in Stages \ {"none", "dropped"}, NEW result \in Result,
           work[c].stage \notin {"none", "dropped"},
           work' = [work EXCEPT ![c].stage = stage, ![c].result = result],
           stage = "done" => RightData(undone.blocks, client[c].ptr, result),
           PermitsOK'
    PROVE  CachingInv'
<1>. USE DEF CachingInv
<1>1. work \in [Clients -> Work]
  BY DEF Types
<1>2. /\ work' \in [Clients -> Work] /\ work'[c].stage = stage /\ work'[c].result = result
      /\ \A d \in Clients : work'[d].holders = work[d].holders
      /\ \A d \in Clients \ {c} : work'[d] = work[d]
  BY <1>1, ZenonT(30) DEF Work
<1>3. Types'
  BY <1>2, CachesStay DEF Types
<1>4. \A d \in Clients : ClientOK(d)'
  <2>1. ASSUME NEW d \in Clients, d # c
        PROVE  ClientOK(d)'
    <3>1. ClientOK(d) /\ work'[d] = work[d]
      BY <1>2, <2>1
    <3>. QED  BY <1>2, <3>1 DEF ClientOK, chainVars, Stages
  <2>2. ClientOK(c)'
    BY <1>2 DEF ClientOK, chainVars, Stages
  <2>. QED  BY <2>1, <2>2
<1>5. (\A d \in Clients : LocatedOK(d)') /\ HerdOK'
  BY DEF LocatedOK, HerdOK, KeyOf, Indexing, chainVars
<1>. QED  BY <1>3, <1>4, <1>5, CachesStay

\* An execution takes a permit.
LEMMA TakePermitStep ==
    ASSUME CachingInv, NEW c \in Clients, TakePermit(c)
    PROVE  CachingInv'
<1>. DEFINE stage == IF Indexing(c) THEN "nested" ELSE "running"
<1>1. /\ work \in [Clients -> Work] /\ work[c].stage = "queued" /\ permits' = permits - 1
      /\ work' = [work EXCEPT ![c].stage = stage]
      /\ UNCHANGED <<chainVars, client, herd, cacheVars>>
  BY DEF CachingInv, Types, TakePermit
<1>2. stage \in {"nested", "running"}
  OBVIOUS
<1>. HIDE DEF stage
<1>3. work' = [work EXCEPT ![c].stage = stage, ![c].result = work[c].result]
  BY <1>1 DEF Work
<1>4. Holding' = Holding \cup {c} /\ c \notin Holding
  BY <1>1, <1>2 DEF Holding, Work
<1>5. PermitsOK'
  BY <1>1, <1>4, PermitTaken DEF CachingInv
<1>6. PICK result \in Result : result = work[c].result
  BY <1>1 DEF Work
<1>7. PICK s \in {"nested", "running"} : s = stage
  BY <1>2
<1>8. work' = [work EXCEPT ![c].stage = s, ![c].result = result]
  BY <1>3, <1>6, <1>7
<1>9. /\ s \in Stages \ {"none", "dropped"} /\ work[c].stage \notin {"none", "dropped"}
      /\ s = "done" => RightData(undone.blocks, client[c].ptr, result)
  BY <1>1, <1>7 DEF Stages
<1>10. result \in Result
  BY <1>6
<1>. QED  BY <1>1, <1>5, <1>8, <1>9, <1>10, WorkStep

\* The query within a query of the index node keeps the permit of its own.
LEMMA NestedStep ==
    ASSUME CachingInv, NEW c \in Clients, NestedQuery(c)
    PROVE  CachingInv'
<1>1. /\ work \in [Clients -> Work] /\ work[c].stage = "nested" /\ permits' = permits
      /\ work' = [work EXCEPT ![c].stage = "running"]
      /\ UNCHANGED <<chainVars, client, herd, cacheVars>>
  BY DEF CachingInv, Types, NestedQuery
<1>2. work' = [work EXCEPT ![c].stage = "running", ![c].result = work[c].result]
  BY <1>1 DEF Work
<1>3. Holding' = Holding
  BY <1>1 DEF Holding, Work
<1>4. PermitsOK'
  BY <1>1, <1>3 DEF CachingInv, PermitsOK
<1>5. PICK result \in Result : result = work[c].result
  BY <1>1 DEF Work
<1>6. work' = [work EXCEPT ![c].stage = "running", ![c].result = result]
  BY <1>2, <1>5
<1>7. /\ "running" \in Stages \ {"none", "dropped"} /\ work[c].stage \notin {"none", "dropped"}
      /\ "running" = "done" => RightData(undone.blocks, client[c].ptr, result)
  BY <1>1 DEF Stages
<1>8. result \in Result
  BY <1>5
<1>. QED  BY <1>1, <1>4, <1>6, <1>7, <1>8, WorkStep

\* An execution ends and gives its permit back.
LEMMA ExecuteStep ==
    ASSUME CachingInv, NEW c \in Clients, Execute(c)
    PROVE  CachingInv'
<1>1. /\ work \in [Clients -> Work] /\ work[c].stage = "running" /\ permits' = permits + 1
      /\ UNCHANGED <<chainVars, client, herd, cacheVars>>
  BY DEF CachingInv, Types, Execute
<1>2. PICK result \in {Failure, SubSeq(chain, 1, IF client[c].ptr.number < Len(chain)
                                                 THEN client[c].ptr.number ELSE Len(chain))} :
         work' = [work EXCEPT ![c].stage = "done", ![c].result = result]
  BY DEF Execute
<1>3. result \in Result /\ RightData(undone.blocks, client[c].ptr, result)
  <2>1. /\ chain \in Seq(Forks) /\ client[c].ptr \in Pointer
        /\ OnChain(chain, undone.blocks, client[c].ptr)
    BY DEF CachingInv, Types, Client, LocatedOK
  <2>. QED  BY <1>2, <2>1, ReadsBlock
<1>4. Holding' = Holding \ {c} /\ c \in Holding
  BY <1>1, <1>2 DEF Holding, Work
<1>5. PermitsOK'
  BY <1>1, <1>4, PermitReturned DEF CachingInv
<1>. QED  BY <1>1, <1>2, <1>3, <1>5, WorkStep DEF Stages

\* A client joins an execution or starts one.
LEMMA EnterStep ==
    ASSUME CachingInv, NEW c \in Clients, EnterHerd(c)
    PROVE  CachingInv'
<1>. USE DEF CachingInv
<1>. DEFINE owner == IF ~Indexing(c) /\ KeyOf(c) \in DOMAIN herd THEN herd[KeyOf(c)] ELSE c
<1>0. /\ client \in [Clients -> Client] /\ work \in [Clients -> Work] /\ client[c] \in Client
      /\ client[c].step = "enter" /\ work[c].stage = "none"
      /\ UNCHANGED <<chainVars, cacheVars, permits>>
  BY DEF Types, EnterHerd, ClientOK
<1>1. owner \in Clients
  BY DEF Types
<1>2. owner # c => /\ ~Indexing(c) /\ KeyOf(c) \in DOMAIN herd /\ herd[KeyOf(c)] = owner
                   /\ client[owner].step = "wait" /\ client[owner].shared = owner
                   /\ KeyOf(owner) = KeyOf(c) /\ client[owner].ptr = client[c].ptr
                   /\ work[owner].stage \notin {"none", "dropped"}
  BY <1>1 DEF HerdOK, KeyOf, ClientOK
<1>3. /\ client' = [client EXCEPT ![c].step = "wait", ![c].shared = owner]
      /\ work' = [work EXCEPT
            ![owner] = IF owner = c THEN [NoWork EXCEPT !.stage = "queued", !.holders = {c}]
                       ELSE [work[owner] EXCEPT !.holders = @ \cup {c}]]
      /\ herd' = IF owner = c /\ ~Indexing(c) THEN Stored(herd, KeyOf(c), c) ELSE herd
  BY DEF EnterHerd
<1>. HIDE DEF owner
<1>4. /\ client' \in [Clients -> Client] /\ \A d \in Clients \ {c} : client'[d] = client[d]
      /\ client'[c].step = "wait" /\ client'[c].shared = owner
      /\ client'[c].ptr = client[c].ptr /\ client'[c].request = client[c].request
  BY <1>0, <1>1, <1>3 DEF Client, ClientSteps
<1>5. /\ work' \in [Clients -> Work] /\ \A d \in Clients \ {owner} : work'[d] = work[d]
      /\ work'[owner].stage = IF owner = c THEN "queued" ELSE work[owner].stage
      /\ owner # c => work'[owner].result = work[owner].result
      /\ c \in work'[owner].holders
      /\ work[owner].stage # "none" => work[owner].holders \subseteq work'[owner].holders
  <2>. DEFINE new == [NoWork EXCEPT !.stage = "queued", !.holders = {c}]
              joined == [work[owner] EXCEPT !.holders = @ \cup {c}]
  <2>upd. work' = [work EXCEPT ![owner] = IF owner = c THEN new ELSE joined]
    BY <1>3, Zenon
  <2>1. CASE owner = c
    <3>0. NoWork \in Work
      BY DEF NoWork, Work, Stages, Result
    <3>1. PICK none \in Work : none = NoWork
      BY <3>0
    <3>. DEFINE w == [none EXCEPT !.stage = "queued", !.holders = {c}]
    <3>2. w \in Work /\ w.stage = "queued" /\ w.holders = {c}
      BY <3>1 DEF Work, Stages
    <3>3. work' = [work EXCEPT ![owner] = w]
      BY <2>1, <2>upd, <3>1
    <3>. HIDE DEF w
    <3>. QED  BY <1>0, <1>1, <2>1, <3>2, <3>3
  <2>2. CASE owner # c
    <3>. DEFINE w == [work[owner] EXCEPT !.holders = @ \cup {c}]
    <3>1. w \in Work /\ w.stage = work[owner].stage /\ w.result = work[owner].result
          /\ w.holders = work[owner].holders \cup {c}
      BY <1>0, <1>1 DEF Work
    <3>2. work' = [work EXCEPT ![owner] = w]
      BY <2>2, <2>upd
    <3>. HIDE DEF w
    <3>. QED  BY <1>0, <1>1, <2>2, <3>1, <3>2
  <2>. QED  BY <2>1, <2>2
<1>6. /\ \A key \in DOMAIN herd' : \/ key \in DOMAIN herd /\ herd'[key] = herd[key]
                                   \/ key = KeyOf(c) /\ herd'[key] = c /\ owner = c /\ ~Indexing(c)
  BY <1>3 DEF Stored
<1>7. Types'
  BY <1>0, <1>4, <1>5, <1>6, CachesStay DEF Types
<1>8. PermitsOK'
  <2>1. Holding' = Holding
    BY <1>0, <1>1, <1>5 DEF Holding
  <2>. QED  BY <1>0, <2>1 DEF PermitsOK
<1>9. ASSUME NEW d \in Clients
      PROVE  ClientOK(d)'
  <2>1. CASE d = c
    BY <1>0, <1>1, <1>2, <1>4, <1>5, <2>1 DEF ClientOK
  <2>2. CASE d # c
    <3>1. ClientOK(d) /\ client'[d] = client[d]
      BY <1>4, <2>2
    <3>2. work'[d].stage = work[d].stage /\ work'[d].result = work[d].result
      BY <1>1, <1>5, <2>2
    <3>3. client[d].step = "wait" =>
             /\ client[d].shared # c /\ client'[client[d].shared] = client[client[d].shared]
             /\ work'[client[d].shared].stage = work[client[d].shared].stage
             /\ work[client[d].shared].holders \subseteq work'[client[d].shared].holders
      BY <1>0, <1>1, <1>4, <1>5, <3>1 DEF ClientOK
    <3>. QED  BY <1>0, <1>4, <3>1, <3>2, <3>3 DEF ClientOK, chainVars
  <2>. QED  BY <2>1, <2>2
<1>10. \A d \in Clients : LocatedOK(d)'
  BY <1>0, <1>4 DEF LocatedOK, chainVars
<1>11. HerdOK'
  <2>1. \A key \in DOMAIN herd : herd[key] # c /\ herd[key] \in Clients
    BY <1>0 DEF HerdOK, Types
  <2>. QED  BY <1>4, <1>6, <2>1 DEF HerdOK, KeyOf, Indexing
<1>. QED  BY <1>0, <1>7, <1>8, <1>9, <1>10, <1>11, CachesStay

\* When a client leaves the herd, no execution of its own is on the list any more.
LEMMA HerdLeft ==
    ASSUME CachingInv, NEW c \in Clients
    PROVE  \A key \in DOMAIN LeaveHerd(c) :
              key \in DOMAIN herd /\ LeaveHerd(c)[key] = herd[key] /\ herd[key] # c
<1>1. \A key \in DOMAIN herd : herd[key] = c => client[c].shared = c /\ ~Indexing(c) /\ key = KeyOf(c)
  BY DEF CachingInv, HerdOK
<1>2. CASE client[c].shared = c /\ ~Indexing(c)
  BY <1>1, <1>2 DEF LeaveHerd, Without
<1>3. CASE ~(client[c].shared = c /\ ~Indexing(c))
  BY <1>1, <1>3 DEF LeaveHerd
<1>. QED  BY <1>2, <1>3

\* The execution a client waits for ends.
LEMMA ResolveStep ==
    ASSUME CachingInv, NEW c \in Clients, Resolve(c)
    PROVE  CachingInv'
<1>. USE DEF CachingInv
<1>. DEFINE owner == client[c].shared
<1>0. /\ client \in [Clients -> Client] /\ work \in [Clients -> Work] /\ client[c] \in Client
      /\ client[c].step = "wait" /\ work[owner].stage = "done" /\ herd' = LeaveHerd(c)
      /\ UNCHANGED <<chainVars, work, cacheVars, permits>>
      /\ client' = [client EXCEPT ![c].step = "store", ![c].result = work[owner].result]
  BY DEF Types, Resolve
<1>1. owner \in Clients /\ client[owner].ptr = client[c].ptr
  BY <1>0 DEF ClientOK
<1>2. work[owner].result \in Result /\ RightData(undone.blocks, client[c].ptr, work[owner].result)
  BY <1>0, <1>1 DEF ClientOK, Work
<1>. HIDE DEF owner
<1>4. /\ client' \in [Clients -> Client] /\ \A d \in Clients \ {c} : client'[d] = client[d]
      /\ client'[c].step = "store" /\ client'[c].result = work[owner].result
      /\ client'[c].ptr = client[c].ptr /\ client'[c].request = client[c].request
  BY <1>0, <1>2 DEF Client, ClientSteps
<1>5. Types'
  BY <1>0, <1>4, HerdLeft, CachesStay DEF Types
<1>6. PermitsOK'
  BY <1>0 DEF PermitsOK, Holding
<1>7. ASSUME NEW d \in Clients
      PROVE  ClientOK(d)'
  <2>1. \A e \in Clients : client'[e].ptr = client[e].ptr
    BY <1>4
  <2>2. CASE d = c
    BY <1>0, <1>2, <1>4, <2>2 DEF ClientOK, chainVars
  <2>3. CASE d # c
    BY <1>0, <1>4, <2>1, <2>3 DEF ClientOK, chainVars
  <2>. QED  BY <2>2, <2>3
<1>8. \A d \in Clients : LocatedOK(d)'
  BY <1>0, <1>4 DEF LocatedOK, chainVars
<1>9. HerdOK'
  <2>1. ASSUME NEW key \in DOMAIN herd'
        PROVE  key \in DOMAIN herd /\ herd'[key] = herd[key] /\ herd[key] \in Clients \ {c}
    BY <1>0, HerdLeft DEF Types
  <2>. QED  BY <1>4, <2>1 DEF HerdOK, KeyOf, Indexing
<1>. QED  BY <1>0, <1>5, <1>6, <1>7, <1>8, <1>9, CachesStay

\* The client that started the execution stores the result.
LEMMA StoreStep ==
    ASSUME CachingInv, NEW c \in Clients, StoreResult(c)
    PROVE  CachingInv'
<1>. USE DEF CachingInv
<1>. DEFINE inserted == BlockCacheInsert(client[c].ptr, KeyOf(c), client[c].result)
<1>0. /\ client \in [Clients -> Client] /\ client[c] \in Client /\ client[c].step = "store"
      /\ client' = [client EXCEPT ![c].step = "answer"]
      /\ UNCHANGED <<chainVars, work, herd, permits>>
  BY DEF Types, StoreResult
<1>1. /\ client[c].ptr \in Pointer /\ client[c].result \in Result
      /\ KeyOf(c) \in Key /\ KeyOf(c)[2] = client[c].ptr
      /\ RightData(undone.blocks, client[c].ptr, client[c].result)
  BY <1>0 DEF Client, KeyOf, Key, ClientOK
<1>2. /\ lfuCache' \in Results /\ RightResults(undone.blocks, lfuCache')
      /\ BlockCacheOK(undone.blocks, blockCache')
  <2>1. CASE ~Cacheable(c)
    BY <2>1 DEF StoreResult, cacheVars, Types
  <2>2. CASE Cacheable(c)
    <3>1. BlockCacheOK(undone.blocks, blockCache')
      <4>1. blockCache' = inserted.cache
        BY <2>2 DEF StoreResult
      <4>. QED  BY <1>1, <2>2, <4>1, InsertKeepsBlockCache DEF Cacheable
    <3>2. CASE lfuCache' = lfuCache
      BY <3>1, <3>2 DEF Types
    <3>3. CASE \E kept \in SUBSET DOMAIN lfuCache :
                  lfuCache' = Stored([k \in kept |-> lfuCache[k]], KeyOf(c), client[c].result)
      <4>1. PICK kept \in SUBSET DOMAIN lfuCache :
               lfuCache' = Stored([k \in kept |-> lfuCache[k]], KeyOf(c), client[c].result)
        BY <3>3
      <4>. DEFINE f == [k \in kept |-> lfuCache[k]]
      <4>2. f \in Results
        BY KeptType DEF Types
      <4>3. RightResults(undone.blocks, f)
        BY DEF RightResults
      <4>. HIDE DEF f
      <4>4. lfuCache' = Stored(f, KeyOf(c), client[c].result)
        BY <4>1 DEF f
      <4>. QED  BY <1>1, <3>1, <4>2, <4>3, <4>4, StoredType, StoredRight
    <3>. QED  BY <2>2, <3>2, <3>3 DEF StoreResult
  <2>. QED  BY <2>1, <2>2
<1>4. /\ client' \in [Clients -> Client] /\ \A d \in Clients \ {c} : client'[d] = client[d]
      /\ client'[c].step = "answer" /\ client'[c].result = client[c].result
      /\ client'[c].ptr = client[c].ptr /\ client'[c].request = client[c].request
  BY <1>0 DEF Client, ClientSteps
<1>5. Types'
  BY <1>0, <1>2, <1>4 DEF Types, chainVars
<1>6. PermitsOK'
  BY <1>0 DEF PermitsOK, Holding
<1>7. ASSUME NEW d \in Clients
      PROVE  ClientOK(d)'
  <2>1. \A e \in Clients : client'[e].ptr = client[e].ptr
    BY <1>4
  <2>2. CASE d = c
    BY <1>0, <1>1, <1>4, <2>2 DEF ClientOK, chainVars
  <2>3. CASE d # c
    BY <1>0, <1>4, <2>1, <2>3 DEF ClientOK, chainVars
  <2>. QED  BY <2>2, <2>3
<1>8. \A d \in Clients : LocatedOK(d)'
  BY <1>0, <1>4 DEF LocatedOK, chainVars
<1>9. HerdOK'
  <2>1. \A key \in DOMAIN herd : herd[key] \in Clients \ {c}
    BY <1>0 DEF HerdOK, Types
  <2>. QED  BY <1>0, <1>4, <2>1 DEF HerdOK, KeyOf, Indexing
<1>. QED  BY <1>0, <1>2, <1>5, <1>6, <1>7, <1>8, <1>9 DEF chainVars

\* A client is answered, unless its result failed or its block may have been reverted.
LEMMA AnswerStep ==
    ASSUME CachingInv, NEW c \in Clients, Answer(c)
    PROVE  CachingInv'
<1>. USE DEF CachingInv
<1>. DEFINE next == IF Reverted(c) \/ client[c].result = Failure THEN "failed" ELSE "answered"
<1>0. /\ client \in [Clients -> Client] /\ client[c] \in Client /\ client[c].step = "answer"
      /\ client' = [client EXCEPT ![c].step = next]
      /\ UNCHANGED <<chainVars, work, herd, cacheVars, permits>>
  BY DEF Types, Answer
<1>1. next \in {"failed", "answered"} /\ (next = "answered" => client[c].result # Failure)
  OBVIOUS
<1>. HIDE DEF next
<1>4. /\ client' \in [Clients -> Client] /\ \A d \in Clients \ {c} : client'[d] = client[d]
      /\ client'[c].step = next /\ client'[c].result = client[c].result
      /\ client'[c].ptr = client[c].ptr /\ client'[c].request = client[c].request
  BY <1>0, <1>1 DEF Client, ClientSteps
<1>5. Types'
  BY <1>0, <1>4, CachesStay DEF Types
<1>6. PermitsOK'
  BY <1>0 DEF PermitsOK, Holding
<1>7. ASSUME NEW d \in Clients
      PROVE  ClientOK(d)'
  <2>1. \A e \in Clients : client'[e].ptr = client[e].ptr
    BY <1>4
  <2>2. CASE d = c
    BY <1>0, <1>1, <1>4, <2>2 DEF ClientOK, chainVars
  <2>3. CASE d # c
    BY <1>0, <1>4, <2>1, <2>3 DEF ClientOK, chainVars
  <2>. QED  BY <2>2, <2>3
<1>8. \A d \in Clients : LocatedOK(d)'
  BY <1>0, <1>4 DEF LocatedOK, chainVars
<1>9. HerdOK'
  <2>1. \A key \in DOMAIN herd : herd[key] \in Clients \ {c}
    BY <1>0 DEF HerdOK, Types
  <2>. QED  BY <1>0, <1>4, <2>1 DEF HerdOK, KeyOf, Indexing
<1>. QED  BY <1>0, <1>5, <1>6, <1>7, <1>8, <1>9, CachesStay

\* A client goes away; the execution goes with it if nobody else waits for it.
LEMMA GoAwayStep ==
    ASSUME CachingInv, NEW c \in Clients, GoAway(c)
    PROVE  CachingInv'
<1>. USE DEF CachingInv
<1>. DEFINE owner == client[c].shared
            left == work[owner].holders \ {c}
            drop == left = {} /\ work[owner].stage \in {"queued", "running", "nested"}
            stage == IF drop THEN "dropped" ELSE work[owner].stage
<1>0. /\ client \in [Clients -> Client] /\ work \in [Clients -> Work] /\ client[c] \in Client
      /\ client[c].step = "wait" /\ client' = [client EXCEPT ![c].step = "gone"]
      /\ herd' = LeaveHerd(c)
      /\ work' = [work EXCEPT ![owner].holders = left, ![owner].stage = stage]
      /\ permits' = IF drop /\ work[owner].stage # "queued" THEN permits + 1 ELSE permits
      /\ UNCHANGED <<chainVars, cacheVars>>
  BY DEF Types, GoAway
<1>1. owner \in Clients /\ work[owner].stage \notin {"none", "dropped"}
  BY <1>0 DEF ClientOK
<1>2. /\ stage \in Stages /\ left \in SUBSET Clients
      /\ stage # work[owner].stage => drop /\ stage = "dropped"
      /\ drop => left = {} /\ stage = "dropped"
                 /\ work[owner].stage \in {"queued", "running", "nested"}
      /\ ~drop => stage = work[owner].stage
  BY <1>0, <1>1 DEF Stages, Work
<1>3. left = work[owner].holders \ {c}
  OBVIOUS
<1>. HIDE DEF owner, left, drop, stage
<1>4. /\ client' \in [Clients -> Client] /\ \A d \in Clients \ {c} : client'[d] = client[d]
      /\ client'[c].step = "gone" /\ client'[c].ptr = client[c].ptr
      /\ client'[c].request = client[c].request
  BY <1>0 DEF Client, ClientSteps
<1>5. /\ work' \in [Clients -> Work] /\ \A d \in Clients \ {owner} : work'[d] = work[d]
      /\ work'[owner].holders = left /\ work'[owner].stage = stage
      /\ work'[owner].result = work[owner].result
  <2>. DEFINE w == [work[owner] EXCEPT !.holders = left, !.stage = stage]
  <2>1. work[owner] \in Work
    BY <1>0, <1>1
  <2>2. w \in Work /\ w.holders = left /\ w.stage = stage /\ w.result = work[owner].result
    BY <1>2, <2>1 DEF Work
  <2>3. work' = [work EXCEPT ![owner] = w]
    BY <1>0, <1>1
  <2>. HIDE DEF w
  <2>4. owner \in Clients /\ work \in [Clients -> Work]
    BY <1>0, <1>1
  <2>. QED  BY <2>2, <2>3, <2>4
<1>6. Types'
  BY <1>0, <1>4, <1>5, HerdLeft, CachesStay DEF Types
<1>7. PermitsOK'
  <2>1. CASE drop /\ work[owner].stage # "queued"
    <3>1. owner \in Holding /\ Holding' = Holding \ {owner}
      BY <1>1, <1>2, <1>5, <2>1 DEF Holding
    <3>2. permits' = permits + 1
      BY <1>0, <2>1
    <3>3. PICK o \in Holding : o = owner
      BY <3>1
    <3>4. Holding' = Holding \ {o}
      BY <3>1, <3>3
    <3>. QED  BY <3>2, <3>4, PermitReturned
  <2>2. CASE ~(drop /\ work[owner].stage # "queued")
    <3>1. Holding' = Holding
      BY <1>1, <1>2, <1>5, <2>2 DEF Holding
    <3>. QED  BY <1>0, <2>2, <3>1 DEF PermitsOK
  <2>. QED  BY <2>1, <2>2
<1>8. ASSUME NEW d \in Clients
      PROVE  ClientOK(d)'
  <2>1. \A e \in Clients : client'[e].ptr = client[e].ptr
    BY <1>4
  <2>2. /\ work[d].stage = "none" => work'[d].stage = "none"
        /\ work'[d].stage = "done" => work[d].stage = "done" /\ work'[d].result = work[d].result
    BY <1>1, <1>2, <1>5
  <2>3. CASE d = c
    BY <1>0, <1>4, <2>1, <2>2, <2>3 DEF ClientOK, chainVars
  <2>4. CASE d # c
    <3>1. ClientOK(d) /\ client'[d] = client[d]
      BY <1>4, <2>4
    <3>2. ASSUME client[d].step = "wait"
          PROVE  /\ d \in work'[client[d].shared].holders
                 /\ work'[client[d].shared].stage \notin {"none", "dropped"}
      <4>1. CASE client[d].shared = owner
        BY <1>1, <1>2, <1>3, <1>5, <2>4, <3>1, <3>2, <4>1 DEF ClientOK
      <4>2. CASE client[d].shared # owner
        BY <1>5, <3>1, <3>2, <4>2 DEF ClientOK
      <4>. QED  BY <4>1, <4>2
    <3>. QED  BY <1>0, <2>1, <2>2, <3>1, <3>2 DEF ClientOK, chainVars
  <2>. QED  BY <2>3, <2>4
<1>9. \A d \in Clients : LocatedOK(d)'
  BY <1>0, <1>4 DEF LocatedOK, chainVars
<1>10. HerdOK'
  <2>1. ASSUME NEW key \in DOMAIN herd'
        PROVE  key \in DOMAIN herd /\ herd'[key] = herd[key] /\ herd[key] \in Clients \ {c}
    BY <1>0, HerdLeft DEF Types
  <2>. QED  BY <1>4, <2>1 DEF HerdOK, KeyOf, Indexing
<1>. QED  BY <1>0, <1>6, <1>7, <1>8, <1>9, <1>10, CachesStay

----------------------------------------------------------------------------
(* The theorem *)

\* Every step keeps the invariant.
LEMMA CachingNextInv == CachingInv /\ [CachingNext]_cachingVars => CachingInv'
<1>. SUFFICES ASSUME CachingInv, [CachingNext]_cachingVars PROVE CachingInv'
  OBVIOUS
<1>1. CASE UNCHANGED cachingVars
  BY <1>1 DEF cachingVars, CachingInv, Types, PermitsOK, Holding, ClientOK, LocatedOK, HerdOK,
              KeyOf, Indexing
<1>2. CASE ChainForward
  BY <1>2, ForwardStep
<1>3. CASE ChainRevert
  BY <1>3, RevertStep
<1>4. ASSUME NEW c \in Clients,
             \/ Arrive(c) \/ LookupCaches(c) \/ EnterHerd(c) \/ TakePermit(c) \/ NestedQuery(c)
             \/ Execute(c) \/ Resolve(c) \/ StoreResult(c) \/ Answer(c) \/ GoAway(c)
      PROVE  CachingInv'
  BY <1>4, ArriveStep, LookupStep, EnterStep, TakePermitStep, NestedStep, ExecuteStep,
     ResolveStep, StoreStep, AnswerStep, GoAwayStep
<1>. QED  BY <1>1, <1>2, <1>3, <1>4 DEF CachingNext

\* The invariant is what CachingConsistent asks for, and more.
LEMMA CachingInvConsistent == CachingInv => CachingConsistent
<1>. SUFFICES ASSUME CachingInv PROVE CachingConsistent
  OBVIOUS
<1>1. CachesTypeOK
  BY DEF CachingInv, CachesTypeOK, PermitsOK, Holding, BlockCacheOK, EntryOK
<1>2. NewestBlockFirst
  BY DEF CachingInv, BlockCacheOK, Newest, NewestBlockFirst
<1>3. HerdEntriesOwned
  BY DEF CachingInv, HerdOK, HerdEntriesOwned, ClientOK, Types
<1>4. LatestServedRight
  <2>. SUFFICES ASSUME NEW c \in Clients, client[c].step = "answered",
                       client[c].request.by = "latest", client[c].ptr.hash \notin undone.blocks
                PROVE  client[c].result = client[c].ptr.hash
    BY DEF LatestServedRight
  <2>1. client[c].ptr.hash \in Seq(Forks)
    BY DEF CachingInv, Types, Client, Pointer, LocatedOK
  <2>. QED  BY <2>1 DEF CachingInv, ClientOK, RightData
<1>. QED  BY <1>1, <1>2, <1>3, <1>4 DEF CachingConsistent

\* The caches in front of query execution stay consistent (execution.rs, cache.rs): no
\* permit is lost or made, the block cache keeps its bounds and its order, an execution is
\* on the herd's list only while the client that started it is there to take it off, and
\* a client that asks for the latest block is given its data by whatever cache answers.
THEOREM CachesStayConsistent == CachingSpec => []CachingConsistent
<1>1. CachingInit => CachingInv
  BY CachingInitInv
<1>2. CachingInv /\ [CachingNext]_cachingVars => CachingInv'
  BY CachingNextInv
<1>3. CachingInv => CachingConsistent
  BY CachingInvConsistent
<1>. QED  BY <1>1, <1>2, <1>3, PTL DEF CachingSpec


-----------------------------------------------------------------------------
(***************************************************************************)
(* Proofs about Subscriptions, for any entity types, finitely many         *)
(* operations, any queries, threshold and limit.                           *)
(***************************************************************************)

(* The inductive invariant: besides SubscriptionsConsistent, the ids of      *)
(* large_notifications are unique, a task that has subscribed stays among    *)
(* the senders while it is live, and the task of a completed operation can   *)
(* have at most the one result in hand, which it has then not yet sent.      *)

UniqueRows == \A r, q \in rows : r.id = q.id => r = q

SubscribedTasks ==
    \A t \in Tasks : Live(t) /\ tasks[t].phase # "starting" => t \in senders

Served(t) ==
    \/ tasks[t].phase \in {"starting", "execute"}
    \/ \A e \in Listens(t) \ Lost : tasks[t].seen[e] < data[e] => Underway(e, t)

CompletedTask(i) ==
    /\ sent[i].task \in Tasks
    /\ \A o \in Operations : operations[o] # sent[i].task
    /\ \A j, k \in DataAfter(i) : j = k
    /\ tasks[sent[i].task].phase = "polled" => DataAfter(i) = {}

CompletedTasks == \A i \in 1..Len(sent) : sent[i].kind = "complete" => CompletedTask(i)

SubscriptionsInv ==
    SubscriptionsTypeOK /\ UniqueRows /\ SubscribedTasks /\ ChangesUnderway /\ CompletedTasks

-----------------------------------------------------------------------------

LEMMA InvIsEnough == SubscriptionsInv => SubscriptionsConsistent
  <1> SUFFICES ASSUME SubscriptionsInv, NEW i \in 1..Len(sent), sent[i].kind = "complete"
               PROVE  Cardinality(DataAfter(i)) <= 1
    BY DEF SubscriptionsInv, SubscriptionsConsistent, OneResultAfterComplete
  <1>1. \A j, k \in DataAfter(i) : j = k
    BY DEF SubscriptionsInv, CompletedTasks, CompletedTask
  <1>2. CASE DataAfter(i) = {}
    BY <1>2, FS_EmptySet
  <1>3. ASSUME NEW j \in DataAfter(i) PROVE Cardinality(DataAfter(i)) <= 1
    <2>1. DataAfter(i) = {j}
      BY <1>1
    <2>2. Cardinality({j}) = 1
      BY FS_Singleton, Zenon
    <2> QED
      BY <2>1, <2>2
  <1> QED
    BY <1>2, <1>3

LEMMA ListensToEntities ==
    ASSUME SubscriptionsTypeOK, NEW t \in Tasks
    PROVE  Listens(t) \subseteq EntityTypes
  <1>1. tasks[t] \in Task
    BY DEF SubscriptionsTypeOK, Tasks
  <1>2. tasks[t].operation \in Operations
    BY <1>1 DEF Task
  <1> QED
    BY <1>2, SubscriptionsAssumption DEF Listens

LEMMA SubscriptionsStart == SubscriptionsInit => SubscriptionsInv
  <1> SUFFICES ASSUME SubscriptionsInit PROVE SubscriptionsInv
    OBVIOUS
  <1>1. Tasks = {} /\ Len(tasks) = 0 /\ Len(sent) = 0
    BY DEF SubscriptionsInit, Tasks
  <1>2. Active = {}
    BY DEF SubscriptionsInit, Active
  <1>3. Cardinality(Active) = 0
    BY <1>2, FS_EmptySet
  <1>4. SubscriptionsTypeOK
    BY <1>1, <1>2, <1>3, SubscriptionsAssumption
    DEF SubscriptionsInit, SubscriptionsTypeOK
  <1> QED
    BY <1>1, <1>4 DEF SubscriptionsInit, SubscriptionsInv, UniqueRows, SubscribedTasks,
       ChangesUnderway, CompletedTasks

-----------------------------------------------------------------------------
(* The store's side.                                                         *)

LEMMA StoreTypes ==
    ASSUME SubscriptionsTypeOK
    PROVE  /\ data \in [EntityTypes -> Nat] /\ unsent \subseteq EntityTypes
           /\ missed \subseteq EntityTypes /\ serial \in Nat
           /\ notes \in Seq([changes : SUBSET EntityTypes, large : 0..serial])
           /\ rows \subseteq [id : 1..serial, payload : SUBSET EntityTypes, old : BOOLEAN]
           /\ \A i \in 1..Len(notes) : notes[i].large \in 0..serial /\ notes[i].changes \subseteq EntityTypes
           /\ \A r \in rows : r.id \in 1..serial /\ r.payload \subseteq EntityTypes
  <1>1. /\ data \in [EntityTypes -> Nat] /\ unsent \subseteq EntityTypes
        /\ missed \subseteq EntityTypes /\ serial \in Nat
        /\ notes \in Seq([changes : SUBSET EntityTypes, large : 0..serial])
        /\ rows \subseteq [id : 1..serial, payload : SUBSET EntityTypes, old : BOOLEAN]
    BY DEF SubscriptionsTypeOK
  <1>2. ASSUME NEW i \in 1..Len(notes)
        PROVE  notes[i].large \in 0..serial /\ notes[i].changes \subseteq EntityTypes
    <2>1. notes[i] \in [changes : SUBSET EntityTypes, large : 0..serial]
      BY <1>1, ElementOfSeq
    <2> QED
      BY <2>1
  <1> QED
    BY <1>1, <1>2

\* What stays of the invariant when only the store's side changes.
LEMMA StoreSideStep ==
    ASSUME SubscriptionsInv, UNCHANGED <<fanoutVars, dsynced, tasks, socketVars>>
    PROVE  /\ SubscribedTasks' /\ CompletedTasks'
           /\ \A t : Live(t)' = Live(t) /\ Listens(t)' = Listens(t)
           /\ Tasks' = Tasks /\ Active' = Active
  <1> USE DEF fanoutVars, socketVars
  <1>1. \A t : Canceled(t)' = Canceled(t)
    BY DEF Canceled
  <1>2. /\ \A t : Live(t)' = Live(t) /\ Listens(t)' = Listens(t)
        /\ Tasks' = Tasks /\ Active' = Active
    BY <1>1 DEF Live, Listens, Tasks, Active
  <1>3. SubscribedTasks'
    BY <1>2 DEF SubscribedTasks, SubscriptionsInv
  <1>4. \A i : DataAfter(i)' = DataAfter(i)
    BY DEF DataAfter
  <1>5. CompletedTasks'
    BY <1>2, <1>4 DEF CompletedTasks, CompletedTask, SubscriptionsInv
  <1> QED
    BY <1>2, <1>3, <1>5

LEMMA StoreTypeStep ==
    ASSUME SubscriptionsTypeOK, UNCHANGED <<fanoutVars, dsynced, tasks, socketVars>>,
           data' \in [EntityTypes -> Nat], unsent' \subseteq EntityTypes,
           missed' \subseteq EntityTypes, serial' \in Nat,
           notes' \in Seq([changes : SUBSET EntityTypes, large : 0..serial']),
           rows' \subseteq [id : 1..serial', payload : SUBSET EntityTypes, old : BOOLEAN]
    PROVE  SubscriptionsTypeOK'
  <1>1. Tasks' = Tasks /\ Active' = Active
    BY DEF Tasks, Active, socketVars
  <1> QED
    BY <1>1 DEF SubscriptionsTypeOK, fanoutVars, socketVars

LEMMA TransactBlockKeeps == SubscriptionsInv /\ TransactBlock => SubscriptionsInv'
  <1> SUFFICES ASSUME SubscriptionsInv, TransactBlock PROVE SubscriptionsInv'
    OBVIOUS
  <1>0. SubscriptionsTypeOK
    BY DEF SubscriptionsInv
  <1>1. PICK changed \in Changes :
          /\ data' = [e \in EntityTypes |-> data[e] + IF e \in changed THEN 1 ELSE 0]
          /\ unsent' = changed
    BY DEF TransactBlock
  <1>2. changed \subseteq EntityTypes
    BY SubscriptionsAssumption
  <1>3. /\ UNCHANGED <<notes, rows, serial, missed>> /\ unsent = {}
        /\ UNCHANGED <<fanoutVars, dsynced, tasks, socketVars>>
    BY DEF TransactBlock
  <1>4. data' \in [EntityTypes -> Nat]
    BY <1>0, <1>1, StoreTypes
  <1>5. SubscriptionsTypeOK'
    BY <1>0, <1>1, <1>2, <1>3, <1>4, StoreTypes, StoreTypeStep
  <1>6. \A n : Payload(n)' = Payload(n)
    BY <1>3 DEF Payload
  <1>7. Lost' = Lost
    BY <1>3, <1>6 DEF Lost
  <1>8. ASSUME NEW t \in Tasks, Served(t) PROVE Served(t)'
    <2>1. CASE tasks[t].phase \in {"starting", "execute"}
      BY <2>1, <1>3 DEF Served
    <2>2. CASE tasks[t].phase \notin {"starting", "execute"}
      <3> SUFFICES ASSUME NEW e \in Listens(t) \ Lost, tasks[t].seen[e] < data'[e]
                   PROVE  Underway(e, t)'
        BY <1>3, <1>7, StoreSideStep DEF Served
      <3>1. e \in EntityTypes
        BY <1>0, ListensToEntities
      <3>2. CASE e \in changed
        BY <3>2, <1>1 DEF Underway
      <3>3. CASE e \notin changed
        <4>1. data'[e] = data[e]
          BY <3>1, <3>3, <1>0, <1>1, StoreTypes
        <4>2. Underway(e, t)
          BY <4>1, <2>2, <1>8 DEF Served
        <4> QED
          BY <4>2, <1>3, <1>6 DEF Underway, fanoutVars
      <3> QED
        BY <3>2, <3>3
    <2> QED
      BY <2>1, <2>2
  <1>9. ChangesUnderway'
    BY <1>3, <1>8, StoreSideStep DEF ChangesUnderway, Served, SubscriptionsInv
  <1>10. UniqueRows'
    BY <1>3 DEF UniqueRows, SubscriptionsInv
  <1> QED
    BY <1>3, <1>5, <1>9, <1>10, StoreSideStep DEF SubscriptionsInv

\* A task is served as before if no change has been added and whatever is on
\* its way to it still is.
LEMMA ServedStep ==
    ASSUME SubscriptionsInv, UNCHANGED <<data, tasks, operations>>, Lost \subseteq Lost',
           \A e \in EntityTypes \ Lost' : \A t \in Tasks :
              Live(t) /\ tasks[t].phase # "starting" /\ Underway(e, t) => Underway(e, t)'
    PROVE  ChangesUnderway'
  <1>0. SubscriptionsTypeOK
    BY DEF SubscriptionsInv
  <1>1. /\ \A t : Live(t)' = Live(t) /\ Listens(t)' = Listens(t)
        /\ Tasks' = Tasks
    BY DEF Live, Canceled, Listens, Tasks
  <1>2. ASSUME NEW t \in Tasks, Live(t) PROVE Served(t)'
    <2>1. Served(t)
      BY <1>2 DEF ChangesUnderway, SubscriptionsInv, Served
    <2>2. CASE tasks[t].phase \in {"starting", "execute"}
      BY <2>2 DEF Served
    <2>3. CASE tasks[t].phase \notin {"starting", "execute"}
      <3> SUFFICES ASSUME NEW e \in Listens(t) \ Lost', tasks[t].seen[e] < data[e]
                   PROVE  Underway(e, t)'
        BY <1>1 DEF Served
      <3>1. e \in EntityTypes
        BY <1>0, ListensToEntities
      <3>2. Underway(e, t)
        BY <2>1, <2>3 DEF Served
      <3> QED
        BY <3>1, <3>2, <2>3, <1>2
    <2> QED
      BY <2>2, <2>3
  <1> QED
    BY <1>1, <1>2 DEF ChangesUnderway, Served

LEMMA SendFailsKeeps == SubscriptionsInv /\ SendFails => SubscriptionsInv'
  <1> SUFFICES ASSUME SubscriptionsInv, SendFails PROVE SubscriptionsInv'
    OBVIOUS
  <1>0. SubscriptionsTypeOK
    BY DEF SubscriptionsInv
  <1>1. /\ unsent' = {} /\ missed' = missed \cup unsent
        /\ UNCHANGED <<data, notes, rows, serial>>
        /\ UNCHANGED <<fanoutVars, dsynced, tasks, socketVars>>
    BY DEF SendFails
  <1>2. SubscriptionsTypeOK'
    BY <1>0, <1>1, StoreTypes, StoreTypeStep
  <1>3. \A n : Payload(n)' = Payload(n)
    BY <1>1 DEF Payload
  <1>4. Lost' = Lost \cup unsent
    BY <1>1, <1>3 DEF Lost
  <1>5. ASSUME NEW e \in EntityTypes \ Lost', NEW t \in Tasks, Underway(e, t)
        PROVE  Underway(e, t)'
    BY <1>1, <1>3, <1>4, <1>5 DEF Underway, fanoutVars
  <1>6. ChangesUnderway'
    BY <1>1, <1>4, <1>5, ServedStep DEF socketVars
  <1>7. UniqueRows'
    BY <1>1 DEF UniqueRows, SubscriptionsInv
  <1> QED
    BY <1>1, <1>2, <1>6, <1>7, StoreSideStep DEF SubscriptionsInv

LEMMA RowsGrowOldKeeps == SubscriptionsInv /\ RowsGrowOld => SubscriptionsInv'
  <1> SUFFICES ASSUME SubscriptionsInv, RowsGrowOld PROVE SubscriptionsInv'
    OBVIOUS
  <1>0. SubscriptionsTypeOK
    BY DEF SubscriptionsInv
  <1> DEFINE Aged(r) == [r EXCEPT !.old = TRUE]
  <1>1. /\ rows' = {Aged(r) : r \in rows}
        /\ UNCHANGED <<data, unsent, notes, serial, missed>>
        /\ UNCHANGED <<fanoutVars, dsynced, tasks, socketVars>>
    BY DEF RowsGrowOld
  <1>2. ASSUME NEW r \in rows
        PROVE  /\ Aged(r) \in [id : 1..serial, payload : SUBSET EntityTypes, old : BOOLEAN]
               /\ Aged(r).id = r.id /\ Aged(r).payload = r.payload
    <2>1. r \in [id : 1..serial, payload : SUBSET EntityTypes, old : BOOLEAN]
      BY <1>0, StoreTypes
    <2> QED
      BY <2>1
  <1> HIDE DEF Aged
  <1>3. SubscriptionsTypeOK'
    BY <1>0, <1>1, <1>2, StoreTypes, StoreTypeStep
  <1>4. \A n : Payload(n)' = Payload(n)
    <2>1. ASSUME NEW n PROVE UNION {r.payload : r \in {r \in rows' : r.id = n}}
                              = UNION {r.payload : r \in {r \in rows : r.id = n}}
      BY <1>1, <1>2
    <2> QED
      BY <2>1 DEF Payload
  <1>5. Lost' = Lost
    BY <1>1, <1>4 DEF Lost
  <1>6. \A e, t : Underway(e, t)' = Underway(e, t)
    BY <1>1, <1>4 DEF Underway, fanoutVars
  <1>7. ChangesUnderway'
    BY <1>1, <1>5, <1>6, ServedStep DEF socketVars
  <1>8. UniqueRows'
    BY <1>1, <1>2 DEF UniqueRows, SubscriptionsInv
  <1> QED
    BY <1>1, <1>3, <1>7, <1>8, StoreSideStep DEF SubscriptionsInv

\* Nothing changes but whether the deployment is synced.
LEMMA SameState ==
    ASSUME SubscriptionsInv, dsynced' \in BOOLEAN,
           UNCHANGED <<storeEventVars, fanoutVars, tasks, socketVars>>
    PROVE  SubscriptionsInv'
  <1> USE DEF storeEventVars, fanoutVars, socketVars
  <1>1. Tasks' = Tasks /\ Active' = Active
    BY DEF Tasks, Active
  <1>2. SubscriptionsTypeOK'
    BY <1>1 DEF SubscriptionsInv, SubscriptionsTypeOK
  <1>3. UniqueRows'
    BY DEF SubscriptionsInv, UniqueRows
  <1>4. \A t : Live(t)' = Live(t) /\ Listens(t)' = Listens(t)
    BY <1>1 DEF Live, Canceled, Listens
  <1>5. SubscribedTasks'
    BY <1>1, <1>4 DEF SubscriptionsInv, SubscribedTasks
  <1>6. \A n : Payload(n)' = Payload(n)
    BY DEF Payload
  <1>7. Lost' = Lost /\ \A e, t : Underway(e, t)' = Underway(e, t)
    BY <1>6 DEF Lost, Underway
  <1>8. ChangesUnderway'
    BY <1>1, <1>4, <1>7 DEF SubscriptionsInv, ChangesUnderway
  <1>9. \A i : DataAfter(i)' = DataAfter(i)
    BY DEF DataAfter
  <1>10. CompletedTasks'
    BY <1>1, <1>9 DEF SubscriptionsInv, CompletedTasks, CompletedTask
  <1> QED
    BY <1>2, <1>3, <1>5, <1>8, <1>10 DEF SubscriptionsInv

LEMMA DeploymentSyncedKeeps == SubscriptionsInv /\ DeploymentSynced => SubscriptionsInv'
  BY SameState DEF DeploymentSynced

\* A notification whose payload fits.
LEMMA SendSmallKeeps ==
    ASSUME SubscriptionsInv, SendStoreEvent,
           notes' = Append(notes, [changes |-> unsent, large |-> 0]),
           UNCHANGED <<rows, serial>>
    PROVE  SubscriptionsInv'
  <1>0. SubscriptionsTypeOK
    BY DEF SubscriptionsInv
  <1>1. /\ unsent' = {} /\ unsent # {}
        /\ UNCHANGED <<data, missed>>
        /\ UNCHANGED <<fanoutVars, dsynced, tasks, socketVars>>
    BY DEF SendStoreEvent
  <1> DEFINE note == [changes |-> unsent, large |-> 0]
             N == [changes : SUBSET EntityTypes, large : 0..serial]
  <1>2. note \in N /\ note.large = 0 /\ note.changes = unsent
    BY <1>0, StoreTypes
  <1> HIDE DEF note
  <1>3. notes \in Seq(N)
    BY <1>0, StoreTypes
  <1>4. /\ notes' \in Seq(N) /\ Len(notes') = Len(notes) + 1 /\ Len(notes) \in Nat
        /\ \A i \in 1..Len(notes) : notes'[i] = notes[i]
        /\ notes'[Len(notes) + 1] = note
    <2> HIDE DEF N
    <2> QED
      BY <1>2, <1>3, AppendProperties, LenProperties DEF note
  <1>5. SubscriptionsTypeOK'
    BY <1>0, <1>1, <1>4, StoreTypes, StoreTypeStep
  <1> HIDE DEF N
  <1>6. \A n : Payload(n)' = Payload(n)
    BY DEF Payload
  <1>7. Payload(note) = unsent
    BY <1>2 DEF Payload
  <1>8. Lost' = Lost
    BY <1>1, <1>4, <1>6, <1>7 DEF Lost
  <1>9. ASSUME NEW e \in EntityTypes, NEW t \in Tasks, Underway(e, t)
        PROVE  Underway(e, t)'
    <2>1. CASE e \in unsent
      <3>1. PICK k : k = Len(notes) + 1
        OBVIOUS
      <3>2. k \in 1..Len(notes')
        BY <3>1, <1>4
      <3>3. e \in Payload(notes[k])'
        BY <2>1, <3>1, <1>4 DEF Payload, note
      <3> QED
        BY <3>2, <3>3 DEF Underway
    <2>2. CASE \E i \in 1..Len(notes) : e \in Payload(notes[i])
      BY <2>2, <1>4, <1>6 DEF Underway
    <2> QED
      BY <2>1, <2>2, <1>1, <1>9 DEF Underway, fanoutVars
  <1>10. ChangesUnderway'
    BY <1>1, <1>8, <1>9, ServedStep DEF socketVars
  <1>11. UniqueRows'
    BY <1>1 DEF UniqueRows, SubscriptionsInv
  <1> QED
    BY <1>1, <1>5, <1>10, <1>11, StoreSideStep DEF SubscriptionsInv

\* A large one, with which old rows may go.  What a pending notification refers
\* to is still there or will be missed.
LEMMA SendLargeKeeps ==
    ASSUME SubscriptionsInv, SendStoreEvent, SendLarge
    PROVE  SubscriptionsInv'
  <1>0. SubscriptionsTypeOK
    BY DEF SubscriptionsInv
  <1>1. /\ unsent' = {} /\ unsent # {}
        /\ UNCHANGED <<data, missed>>
        /\ UNCHANGED <<fanoutVars, dsynced, tasks, socketVars>>
    BY DEF SendStoreEvent
  <1>t. /\ unsent \subseteq EntityTypes /\ serial \in Nat
        /\ notes \in Seq([changes : SUBSET EntityTypes, large : 0..serial])
        /\ rows \subseteq [id : 1..serial, payload : SUBSET EntityTypes, old : BOOLEAN]
        /\ \A i \in 1..Len(notes) : notes[i].large \in 0..serial
        /\ \A r \in rows : r.id \in 1..serial
    BY <1>0, StoreTypes
  <1>n. PICK n : n = serial + 1
    OBVIOUS
  <1>u. PICK changes : changes = unsent
    OBVIOUS
  <1> DEFINE note == [changes |-> {}, large |-> n]
             row == [id |-> n, payload |-> changes, old |-> FALSE]
             N == [changes : SUBSET EntityTypes, large : 0..n]
             R == [id : 1..n, payload : SUBSET EntityTypes, old : BOOLEAN]
  <1>2. serial' = n /\ notes' = Append(notes, note)
    BY <1>n DEF SendLarge
  <1>3. PICK pruned : rows' = (rows \ pruned) \cup {row}
    BY <1>n, <1>u DEF SendLarge
  <1>4. /\ note \in N /\ note.large = n /\ row \in R /\ row.id = n /\ row.payload = changes
        /\ n \in Nat /\ n # 0
    BY <1>t, <1>n, <1>u
  <1>5. rows \subseteq R
    <2> SUFFICES ASSUME NEW r \in rows PROVE r \in R
      OBVIOUS
    <2>1. r \in [id : 1..serial, payload : SUBSET EntityTypes, old : BOOLEAN]
      BY <1>t
    <2>2. 1..serial \subseteq 1..n
      BY <1>t, <1>n
    <2> QED
      BY <2>1, <2>2
  <1>6. notes \in Seq(N)
    <2>1. 0..serial \subseteq 0..n
      BY <1>t, <1>n
    <2>2. [changes : SUBSET EntityTypes, large : 0..serial] \subseteq N
      BY <2>1
    <2> QED
      BY <2>2, <1>t, SeqMonotonic
  <1>7. serial' \in Nat /\ rows' \subseteq R /\ N = [changes : SUBSET EntityTypes, large : 0..serial']
        /\ R = [id : 1..serial', payload : SUBSET EntityTypes, old : BOOLEAN]
    BY <1>2, <1>3, <1>4, <1>5
  <1> HIDE DEF note, row, N, R
  <1>8. /\ notes' \in Seq(N) /\ Len(notes') = Len(notes) + 1 /\ Len(notes) \in Nat
        /\ \A i \in 1..Len(notes) : notes'[i] = notes[i]
        /\ notes'[Len(notes) + 1] = note
    BY <1>2, <1>4, <1>6, AppendProperties, LenProperties
  <1>9. SubscriptionsTypeOK'
    BY <1>0, <1>1, <1>7, <1>8, StoreTypes, StoreTypeStep
  <1>10. UniqueRows'
    <2>1. \A r \in rows : r.id # n
      BY <1>t, <1>n
    <2> QED
      BY <2>1, <1>3, <1>4 DEF UniqueRows, SubscriptionsInv
  <1>11. changes \subseteq Payload(note)'
    <2>1. row \in rows' /\ row.id = note.large /\ note.large # 0
      BY <1>3, <1>4
    <2> QED
      BY <2>1, <1>4 DEF Payload
  <1>12. ASSUME NEW i \in 1..Len(notes)
         PROVE  Payload(notes[i])' = Payload(notes[i]) \/ Payload(notes[i])' = {}
    <2>1. notes[i].large # n /\ notes[i]' = notes[i]
      BY <1>t, <1>n, <1>8
    <2> DEFINE k == notes[i].large
    <2>2. CASE k = 0
      BY <2>1, <2>2 DEF Payload
    <2>3. CASE \E r \in rows \ pruned : k # 0 /\ r.id = k
      <3>1. PICK r \in rows \ pruned : k # 0 /\ r.id = k
        BY <2>3
      <3>2. {q \in rows : q.id = k} = {r}
        BY <3>1 DEF UniqueRows, SubscriptionsInv
      <3>3. {q \in rows' : q.id = k} = {r}
        BY <3>1, <3>2, <1>3, <1>4, <2>1
      <3> QED
        BY <3>1, <3>2, <3>3, <2>1 DEF Payload
    <2>4. CASE \A r \in rows \ pruned : k # 0 /\ r.id # k
      <3>1. {q \in rows' : q.id = k} = {}
        BY <2>4, <1>3, <1>4, <2>1
      <3> QED
        BY <3>1, <2>1, <2>4 DEF Payload
    <2> QED
      BY <2>2, <2>3, <2>4
  <1>13. ASSUME NEW i \in 1..Len(notes), NEW e, e \in EntityTypes \ Lost'
         PROVE  Payload(notes[i])' = Payload(notes[i])
    <2>1. i \in 1..Len(notes')
      BY <1>8
    <2>2. Payload(notes[i])' # {}
      BY <2>1, <1>13, <1>8 DEF Lost
    <2> QED
      BY <2>2, <1>12
  <1>14. Lost \subseteq Lost'
    <2>1. ASSUME NEW i \in 1..Len(notes), Payload(notes[i]) = {}
          PROVE  i \in 1..Len(notes') /\ Payload(notes[i])' = {}
      BY <2>1, <1>8, <1>12
    <2> QED
      BY <2>1, <1>1 DEF Lost
  <1>15. ASSUME NEW e \in EntityTypes \ Lost', NEW t \in Tasks, Underway(e, t)
         PROVE  Underway(e, t)'
    <2>1. CASE e \in unsent
      <3>1. PICK k : k = Len(notes) + 1
        OBVIOUS
      <3>2. k \in 1..Len(notes')
        BY <3>1, <1>8
      <3>3. notes'[k] = note
        BY <3>1, <1>8
      <3>4. e \in Payload(notes[k])'
        BY <2>1, <3>3, <1>11, <1>u DEF Payload
      <3> QED
        BY <3>2, <3>4 DEF Underway
    <2>2. CASE \E i \in 1..Len(notes) : e \in Payload(notes[i])
      <3>1. PICK i \in 1..Len(notes) : e \in Payload(notes[i])
        BY <2>2
      <3>2. i \in 1..Len(notes')
        BY <1>8
      <3>3. e \in Payload(notes[i])'
        BY <3>1, <1>13
      <3> QED
        BY <3>2, <3>3 DEF Underway
    <2> QED
      BY <2>1, <2>2, <1>1, <1>15 DEF Underway, fanoutVars
  <1>16. ChangesUnderway'
    BY <1>1, <1>14, <1>15, ServedStep DEF socketVars
  <1> QED
    BY <1>1, <1>9, <1>10, <1>16, StoreSideStep DEF SubscriptionsInv

LEMMA SendStoreEventKeeps == SubscriptionsInv /\ SendStoreEvent => SubscriptionsInv'
  BY SendSmallKeeps, SendLargeKeeps DEF SendStoreEvent

-----------------------------------------------------------------------------
(* Listener and SubscriptionManager.                                         *)

LEMMA FanoutTypes ==
    ASSUME SubscriptionsTypeOK
    PROVE  /\ events \in Seq(SUBSET EntityTypes) /\ Len(events) \in Nat
           /\ fanout \in [event : SUBSET EntityTypes, to : SUBSET Tasks]
           /\ fanout.event \subseteq EntityTypes /\ fanout.to \subseteq Tasks
           /\ senders \subseteq Tasks
           /\ tasks \in Seq(Task) /\ Len(tasks) \in Nat
           /\ \A t \in Tasks : tasks[t] \in Task
  <1>1. /\ events \in Seq(SUBSET EntityTypes)
        /\ fanout \in [event : SUBSET EntityTypes, to : SUBSET Tasks]
        /\ senders \subseteq Tasks /\ tasks \in Seq(Task)
    BY DEF SubscriptionsTypeOK
  <1>2. Len(events) \in Nat /\ Len(tasks) \in Nat /\ \A t \in Tasks : tasks[t] \in Task
    BY <1>1, LenProperties, ElementOfSeq DEF Tasks
  <1> QED
    BY <1>1, <1>2

\* An entity type is among the events exactly if an event names it.
LEMMA InEvents ==
    ASSUME NEW s \in Seq(SUBSET EntityTypes), NEW e
    PROVE  e \in UNION ToSet(s) <=> \E i \in 1..Len(s) : e \in s[i]
  <1>1. ToSet(s) = {s[i] : i \in 1..Len(s)}
    BY LenProperties DEF ToSet
  <1> QED
    BY <1>1

LEMMA ListenKeeps == SubscriptionsInv /\ Listen => SubscriptionsInv'
  <1> SUFFICES ASSUME SubscriptionsInv, Listen PROVE SubscriptionsInv'
    OBVIOUS
  <1>0. SubscriptionsTypeOK
    BY DEF SubscriptionsInv
  <1>1. PICK note, changes : note = Head(notes) /\ changes = Payload(Head(notes))
    OBVIOUS
  <1>2. /\ notes # <<>> /\ notes' = Tail(notes)
        /\ events' = IF changes = {} THEN events ELSE Append(events, changes)
        /\ missed' = IF changes = {} THEN EntityTypes ELSE missed
        /\ UNCHANGED <<data, unsent, rows, serial, fanout, senders, dsynced, tasks>>
        /\ UNCHANGED <<operations, sent, connection, messages>>
    BY <1>1 DEF Listen, socketVars
  <1>t. /\ notes \in Seq([changes : SUBSET EntityTypes, large : 0..serial])
        /\ \A r \in rows : r.payload \subseteq EntityTypes
        /\ missed \subseteq EntityTypes
        /\ events \in Seq(SUBSET EntityTypes) /\ Len(events) \in Nat
    BY <1>0, StoreTypes, FanoutTypes
  <1>3. /\ note \in [changes : SUBSET EntityTypes, large : 0..serial]
        /\ notes' \in Seq([changes : SUBSET EntityTypes, large : 0..serial])
        /\ Len(notes) \in Nat \ {0} /\ Len(notes') = Len(notes) - 1
        /\ \A i \in 1..Len(notes') : notes'[i] = notes[i + 1]
        /\ note = notes[1]
    <2> DEFINE N == [changes : SUBSET EntityTypes, large : 0..serial]
    <2>1. notes \in Seq(N)
      BY <1>t
    <2> HIDE DEF N
    <2>2. /\ note \in N /\ notes' \in Seq(N)
          /\ Len(notes) \in Nat \ {0} /\ Len(notes') = Len(notes) - 1
          /\ \A i \in 1..Len(notes') : notes'[i] = notes[i + 1]
          /\ note = notes[1]
      BY <2>1, <1>1, <1>2, HeadTailProperties, LenProperties
    <2> QED
      BY <2>2 DEF N
  <1>4. changes \subseteq EntityTypes
    BY <1>1, <1>3, <1>t DEF Payload
  <1>5. /\ events' \in Seq(SUBSET EntityTypes)
        /\ \A e : e \in UNION ToSet(events') <=> e \in UNION ToSet(events) \/ e \in changes
    <2>1. CASE changes = {}
      BY <2>1, <1>2, <1>t
    <2>2. CASE changes # {}
      <3>1. /\ events' \in Seq(SUBSET EntityTypes) /\ Len(events') = Len(events) + 1
            /\ \A i \in 1..Len(events) : events'[i] = events[i]
            /\ events'[Len(events) + 1] = changes
        BY <2>2, <1>2, <1>4, <1>t, AppendProperties
      <3>2. \A e : (\E i \in 1..Len(events') : e \in events'[i])
                    <=> (\E i \in 1..Len(events) : e \in events[i]) \/ e \in changes
        BY <3>1, <1>t
      <3> QED
        BY <3>1, <3>2, <1>t, InEvents
    <2> QED
      BY <2>1, <2>2
  <1>6. /\ \A t : Live(t)' = Live(t) /\ Listens(t)' = Listens(t)
        /\ Tasks' = Tasks /\ Active' = Active
        /\ \A n : Payload(n)' = Payload(n) /\ \A i : DataAfter(i)' = DataAfter(i)
    BY <1>2 DEF Live, Canceled, Listens, Tasks, Active, Payload, DataAfter
  <1>7. SubscriptionsTypeOK'
    BY <1>0, <1>2, <1>3, <1>5, <1>6, <1>t DEF SubscriptionsTypeOK
  <1>8. UniqueRows' /\ SubscribedTasks' /\ CompletedTasks'
    BY <1>2, <1>6 DEF SubscriptionsInv, UniqueRows, SubscribedTasks, CompletedTasks, CompletedTask
  <1>9. ASSUME NEW i \in 1..Len(notes), i # 1
        PROVE  \E k \in 1..Len(notes') : notes'[k] = notes[i]
    <2>1. i - 1 \in 1..Len(notes') /\ notes'[i - 1] = notes[i]
      BY <1>3, <1>9
    <2> QED
      BY <2>1
  <1>10. Lost \subseteq Lost'
    <2>1. CASE changes = {}
      BY <2>1, <1>2, <1>t DEF Lost
    <2>2. CASE changes # {}
      <3>1. ASSUME NEW i \in 1..Len(notes), Payload(notes[i]) = {}
            PROVE  \E k \in 1..Len(notes') : Payload(notes[k])' = {}
        <4>1. i # 1
          BY <3>1, <2>2, <1>1, <1>3
        <4>2. PICK k \in 1..Len(notes') : notes'[k] = notes[i]
          BY <4>1, <1>9
        <4> QED
          BY <4>2, <3>1, <1>2 DEF Payload
      <3> QED
        BY <3>1, <2>2, <1>2 DEF Lost
    <2> QED
      BY <2>1, <2>2
  <1>11. ASSUME NEW e \in EntityTypes, NEW t \in Tasks, Underway(e, t)
         PROVE  Underway(e, t)'
    <2>1. CASE \E i \in 1..Len(notes) : e \in Payload(notes[i])
      <3>1. PICK i \in 1..Len(notes) : e \in Payload(notes[i])
        BY <2>1
      <3>2. CASE i = 1
        BY <3>1, <3>2, <1>1, <1>3, <1>5 DEF Underway
      <3>3. CASE i # 1
        <4>1. PICK k \in 1..Len(notes') : notes'[k] = notes[i]
          BY <3>3, <1>9
        <4>2. e \in Payload(notes[k])'
          BY <4>1, <3>1, <1>2 DEF Payload
        <4> QED
          BY <4>1, <4>2 DEF Underway
      <3> QED
        BY <3>2, <3>3
    <2> QED
      BY <2>1, <1>2, <1>5, <1>11 DEF Underway
  <1>12. ChangesUnderway'
    BY <1>2, <1>10, <1>11, ServedStep
  <1> QED
    BY <1>7, <1>8, <1>12 DEF SubscriptionsInv

LEMMA NextEventKeeps == SubscriptionsInv /\ NextEvent => SubscriptionsInv'
  <1> SUFFICES ASSUME SubscriptionsInv, NextEvent PROVE SubscriptionsInv'
    OBVIOUS
  <1>0. SubscriptionsTypeOK
    BY DEF SubscriptionsInv
  <1>1. PICK event : event = Head(events)
    OBVIOUS
  <1>2. /\ fanout.to = {} /\ events # <<>> /\ events' = Tail(events)
        /\ fanout' = [event |-> event, to |-> senders]
        /\ UNCHANGED <<data, unsent, notes, rows, serial, missed>>
        /\ UNCHANGED <<senders, dsynced, tasks, operations, sent, connection, messages>>
    BY <1>1 DEF NextEvent, socketVars, storeEventVars
  <1>t. events \in Seq(SUBSET EntityTypes) /\ senders \subseteq Tasks
    BY <1>0, FanoutTypes
  <1>3. /\ event \in SUBSET EntityTypes /\ events' \in Seq(SUBSET EntityTypes)
        /\ Len(events) \in Nat \ {0} /\ Len(events') = Len(events) - 1
        /\ \A i \in 1..Len(events') : events'[i] = events[i + 1]
        /\ event = events[1]
    BY <1>1, <1>2, <1>t, HeadTailProperties, LenProperties
  <1>4. fanout' \in [event : SUBSET EntityTypes, to : SUBSET Tasks]
        /\ fanout'.event = event /\ fanout'.to = senders
    BY <1>2, <1>3, <1>t
  <1>5. \A e : e \in UNION ToSet(events) => e \in event \/ e \in UNION ToSet(events')
    <2>1. ASSUME NEW e, NEW i \in 1..Len(events), e \in events[i]
          PROVE  e \in event \/ \E k \in 1..Len(events') : e \in events'[k]
      <3>1. CASE i = 1
        BY <3>1, <2>1, <1>3
      <3>2. CASE i # 1
        <4>1. i - 1 \in 1..Len(events') /\ events'[i - 1] = events[i]
          BY <3>2, <1>3
        <4> QED
          BY <4>1, <2>1
      <3> QED
        BY <3>1, <3>2
    <2> QED
      BY <2>1, <1>t, <1>3, InEvents
  <1>6. /\ \A t : Live(t)' = Live(t)
        /\ Tasks' = Tasks /\ Active' = Active
        /\ \A n : Payload(n)' = Payload(n) /\ \A i : DataAfter(i)' = DataAfter(i)
    BY <1>2 DEF Live, Canceled, Tasks, Active, Payload, DataAfter
  <1>7. SubscriptionsTypeOK'
    BY <1>0, <1>2, <1>3, <1>4, <1>6, <1>t DEF SubscriptionsTypeOK
  <1>8. UniqueRows' /\ SubscribedTasks' /\ CompletedTasks' /\ Lost' = Lost
    BY <1>2, <1>6 DEF SubscriptionsInv, UniqueRows, SubscribedTasks, CompletedTasks, CompletedTask,
       Lost
  <1>9. ASSUME NEW e \in EntityTypes, NEW t \in Tasks, Live(t), tasks[t].phase # "starting",
               Underway(e, t)
        PROVE  Underway(e, t)'
    <2>1. t \in senders
      BY <1>9 DEF SubscribedTasks, SubscriptionsInv
    <2>2. CASE e \in UNION ToSet(events)
      BY <2>1, <2>2, <1>4, <1>5 DEF Underway
    <2> QED
      BY <2>2, <1>2, <1>6, <1>9 DEF Underway
  <1>10. ChangesUnderway'
    BY <1>2, <1>8, <1>9, ServedStep
  <1> QED
    BY <1>7, <1>8, <1>10 DEF SubscriptionsInv

LEMMA CleanUpKeeps == SubscriptionsInv /\ CleanUp => SubscriptionsInv'
  <1> SUFFICES ASSUME SubscriptionsInv, CleanUp PROVE SubscriptionsInv'
    OBVIOUS
  <1>0. SubscriptionsTypeOK
    BY DEF SubscriptionsInv
  <1>1. /\ senders' = {t \in senders : ~Stale(t)}
        /\ UNCHANGED <<data, unsent, notes, rows, serial, missed, events, fanout>>
        /\ UNCHANGED <<dsynced, tasks, operations, sent, connection, messages>>
    BY DEF CleanUp, socketVars, storeEventVars
  <1>2. /\ \A t : Live(t)' = Live(t)
        /\ Tasks' = Tasks /\ Active' = Active
        /\ \A n : Payload(n)' = Payload(n) /\ \A i : DataAfter(i)' = DataAfter(i)
    BY <1>1 DEF Live, Canceled, Tasks, Active, Payload, DataAfter
  <1>3. SubscriptionsTypeOK'
    BY <1>0, <1>1, <1>2 DEF SubscriptionsTypeOK
  <1>4. UniqueRows' /\ CompletedTasks' /\ Lost' = Lost
    BY <1>1, <1>2 DEF SubscriptionsInv, UniqueRows, CompletedTasks, CompletedTask, Lost
  <1>5. SubscribedTasks'
    BY <1>1, <1>2 DEF SubscriptionsInv, SubscribedTasks, Stale, Live
  <1>6. \A e, t : Underway(e, t)' = Underway(e, t)
    BY <1>1, <1>2 DEF Underway
  <1>7. ChangesUnderway'
    BY <1>1, <1>4, <1>6, ServedStep
  <1> QED
    BY <1>3, <1>4, <1>5, <1>7 DEF SubscriptionsInv

-----------------------------------------------------------------------------
(* Steps that change one task.                                               *)

\* Task t becomes w, for the same operation.
Becomes(t, w) ==
    /\ w \in Task /\ w.operation = tasks[t].operation
    /\ tasks' = [tasks EXCEPT ![t] = w]
    /\ UNCHANGED <<data, unsent, notes, rows, serial, missed, events, operations, connection>>

LEMMA BecomesFacts ==
    ASSUME SubscriptionsTypeOK, NEW t \in Tasks, NEW w, Becomes(t, w)
    PROVE  /\ tasks' \in Seq(Task) /\ Len(tasks') = Len(tasks) /\ Tasks' = Tasks
           /\ tasks'[t] = w /\ \A u \in Tasks \ {t} : tasks'[u] = tasks[u]
           /\ \A u \in Tasks : tasks'[u].operation = tasks[u].operation
           /\ \A u \in Tasks : Listens(u)' = Listens(u) /\ Canceled(u)' = Canceled(u)
           /\ Active' = Active /\ Lost' = Lost /\ \A n : Payload(n)' = Payload(n)
  <1>1. tasks \in Seq(Task) /\ Len(tasks) \in Nat
    BY FanoutTypes
  <1>2. /\ tasks' \in Seq(Task) /\ Len(tasks') = Len(tasks)
        /\ tasks'[t] = w /\ \A u \in Tasks \ {t} : tasks'[u] = tasks[u]
    BY <1>1, ExceptSeq DEF Becomes, Tasks
  <1>3. \A u \in Tasks : tasks'[u].operation = tasks[u].operation
    BY <1>2 DEF Becomes
  <1>4. Tasks' = Tasks
    BY <1>2 DEF Tasks
  <1>5. \A u \in Tasks : Listens(u)' = Listens(u) /\ Canceled(u)' = Canceled(u)
    BY <1>3 DEF Listens, Canceled, Becomes
  <1>6. \A n : Payload(n)' = Payload(n)
    BY DEF Payload, Becomes
  <1>7. Active' = Active /\ Lost' = Lost
    BY <1>6 DEF Active, Lost, Becomes
  <1> QED
    BY <1>2, <1>3, <1>4, <1>5, <1>6, <1>7

LEMMA BecomesType ==
    ASSUME SubscriptionsTypeOK, NEW t \in Tasks, NEW w, Becomes(t, w),
           fanout' \in [event : SUBSET EntityTypes, to : SUBSET Tasks], senders' \subseteq Tasks,
           sent' \in Seq([kind : {"data", "complete", "error"}, task : 0..Len(tasks)]),
           UNCHANGED <<dsynced, messages>>
    PROVE  SubscriptionsTypeOK'
  <1>1. \A o \in Active : operations[o] \in Tasks
    BY FanoutTypes DEF SubscriptionsTypeOK, Active, Tasks
  <1>2. \A o \in Active : tasks'[operations[o]].operation = o
    BY <1>1, BecomesFacts DEF SubscriptionsTypeOK
  <1> QED
    BY <1>2, BecomesFacts DEF SubscriptionsTypeOK, Becomes

\* The events on their way to t through the fan-out, its channel and its throttle.
Near(e, t) ==
    \/ t \in fanout.to /\ e \in fanout.event
    \/ e \in UNION ToSet(tasks[t].channel)
    \/ e \in tasks[t].pending

LEMMA BecomesServed ==
    ASSUME SubscriptionsInv, NEW t \in Tasks, NEW w, Becomes(t, w),
           tasks[t].phase # "gone",
           fanout'.event = fanout.event, \A u \in fanout.to \ {t} : u \in fanout'.to,
           \/ w.phase \in {"starting", "execute", "gone"}
           \/ \A e \in Listens(t) : w.seen[e] < data[e] =>
                 /\ tasks[t].phase \notin {"starting", "execute"}
                 /\ w.seen[e] = tasks[t].seen[e]
                 /\ Near(e, t) => Near(e, t)'
    PROVE  ChangesUnderway'
  <1>0. SubscriptionsTypeOK
    BY DEF SubscriptionsInv
  <1>1. UNCHANGED <<data, unsent, notes, rows, serial, missed, events, operations>>
    BY DEF Becomes
  <1>2. ASSUME NEW u \in Tasks \ {t}, Live(u)' PROVE Served(u)'
    <2>1. Live(u) /\ tasks'[u] = tasks[u]
      BY <1>2, <1>0, BecomesFacts DEF Live
    <2>2. Served(u)
      BY <2>1 DEF ChangesUnderway, SubscriptionsInv, Served
    <2>3. \A e : Underway(e, u) => Underway(e, u)'
      BY <1>0, <1>1, <2>1, BecomesFacts DEF Underway
    <2> QED
      BY <1>0, <1>1, <2>1, <2>2, <2>3, BecomesFacts DEF Served
  <1>3. ASSUME Live(t)' PROVE Served(t)'
    <2>1. Live(t) /\ tasks'[t] = w /\ w.phase # "gone"
      BY <1>3, <1>0, BecomesFacts DEF Live
    <2>2. Served(t)
      BY <2>1 DEF ChangesUnderway, SubscriptionsInv, Served
    <2>3. CASE w.phase \in {"starting", "execute"}
      BY <2>1, <2>3 DEF Served
    <2>4. CASE w.phase \notin {"starting", "execute"}
      <3> SUFFICES ASSUME NEW e \in Listens(t) \ Lost, w.seen[e] < data[e]
                   PROVE  Underway(e, t)'
        BY <1>0, <1>1, <2>1, BecomesFacts DEF Served
      <3>1. /\ tasks[t].phase \notin {"starting", "execute"}
            /\ w.seen[e] = tasks[t].seen[e]
            /\ Near(e, t) => Near(e, t)'
        BY <2>1, <2>4
      <3>2. Underway(e, t)
        BY <3>1, <2>2 DEF Served
      <3>3. CASE Near(e, t)
        BY <3>1, <3>3 DEF Underway, Near
      <3>4. CASE ~Near(e, t)
        BY <3>2, <3>4, <1>0, <1>1, BecomesFacts DEF Underway, Near
      <3> QED
        BY <3>3, <3>4
    <2> QED
      BY <2>3, <2>4
  <1> QED
    BY <1>0, <1>2, <1>3, BecomesFacts DEF ChangesUnderway, Served

LEMMA BecomesSubscribed ==
    ASSUME SubscriptionsInv, NEW t \in Tasks, NEW w, Becomes(t, w),
           senders \subseteq senders', tasks[t].phase # "gone",
           tasks[t].phase # "starting" \/ w.phase \in {"starting", "gone"} \/ t \in senders'
    PROVE  SubscribedTasks'
  <1>0. SubscriptionsTypeOK
    BY DEF SubscriptionsInv
  <1>1. ASSUME NEW u \in Tasks, Live(u)', tasks'[u].phase # "starting" PROVE u \in senders'
    <2>1. CASE u = t
      BY <2>1, <1>0, <1>1, BecomesFacts DEF Live, SubscribedTasks, SubscriptionsInv
    <2>2. CASE u # t
      BY <2>2, <1>0, <1>1, BecomesFacts DEF Live, SubscribedTasks, SubscriptionsInv
    <2> QED
      BY <2>1, <2>2
  <1> QED
    BY <1>0, <1>1, BecomesFacts DEF SubscribedTasks

LEMMA NotCanceledActive ==
    ASSUME SubscriptionsTypeOK, NEW t \in Tasks, ~Canceled(t)
    PROVE  \E o \in Operations : operations[o] = t
  <1>1. tasks[t] \in Task
    BY FanoutTypes
  <1>2. tasks[t].operation \in Operations
    BY <1>1 DEF Task
  <1> QED
    BY <1>2 DEF Canceled

\* The task does not send: a completed one stays as it was.
LEMMA BecomesCompleted ==
    ASSUME SubscriptionsInv, NEW t \in Tasks, NEW w, Becomes(t, w), UNCHANGED sent,
           w.phase # "polled" \/ ~Canceled(t) \/ tasks[t].phase = "polled"
    PROVE  CompletedTasks'
  <1>0. SubscriptionsTypeOK
    BY DEF SubscriptionsInv
  <1>b. /\ UNCHANGED operations /\ Tasks' = Tasks /\ tasks'[t] = w
        /\ \A u \in Tasks \ {t} : tasks'[u] = tasks[u]
    <2>1. UNCHANGED operations
      BY DEF Becomes
    <2> QED
      BY <2>1, <1>0, BecomesFacts
  <1>1. \A i : DataAfter(i)' = DataAfter(i)
    BY DEF DataAfter
  <1>2. ASSUME NEW i \in 1..Len(sent), sent[i].kind = "complete" PROVE CompletedTask(i)'
    <2>1. CompletedTask(i)
      BY <1>2 DEF SubscriptionsInv, CompletedTasks
    <2>2. sent[i].task # t \/ Canceled(t)
      BY <2>1, <1>0, NotCanceledActive DEF CompletedTask
    <2> QED
      BY <2>1, <2>2, <1>b, <1>1 DEF CompletedTask
  <1> QED
    BY <1>2 DEF CompletedTasks

\* The task sends a result: it has not been stopped, or this is the one in hand.
LEMMA BecomesSent ==
    ASSUME SubscriptionsInv, NEW t \in Tasks, NEW w, Becomes(t, w),
           sent' = Append(sent, Message("data", t)), w.phase # "polled",
           ~Canceled(t) \/ tasks[t].phase = "polled"
    PROVE  /\ CompletedTasks'
           /\ sent' \in Seq([kind : {"data", "complete", "error"}, task : 0..Len(tasks)])
  <1>0. SubscriptionsTypeOK
    BY DEF SubscriptionsInv
  <1>b. /\ UNCHANGED operations /\ Tasks' = Tasks /\ tasks'[t] = w
        /\ \A u \in Tasks \ {t} : tasks'[u] = tasks[u]
    <2>1. UNCHANGED operations
      BY DEF Becomes
    <2> QED
      BY <2>1, <1>0, BecomesFacts
  <1> DEFINE M == [kind : {"data", "complete", "error"}, task : 0..Len(tasks)]
             new == Message("data", t)
  <1>1. new \in M /\ new.kind = "data" /\ new.task = t
    BY <1>0, FanoutTypes DEF Message, Tasks
  <1>2. sent \in Seq(M) /\ Len(sent) \in Nat
    BY <1>0, LenProperties DEF SubscriptionsTypeOK
  <1> HIDE DEF M, new
  <1>3. /\ sent' \in Seq(M) /\ Len(sent') = Len(sent) + 1
        /\ \A i \in 1..Len(sent) : sent'[i] = sent[i]
        /\ sent'[Len(sent) + 1] = new
    BY <1>1, <1>2, AppendProperties DEF new
  <1>4. ASSUME NEW i \in 1..Len(sent')
        PROVE  DataAfter(i)' = DataAfter(i) \cup
                  {j \in {Len(sent) + 1} : i # j /\ sent'[i].task = t}
    <2>1. CASE i = Len(sent) + 1
      BY <2>1, <1>1, <1>2, <1>3 DEF DataAfter
    <2>2. CASE i \in 1..Len(sent)
      BY <2>2, <1>1, <1>2, <1>3 DEF DataAfter
    <2> QED
      BY <2>1, <2>2, <1>2, <1>3
  <1>5. ASSUME NEW i \in 1..Len(sent'), sent'[i].kind = "complete" PROVE CompletedTask(i)'
    <2>1. i \in 1..Len(sent) /\ sent'[i] = sent[i]
      BY <1>1, <1>2, <1>3, <1>5
    <2>2. CompletedTask(i)
      BY <1>5, <2>1 DEF SubscriptionsInv, CompletedTasks
    <2>3. CASE sent[i].task # t
      BY <2>1, <2>2, <2>3, <1>b, <1>4 DEF CompletedTask
    <2>4. CASE sent[i].task = t
      <3>1. tasks[t].phase = "polled"
        BY <2>2, <2>4, <1>0, NotCanceledActive DEF CompletedTask
      <3>2. DataAfter(i)' = {Len(sent) + 1}
        BY <3>1, <2>1, <2>2, <2>4, <1>2, <1>4 DEF CompletedTask
      <3> QED
        BY <3>2, <2>1, <2>2, <2>4, <1>b DEF CompletedTask
    <2> QED
      BY <2>3, <2>4
  <1> QED
    BY <1>3, <1>5 DEF CompletedTasks, M

\* A step of a task that neither sends nor subscribes.
LEMMA BecomesKeeps ==
    ASSUME SubscriptionsInv, NEW t \in Tasks, NEW w, Becomes(t, w),
           UNCHANGED <<fanout, senders, dsynced, sent, messages>>,
           tasks[t].phase # "gone",
           tasks[t].phase # "starting" \/ w.phase = "gone",
           w.phase # "polled" \/ ~Canceled(t),
           \/ w.phase \in {"execute", "gone"}
           \/ \A e \in Listens(t) : w.seen[e] < data[e] =>
                 /\ tasks[t].phase \notin {"starting", "execute"}
                 /\ w.seen[e] = tasks[t].seen[e]
                 /\ Near(e, t) => Near(e, t)'
    PROVE  SubscriptionsInv'
  <1>0. SubscriptionsTypeOK
    BY DEF SubscriptionsInv
  <1>1. SubscriptionsTypeOK'
    BY <1>0, FanoutTypes, BecomesType DEF SubscriptionsTypeOK
  <1>2. UniqueRows'
    BY DEF UniqueRows, SubscriptionsInv, Becomes
  <1>3. SubscribedTasks'
    BY BecomesSubscribed
  <1>4. CompletedTasks'
    BY BecomesCompleted
  <1>5. ChangesUnderway'
    BY BecomesServed
  <1> QED
    BY <1>1, <1>2, <1>3, <1>4, <1>5 DEF SubscriptionsInv

LEMMA TaskFields ==
    ASSUME SubscriptionsTypeOK, NEW t \in Tasks
    PROVE  /\ tasks[t] \in Task
           /\ tasks[t].channel \in Seq(SUBSET EntityTypes)
           /\ Len(tasks[t].channel) \in Nat
           /\ \A i \in 1..Len(tasks[t].channel) : tasks[t].channel[i] \subseteq EntityTypes
           /\ tasks[t].pending \subseteq EntityTypes
           /\ data \in [EntityTypes -> Int]
           /\ tasks[t].operation \in Operations
  <1>1. tasks[t] \in Task
    BY FanoutTypes
  <1>2. /\ tasks[t].channel \in Seq(SUBSET EntityTypes)
        /\ tasks[t].pending \subseteq EntityTypes /\ tasks[t].operation \in Operations
    BY <1>1 DEF Task
  <1>3. data \in [EntityTypes -> Int]
    BY StoreTypes
  <1> QED
    BY <1>1, <1>2, <1>3, LenProperties, ElementOfSeq

LEMMA PassEventKeeps ==
    ASSUME SubscriptionsInv, NEW t \in Tasks, PassEvent(t)
    PROVE  SubscriptionsInv'
  <1>0. SubscriptionsTypeOK
    BY DEF SubscriptionsInv
  <1>1. /\ tasks[t].phase = "waiting" /\ ~Canceled(t)
        /\ UNCHANGED <<fanout, senders, dsynced, sent, messages>>
        /\ UNCHANGED <<data, unsent, notes, rows, serial, missed, events, operations, connection>>
    BY DEF PassEvent, storeEventVars, fanoutVars, socketVars
  <1>2. CASE Wanted(t) = {} /\ SetTask(t, [tasks[t] EXCEPT !.channel = <<>>])
    <2> DEFINE w == [tasks[t] EXCEPT !.channel = <<>>]
    <2>1. /\ w \in Task /\ w.operation = tasks[t].operation /\ w.phase = "waiting"
          /\ w.seen = tasks[t].seen /\ w.pending = tasks[t].pending
      <3>1. <<>> \in Seq(SUBSET EntityTypes) /\ tasks[t] \in Task
        BY <1>0, TaskFields, EmptySeq
      <3> QED
        BY <3>1, <1>1 DEF Task
    <2>2. tasks' = [tasks EXCEPT ![t] = w]
      BY <1>2 DEF SetTask
    <2> HIDE DEF w
    <2>3. Becomes(t, w)
      BY <2>1, <2>2, <1>1 DEF Becomes
    <2>4. tasks'[t] = w
      BY <1>0, <2>3, BecomesFacts
    <2>5. \A e \in Listens(t) : e \notin UNION ToSet(tasks[t].channel)
      BY <1>0, <1>2, TaskFields, InEvents DEF Wanted
    <2>6. \A e \in Listens(t) : Near(e, t) => Near(e, t)'
      BY <2>1, <2>4, <2>5, <1>1 DEF Near
    <2> QED
      BY <2>1, <2>3, <2>6, <1>1, BecomesKeeps
  <1>3. ASSUME NEW i \in Wanted(t),
               SetTask(t, [tasks[t] EXCEPT
                  !.channel = SubSeq(tasks[t].channel, i + 1, Len(tasks[t].channel)),
                  !.phase = "execute"])
        PROVE  SubscriptionsInv'
    <2>1. PICK rest : rest = SubSeq(tasks[t].channel, i + 1, Len(tasks[t].channel))
      OBVIOUS
    <2>2. rest \in Seq(SUBSET EntityTypes)
      BY <2>1, <1>0, TaskFields, SubSeqProperties DEF Wanted
    <2> DEFINE w == [tasks[t] EXCEPT !.channel = rest, !.phase = "execute"]
    <2>3. w \in Task /\ w.operation = tasks[t].operation /\ w.phase = "execute"
      BY <2>2, <1>0, TaskFields DEF Task
    <2>4. tasks' = [tasks EXCEPT ![t] = w]
      BY <1>3, <2>1 DEF SetTask
    <2> HIDE DEF w
    <2>5. Becomes(t, w)
      BY <2>3, <2>4, <1>1 DEF Becomes
    <2> QED
      BY <2>3, <2>5, <1>1, BecomesKeeps
  <1> QED
    BY <1>2, <1>3 DEF PassEvent

LEMMA HoldEventsKeeps ==
    ASSUME SubscriptionsInv, NEW t \in Tasks, HoldEvents(t)
    PROVE  SubscriptionsInv'
  <1>0. SubscriptionsTypeOK
    BY DEF SubscriptionsInv
  <1>1. /\ tasks[t].phase = "waiting" /\ ~Canceled(t)
        /\ UNCHANGED <<fanout, senders, dsynced, sent, messages>>
        /\ UNCHANGED <<data, unsent, notes, rows, serial, missed, events, operations, connection>>
    BY DEF HoldEvents, storeEventVars, fanoutVars, socketVars
  <1>2. PICK held : held = Accumulate(t)
    OBVIOUS
  <1>3. /\ held \subseteq EntityTypes /\ tasks[t].pending \subseteq held
        /\ \A e \in Listens(t) : e \in UNION ToSet(tasks[t].channel) => e \in held
    <2>1. held \subseteq EntityTypes /\ tasks[t].pending \subseteq held
      BY <1>0, <1>2, TaskFields DEF Accumulate, Wanted
    <2>2. ASSUME NEW e \in Listens(t), e \in UNION ToSet(tasks[t].channel) PROVE e \in held
      <3>1. PICK i \in 1..Len(tasks[t].channel) : e \in tasks[t].channel[i]
        BY <2>2, <1>0, TaskFields, InEvents
      <3>2. i \in Wanted(t)
        BY <3>1 DEF Wanted
      <3> QED
        BY <3>1, <3>2, <1>2 DEF Accumulate
    <2> QED
      BY <2>1, <2>2
  <1> DEFINE w == [tasks[t] EXCEPT !.channel = <<>>, !.pending = held]
  <1>4. /\ w \in Task /\ w.operation = tasks[t].operation /\ w.phase = "waiting"
        /\ w.seen = tasks[t].seen /\ w.pending = held
    <2>1. <<>> \in Seq(SUBSET EntityTypes) /\ tasks[t] \in Task
      BY <1>0, TaskFields, EmptySeq
    <2> QED
      BY <2>1, <1>1, <1>3 DEF Task
  <1>5. tasks' = [tasks EXCEPT ![t] = w]
    BY <1>2 DEF HoldEvents, SetTask
  <1> HIDE DEF w
  <1>6. Becomes(t, w)
    BY <1>1, <1>4, <1>5 DEF Becomes
  <1>7. tasks'[t] = w
    BY <1>0, <1>6, BecomesFacts
  <1>8. \A e \in Listens(t) : Near(e, t) => Near(e, t)'
    BY <1>1, <1>3, <1>4, <1>7 DEF Near
  <1> QED
    BY <1>1, <1>4, <1>6, <1>8, BecomesKeeps

LEMMA SendPendingKeeps ==
    ASSUME SubscriptionsInv, NEW t \in Tasks, SendPending(t)
    PROVE  SubscriptionsInv'
  <1>0. SubscriptionsTypeOK
    BY DEF SubscriptionsInv
  <1>1. /\ tasks[t].phase = "waiting" /\ ~Canceled(t)
        /\ UNCHANGED <<fanout, senders, dsynced, sent, messages>>
        /\ UNCHANGED <<data, unsent, notes, rows, serial, missed, events, operations, connection>>
    BY DEF SendPending, storeEventVars, fanoutVars, socketVars
  <1> DEFINE w == [tasks[t] EXCEPT !.channel = <<>>, !.pending = {}, !.phase = "execute"]
  <1>2. w \in Task /\ w.operation = tasks[t].operation /\ w.phase = "execute"
    <2>1. <<>> \in Seq(SUBSET EntityTypes) /\ tasks[t] \in Task
      BY <1>0, TaskFields, EmptySeq
    <2> QED
      BY <2>1, <1>1 DEF Task
  <1>3. tasks' = [tasks EXCEPT ![t] = w]
    BY DEF SendPending, SetTask
  <1> HIDE DEF w
  <1>4. Becomes(t, w)
    BY <1>1, <1>2, <1>3 DEF Becomes
  <1> QED
    BY <1>1, <1>2, <1>4, BecomesKeeps

LEMMA NoticeSyncedKeeps ==
    ASSUME SubscriptionsInv, NEW t \in Tasks, NoticeSynced(t)
    PROVE  SubscriptionsInv'
  <1>0. SubscriptionsTypeOK
    BY DEF SubscriptionsInv
  <1>1. /\ tasks[t].phase = "waiting" /\ ~Canceled(t)
        /\ UNCHANGED <<fanout, senders, dsynced, sent, messages>>
        /\ UNCHANGED <<data, unsent, notes, rows, serial, missed, events, operations, connection>>
    BY DEF NoticeSynced, storeEventVars, fanoutVars, socketVars
  <1> DEFINE w == [tasks[t] EXCEPT !.synced = TRUE]
  <1>2. /\ w \in Task /\ w.operation = tasks[t].operation /\ w.phase = "waiting"
        /\ w.seen = tasks[t].seen /\ w.pending = tasks[t].pending
        /\ w.channel = tasks[t].channel
    <2>1. tasks[t] \in Task
      BY <1>0, TaskFields
    <2> QED
      BY <2>1, <1>1 DEF Task
  <1>3. tasks' = [tasks EXCEPT ![t] = w]
    BY DEF NoticeSynced, SetTask
  <1> HIDE DEF w
  <1>4. Becomes(t, w)
    BY <1>1, <1>2, <1>3 DEF Becomes
  <1>5. tasks'[t] = w
    BY <1>0, <1>4, BecomesFacts
  <1>6. \A e \in Listens(t) : Near(e, t) => Near(e, t)'
    BY <1>1, <1>2, <1>5 DEF Near
  <1> QED
    BY <1>1, <1>2, <1>4, <1>6, BecomesKeeps

LEMMA ExecuteEventKeeps ==
    ASSUME SubscriptionsInv, NEW t \in Tasks, ExecuteEvent(t)
    PROVE  SubscriptionsInv'
  <1>0. SubscriptionsTypeOK
    BY DEF SubscriptionsInv
  <1>1. /\ tasks[t].phase = "execute" /\ ~Canceled(t)
        /\ UNCHANGED <<fanout, senders, dsynced, sent, messages>>
        /\ UNCHANGED <<data, unsent, notes, rows, serial, missed, events, operations, connection>>
    BY DEF ExecuteEvent, storeEventVars, fanoutVars, socketVars
  <1> DEFINE w == [tasks[t] EXCEPT !.seen = data, !.phase = "executed"]
  <1>2. /\ w \in Task /\ w.operation = tasks[t].operation /\ w.phase = "executed"
        /\ w.seen = data
    <2>1. data \in [EntityTypes -> Int] /\ tasks[t] \in Task
      BY <1>0, TaskFields
    <2> QED
      BY <2>1, <1>1 DEF Task
  <1>3. tasks' = [tasks EXCEPT ![t] = w]
    BY DEF ExecuteEvent, SetTask
  <1> HIDE DEF w
  <1>4. Becomes(t, w)
    BY <1>1, <1>2, <1>3 DEF Becomes
  <1>5. \A e \in Listens(t) : ~(w.seen[e] < data[e])
    <2>1. Listens(t) \subseteq EntityTypes /\ data \in [EntityTypes -> Int]
      BY <1>0, TaskFields, ListensToEntities
    <2> QED
      BY <2>1, <1>2
  <1> QED
    BY <1>1, <1>2, <1>4, <1>5, BecomesKeeps

LEMMA PollResultKeeps ==
    ASSUME SubscriptionsInv, NEW t \in Tasks, PollResult(t)
    PROVE  SubscriptionsInv'
  <1>0. SubscriptionsTypeOK
    BY DEF SubscriptionsInv
  <1>1. /\ tasks[t].phase = "executed" /\ ~Canceled(t)
        /\ UNCHANGED <<fanout, senders, dsynced, sent, messages>>
        /\ UNCHANGED <<data, unsent, notes, rows, serial, missed, events, operations, connection>>
    BY DEF PollResult, storeEventVars, fanoutVars, socketVars
  <1> DEFINE w == [tasks[t] EXCEPT !.phase = "polled"]
  <1>2. /\ w \in Task /\ w.operation = tasks[t].operation /\ w.phase = "polled"
        /\ w.seen = tasks[t].seen /\ w.pending = tasks[t].pending
        /\ w.channel = tasks[t].channel
    <2>1. tasks[t] \in Task
      BY <1>0, TaskFields
    <2> QED
      BY <2>1, <1>1 DEF Task
  <1>3. tasks' = [tasks EXCEPT ![t] = w]
    BY DEF PollResult, SetTask
  <1> HIDE DEF w
  <1>4. Becomes(t, w)
    BY <1>1, <1>2, <1>3 DEF Becomes
  <1>5. tasks'[t] = w
    BY <1>0, <1>4, BecomesFacts
  <1>6. \A e \in Listens(t) : Near(e, t) => Near(e, t)'
    BY <1>1, <1>2, <1>5 DEF Near
  <1> QED
    BY <1>1, <1>2, <1>4, <1>6, BecomesKeeps

LEMMA CancelTaskKeeps ==
    ASSUME SubscriptionsInv, NEW t \in Tasks, CancelTask(t)
    PROVE  SubscriptionsInv'
  <1>0. SubscriptionsTypeOK
    BY DEF SubscriptionsInv
  <1>1. /\ tasks[t].phase # "gone"
        /\ UNCHANGED <<fanout, senders, dsynced, sent, messages>>
        /\ UNCHANGED <<data, unsent, notes, rows, serial, missed, events, operations, connection>>
    BY DEF CancelTask, storeEventVars, fanoutVars, socketVars
  <1> DEFINE w == [tasks[t] EXCEPT !.phase = "gone", !.channel = <<>>]
  <1>2. w \in Task /\ w.operation = tasks[t].operation /\ w.phase = "gone"
    <2>1. <<>> \in Seq(SUBSET EntityTypes) /\ tasks[t] \in Task
      BY <1>0, TaskFields, EmptySeq
    <2> QED
      BY <2>1, <1>1 DEF Task
  <1>3. tasks' = [tasks EXCEPT ![t] = w]
    BY DEF CancelTask, SetTask
  <1> HIDE DEF w
  <1>4. Becomes(t, w)
    BY <1>1, <1>2, <1>3 DEF Becomes
  <1> QED
    BY <1>1, <1>2, <1>4, BecomesKeeps

LEMMA SubscribeKeeps ==
    ASSUME SubscriptionsInv, NEW t \in Tasks, Subscribe(t)
    PROVE  SubscriptionsInv'
  <1>0. SubscriptionsTypeOK
    BY DEF SubscriptionsInv
  <1>1. /\ tasks[t].phase = "starting" /\ ~Canceled(t)
        /\ senders' = senders \cup {t}
        /\ UNCHANGED <<fanout, dsynced, sent, messages>>
        /\ UNCHANGED <<data, unsent, notes, rows, serial, missed, events, operations, connection>>
    BY DEF Subscribe, storeEventVars, fanoutVars, socketVars
  <1> DEFINE w == [tasks[t] EXCEPT !.phase = "execute", !.synced = dsynced]
  <1>2. w \in Task /\ w.operation = tasks[t].operation /\ w.phase = "execute"
    <2>1. dsynced \in BOOLEAN /\ tasks[t] \in Task
      BY <1>0, TaskFields DEF SubscriptionsTypeOK
    <2> QED
      BY <2>1, <1>1 DEF Task
  <1>3. tasks' = [tasks EXCEPT ![t] = w]
    BY DEF Subscribe, SetTask, FirstPhase
  <1> HIDE DEF w
  <1>4. Becomes(t, w)
    BY <1>1, <1>2, <1>3 DEF Becomes
  <1>5. SubscriptionsTypeOK'
    <2>1. /\ fanout' \in [event : SUBSET EntityTypes, to : SUBSET Tasks] /\ senders' \subseteq Tasks
          /\ sent' \in Seq([kind : {"data", "complete", "error"}, task : 0..Len(tasks)])
      BY <1>0, <1>1, FanoutTypes DEF SubscriptionsTypeOK
    <2> QED
      BY <2>1, <1>0, <1>1, <1>4, BecomesType
  <1>6. UniqueRows'
    BY <1>1 DEF UniqueRows, SubscriptionsInv
  <1>7. SubscribedTasks' /\ CompletedTasks' /\ ChangesUnderway'
    BY <1>1, <1>2, <1>4, BecomesSubscribed, BecomesCompleted, BecomesServed
  <1> QED
    BY <1>5, <1>6, <1>7 DEF SubscriptionsInv

\* A step of a task that sends a result, the first or the one in hand.
LEMMA SendingKeeps ==
    ASSUME SubscriptionsInv, NEW t \in Tasks, NEW w, Becomes(t, w),
           UNCHANGED <<fanout, senders, dsynced, messages>>,
           tasks[t].phase # "gone", w.phase \in {"waiting", "gone"},
           tasks[t].phase # "starting" \/ w.phase = "gone",
           \/ UNCHANGED sent
           \/ sent' = Append(sent, Message("data", t)) /\ (~Canceled(t) \/ tasks[t].phase = "polled"),
           \/ w.phase = "gone"
           \/ /\ tasks[t].phase = "polled" /\ w.seen = tasks[t].seen
              /\ w.pending = tasks[t].pending /\ w.channel = tasks[t].channel
    PROVE  SubscriptionsInv'
  <1>0. SubscriptionsTypeOK
    BY DEF SubscriptionsInv
  <1>1. /\ CompletedTasks'
        /\ sent' \in Seq([kind : {"data", "complete", "error"}, task : 0..Len(tasks)])
    <2>1. CASE UNCHANGED sent
      BY <2>1, <1>0, BecomesCompleted DEF SubscriptionsTypeOK
    <2>2. CASE sent' = Append(sent, Message("data", t))
               /\ (~Canceled(t) \/ tasks[t].phase = "polled")
      BY <2>2, BecomesSent
    <2> QED
      BY <2>1, <2>2
  <1>2. fanout' \in [event : SUBSET EntityTypes, to : SUBSET Tasks] /\ senders' \subseteq Tasks
    BY <1>0, FanoutTypes
  <1>3. SubscriptionsTypeOK'
    BY <1>0, <1>1, <1>2, BecomesType
  <1>4. UniqueRows'
    BY DEF UniqueRows, SubscriptionsInv, Becomes
  <1>5. SubscribedTasks'
    BY BecomesSubscribed
  <1>6. tasks'[t] = w
    BY <1>0, BecomesFacts
  <1>7. w.phase # "gone" => \A e : Near(e, t) => Near(e, t)'
    BY <1>6 DEF Near
  <1>8. ChangesUnderway'
    BY <1>7, BecomesServed
  <1> QED
    BY <1>1, <1>3, <1>4, <1>5, <1>8 DEF SubscriptionsInv

LEMMA SubscribeFailsKeeps ==
    ASSUME SubscriptionsInv, NEW t \in Tasks, SubscribeFails(t)
    PROVE  SubscriptionsInv'
  <1>0. SubscriptionsTypeOK
    BY DEF SubscriptionsInv
  <1>1. /\ tasks[t].phase = "starting" /\ ~Canceled(t)
        /\ UNCHANGED <<fanout, senders, dsynced, messages>>
        /\ UNCHANGED <<data, unsent, notes, rows, serial, missed, events, operations, connection>>
        /\ sent' = Append(sent, Message("data", t)) \/ UNCHANGED sent
    BY DEF SubscribeFails, storeEventVars, fanoutVars
  <1> DEFINE w == [tasks[t] EXCEPT !.phase = "gone"]
  <1>2. w \in Task /\ w.operation = tasks[t].operation /\ w.phase = "gone"
    <2>1. tasks[t] \in Task
      BY <1>0, TaskFields
    <2> QED
      BY <2>1 DEF Task
  <1>3. tasks' = [tasks EXCEPT ![t] = w]
    BY DEF SubscribeFails, SetTask
  <1> HIDE DEF w
  <1>4. Becomes(t, w)
    BY <1>1, <1>2, <1>3 DEF Becomes
  <1> QED
    BY <1>1, <1>2, <1>4, SendingKeeps

LEMMA ForwardResultKeeps ==
    ASSUME SubscriptionsInv, NEW t \in Tasks, ForwardResult(t)
    PROVE  SubscriptionsInv'
  <1>0. SubscriptionsTypeOK
    BY DEF SubscriptionsInv
  <1>1. /\ tasks[t].phase = "polled"
        /\ UNCHANGED <<fanout, senders, dsynced, messages>>
        /\ UNCHANGED <<data, unsent, notes, rows, serial, missed, events, operations, connection>>
    BY DEF ForwardResult, storeEventVars, fanoutVars
  <1>2. ASSUME NEW p \in {"waiting", "gone"}, SetTask(t, [tasks[t] EXCEPT !.phase = p]),
               sent' = Append(sent, Message("data", t)) \/ UNCHANGED sent
        PROVE  SubscriptionsInv'
    <2> DEFINE w == [tasks[t] EXCEPT !.phase = p]
    <2>1. /\ w \in Task /\ w.operation = tasks[t].operation /\ w.phase = p
          /\ w.seen = tasks[t].seen /\ w.pending = tasks[t].pending
          /\ w.channel = tasks[t].channel
      <3>1. tasks[t] \in Task
        BY <1>0, TaskFields
      <3> QED
        BY <3>1 DEF Task
    <2>2. tasks' = [tasks EXCEPT ![t] = w]
      BY <1>2 DEF SetTask
    <2> HIDE DEF w
    <2>3. Becomes(t, w)
      BY <1>1, <2>1, <2>2 DEF Becomes
    <2> QED
      BY <1>1, <1>2, <2>1, <2>3, SendingKeeps
  <1> QED
    BY <1>2 DEF ForwardResult

\* handle_store_events sends to one subscriber.
LEMMA SendKeeps ==
    ASSUME SubscriptionsInv, NEW t \in Tasks, Send(t)
    PROVE  SubscriptionsInv'
  <1>0. SubscriptionsTypeOK
    BY DEF SubscriptionsInv
  <1>1. PICK event : event = fanout.event
    OBVIOUS
  <1>2. /\ t \in fanout.to /\ fanout' = [fanout EXCEPT !.to = fanout.to \ {t}]
        /\ UNCHANGED <<data, unsent, notes, rows, serial, missed, events, operations, connection>>
        /\ UNCHANGED <<dsynced, sent, messages>>
    BY DEF Send, storeEventVars, socketVars
  <1>3. /\ fanout' \in [event : SUBSET EntityTypes, to : SUBSET Tasks]
        /\ fanout'.event = event /\ fanout'.to = fanout.to \ {t} /\ event \subseteq EntityTypes
    BY <1>0, <1>1, <1>2, FanoutTypes
  <1>4. CASE tasks[t].phase = "gone"
    <2>1. senders' = senders \ {t} /\ UNCHANGED tasks
      BY <1>4 DEF Send
    <2>2. /\ \A u : Live(u)' = Live(u)
          /\ Tasks' = Tasks /\ Active' = Active
          /\ \A n : Payload(n)' = Payload(n) /\ \A i : DataAfter(i)' = DataAfter(i)
      BY <1>2, <2>1 DEF Live, Canceled, Tasks, Active, Payload, DataAfter
    <2>3. SubscriptionsTypeOK'
      BY <1>0, <1>2, <1>3, <2>1, <2>2 DEF SubscriptionsTypeOK
    <2>4. UniqueRows' /\ CompletedTasks' /\ Lost' = Lost
      BY <1>2, <2>1, <2>2 DEF SubscriptionsInv, UniqueRows, CompletedTasks, CompletedTask, Lost
    <2>5. SubscribedTasks'
      BY <1>4, <2>1, <2>2 DEF SubscriptionsInv, SubscribedTasks, Live
    <2>6. ASSUME NEW e, NEW u \in Tasks, Live(u), Underway(e, u) PROVE Underway(e, u)'
      BY <2>6, <1>1, <1>2, <1>3, <1>4, <2>1, <2>2 DEF Underway, Live
    <2>7. ChangesUnderway'
      BY <1>2, <2>1, <2>4, <2>6, ServedStep
    <2> QED
      BY <2>3, <2>4, <2>5, <2>7 DEF SubscriptionsInv
  <1>5. CASE tasks[t].phase # "gone"
    <2>1. PICK channel : channel = Append(tasks[t].channel, event)
      OBVIOUS
    <2>2. /\ channel \in Seq(SUBSET EntityTypes)
          /\ \A e : e \in event \/ e \in UNION ToSet(tasks[t].channel) => e \in UNION ToSet(channel)
      <3>1. tasks[t].channel \in Seq(SUBSET EntityTypes) /\ event \in SUBSET EntityTypes
            /\ Len(tasks[t].channel) \in Nat
        BY <1>0, <1>3, TaskFields
      <3>2. /\ channel \in Seq(SUBSET EntityTypes)
            /\ Len(channel) = Len(tasks[t].channel) + 1
            /\ \A i \in 1..Len(tasks[t].channel) : channel[i] = tasks[t].channel[i]
            /\ channel[Len(tasks[t].channel) + 1] = event
        BY <3>1, <2>1, AppendProperties
      <3>3. \A e : e \in event \/ (\E i \in 1..Len(tasks[t].channel) : e \in tasks[t].channel[i])
              => \E i \in 1..Len(channel) : e \in channel[i]
        BY <3>1, <3>2, SMTT(30)
      <3> QED
        BY <3>1, <3>2, <3>3, InEvents
    <2> DEFINE w == [tasks[t] EXCEPT !.channel = channel]
    <2>3. /\ w \in Task /\ w.operation = tasks[t].operation /\ w.phase = tasks[t].phase
          /\ w.seen = tasks[t].seen /\ w.pending = tasks[t].pending /\ w.channel = channel
      <3>1. tasks[t] \in Task
        BY <1>0, TaskFields
      <3> QED
        BY <3>1, <2>2 DEF Task
    <2>4. tasks' = [tasks EXCEPT ![t] = w] /\ UNCHANGED senders
      <3>1. tasks' = [tasks EXCEPT ![t].channel = Append(@, fanout.event)] /\ UNCHANGED senders
        BY <1>5 DEF Send
      <3> QED
        BY <3>1, <1>1, <2>1
    <2> HIDE DEF w
    <2>5. Becomes(t, w)
      BY <1>2, <2>3, <2>4 DEF Becomes
    <2>6. tasks'[t] = w
      BY <1>0, <2>5, BecomesFacts
    <2>7. \A e : Near(e, t) => Near(e, t)'
      BY <1>1, <2>2, <2>3, <2>6 DEF Near
    <2>8. SubscriptionsTypeOK'
      <3>1. /\ senders' \subseteq Tasks
            /\ sent' \in Seq([kind : {"data", "complete", "error"}, task : 0..Len(tasks)])
        BY <1>0, <1>2, <2>4, FanoutTypes DEF SubscriptionsTypeOK
      <3> QED
        BY <3>1, <1>0, <1>2, <1>3, <2>5, BecomesType
    <2>9. SubscribedTasks'
      BY <1>5, <2>3, <2>4, <2>5, BecomesSubscribed DEF SubscribedTasks
    <2>10. ChangesUnderway'
      <3>1. CASE w.phase \in {"starting", "execute"}
        BY <3>1, <1>1, <1>3, <1>5, <2>5, BecomesServed
      <3>2. CASE w.phase \notin {"starting", "execute"}
        BY <3>2, <1>1, <1>3, <1>5, <2>3, <2>5, <2>7, BecomesServed
      <3> QED
        BY <3>1, <3>2
    <2>11. CompletedTasks'
      BY <1>2, <2>3, <2>5, BecomesCompleted
    <2>12. UniqueRows'
      BY <1>2 DEF UniqueRows, SubscriptionsInv
    <2> QED
      BY <2>8, <2>9, <2>10, <2>11, <2>12 DEF SubscriptionsInv
  <1> QED
    BY <1>4, <1>5

-----------------------------------------------------------------------------
(* The connection.                                                           *)

LEMMA SocketTypes ==
    ASSUME SubscriptionsTypeOK
    PROVE  /\ operations \in [Operations -> 0..Len(tasks)]
           /\ Len(tasks) \in Nat /\ Len(sent) \in Nat
           /\ sent \in Seq([kind : {"data", "complete", "error"}, task : 0..Len(tasks)])
           /\ IsFiniteSet(Active) /\ Cardinality(Active) \in Nat
           /\ Cardinality(Active) <= MAX_OPERATIONS_PER_CONNECTION
           /\ \A o \in Active : operations[o] \in Tasks
  <1>1. /\ operations \in [Operations -> 0..Len(tasks)] /\ Len(tasks) \in Nat
        /\ sent \in Seq([kind : {"data", "complete", "error"}, task : 0..Len(tasks)])
        /\ Cardinality(Active) <= MAX_OPERATIONS_PER_CONNECTION
    BY FanoutTypes DEF SubscriptionsTypeOK
  <1>2. Active \subseteq Operations
    BY DEF Active
  <1>3. IsFiniteSet(Active) /\ Cardinality(Active) \in Nat
    BY <1>2, SubscriptionsAssumption, FS_Subset, FS_CardinalityType
  <1>4. \A o \in Active : operations[o] \in Tasks
    BY <1>1 DEF Active, Tasks
  <1> QED
    BY <1>1, <1>3, <1>4, LenProperties

\* Operations end, and the client is told: the invariant is kept if what is sent
\* is an error or says that an operation is complete which has then ended.
LEMMA StopsKeep ==
    ASSUME SubscriptionsInv,
           UNCHANGED <<data, unsent, notes, rows, serial, missed, events, fanout, senders, dsynced,
                       tasks>>,
           messages' \in Nat, connection' \in {"open", "closed"},
           operations' \in [Operations -> 0..Len(tasks)],
           \A o \in Operations : operations'[o] \in {operations[o], 0},
           connection' = "closed" => \A o \in Operations : operations'[o] = 0,
           NEW more \in Seq([kind : {"data", "complete", "error"}, task : 0..Len(tasks)]),
           sent' = sent \o more,
           \A i \in 1..Len(more) :
              \/ more[i].kind = "error"
              \/ /\ more[i].kind = "complete" /\ more[i].task \in Tasks
                 /\ \A o \in Operations : operations'[o] # more[i].task
    PROVE  SubscriptionsInv'
  <1>0. SubscriptionsTypeOK
    BY DEF SubscriptionsInv
  <1> DEFINE M == [kind : {"data", "complete", "error"}, task : 0..Len(tasks)]
  <1>1. sent \in Seq(M) /\ more \in Seq(M) /\ Len(sent) \in Nat /\ Len(tasks) \in Nat
    BY <1>0, SocketTypes
  <1>2. /\ sent' \in Seq(M) /\ Len(more) \in Nat /\ Len(sent') = Len(sent) + Len(more)
        /\ \A i \in 1..Len(sent') :
              sent'[i] = IF i <= Len(sent) THEN sent[i] ELSE more[i - Len(sent)]
    <2> HIDE DEF M
    <2> QED
      BY <1>1, ConcatProperties, LenProperties
  <1>3. /\ Tasks' = Tasks /\ Active' \subseteq Active
        /\ \A u \in Tasks : Listens(u)' = Listens(u) /\ (Live(u)' => Live(u))
    <2>1. Tasks' = Tasks /\ Active' \subseteq Active
      BY DEF Tasks, Active
    <2>2. ASSUME NEW u \in Tasks PROVE Listens(u)' = Listens(u) /\ (Live(u)' => Live(u))
      <3>1. tasks[u].operation \in Operations /\ u # 0
        BY <1>0, <1>1, TaskFields DEF Tasks
      <3> QED
        BY <3>1, <2>1 DEF Live, Canceled, Listens
    <2> QED
      BY <2>1, <2>2
  <1>4. SubscriptionsTypeOK'
    <2>1. Cardinality(Active') <= MAX_OPERATIONS_PER_CONNECTION
      <3>1. IsFiniteSet(Active) /\ Cardinality(Active) <= MAX_OPERATIONS_PER_CONNECTION
            /\ Cardinality(Active) \in Nat
        BY <1>0, SocketTypes
      <3>2. Cardinality(Active') <= Cardinality(Active) /\ IsFiniteSet(Active')
        BY <3>1, <1>3, FS_Subset
      <3>3. Cardinality(Active') \in Nat
        BY <3>2, FS_CardinalityType
      <3> QED
        BY <3>1, <3>2, <3>3, SubscriptionsAssumption
    <2>2. \A o \in Active' : tasks'[operations'[o]].operation = o
      BY <1>0, <1>3 DEF SubscriptionsTypeOK, Active
    <2>3. connection' = "closed" => Active' = {}
      BY DEF Active
    <2> QED
      BY <1>0, <1>2, <1>3, <2>1, <2>2, <2>3 DEF SubscriptionsTypeOK
  <1>5. UniqueRows' /\ SubscribedTasks'
    BY <1>3 DEF SubscriptionsInv, UniqueRows, SubscribedTasks
  <1>6. \A n : Payload(n)' = Payload(n)
    BY DEF Payload
  <1>7. Lost' = Lost /\ \A e, u : Underway(e, u)' = Underway(e, u)
    BY <1>6 DEF Lost, Underway
  <1>8. ChangesUnderway'
    BY <1>3, <1>7 DEF SubscriptionsInv, ChangesUnderway
  <1> HIDE DEF M
  <1>9. ASSUME NEW i \in 1..Len(sent'), sent'[i].kind = "complete" PROVE CompletedTask(i)'
    <2>1. ASSUME NEW j \in DataAfter(i)' PROVE j \in 1..Len(sent) /\ i < j
      <3>1. j \in (i + 1)..Len(sent') /\ sent'[j].kind = "data" /\ j \in 1..Len(sent')
        BY <1>1, <1>2 DEF DataAfter
      <3>2. CASE j > Len(sent)
        <4>1. j - Len(sent) \in 1..Len(more) /\ sent'[j] = more[j - Len(sent)]
          BY <3>1, <3>2, <1>1, <1>2
        <4> QED
          BY <4>1, <3>1
      <3> QED
        BY <3>1, <3>2, <1>1, <1>2
    <2>2. CASE i \in 1..Len(sent)
      <3>1. sent'[i] = sent[i]
        BY <2>2, <1>2, <1>1
      <3>2. CompletedTask(i)
        BY <3>1, <2>2, <1>9 DEF SubscriptionsInv, CompletedTasks
      <3>3. DataAfter(i)' \subseteq DataAfter(i)
        BY <3>1, <2>1, <2>2, <1>1, <1>2 DEF DataAfter
      <3>4. sent[i].task # 0
        BY <3>2, <1>1 DEF CompletedTask, Tasks
      <3> QED
        BY <3>1, <3>2, <3>3, <3>4, <1>3 DEF CompletedTask
    <2>3. CASE i \notin 1..Len(sent)
      <3>1. i - Len(sent) \in 1..Len(more) /\ sent'[i] = more[i - Len(sent)] /\ i > Len(sent)
        BY <2>3, <1>1, <1>2
      <3>2. DataAfter(i)' = {}
        BY <3>1, <2>1, <1>1
      <3> QED
        BY <3>1, <3>2, <1>3, <1>9 DEF CompletedTask
    <2> QED
      BY <2>2, <2>3
  <1>10. CompletedTasks'
    BY <1>9 DEF CompletedTasks
  <1> QED
    BY <1>4, <1>5, <1>8, <1>10 DEF SubscriptionsInv

LEMMA StopOperationKeeps ==
    ASSUME SubscriptionsInv, NEW o \in Operations, StopOperation(o)
    PROVE  SubscriptionsInv'
  <1>0. SubscriptionsTypeOK
    BY DEF SubscriptionsInv
  <1>1. PICK m : m = Message(IF operations[o] = 0 THEN "error" ELSE "complete", operations[o])
    OBVIOUS
  <1> DEFINE M == [kind : {"data", "complete", "error"}, task : 0..Len(tasks)]
  <1>2. /\ operations \in [Operations -> 0..Len(tasks)] /\ Len(tasks) \in Nat
        /\ sent \in Seq(M) /\ \A p \in Active : operations[p] \in Tasks
    BY <1>0, SocketTypes
  <1>3. /\ m \in M /\ m.task = operations[o]
        /\ m.kind = IF operations[o] = 0 THEN "error" ELSE "complete"
    BY <1>1, <1>2 DEF Message
  <1>4. /\ messages \in Nat /\ connection = "open" /\ messages' = messages + 1
        /\ operations' = [operations EXCEPT ![o] = 0] /\ sent' = Append(sent, m)
        /\ UNCHANGED <<data, unsent, notes, rows, serial, missed, events, fanout, senders, dsynced,
                       tasks, connection>>
    BY <1>0, <1>1 DEF StopOperation, Reading, SubscriptionsTypeOK, storeEventVars, fanoutVars
  <1>5. sent' = sent \o <<m>> /\ <<m>> \in Seq(M) /\ Len(<<m>>) = 1 /\ <<m>>[1] = m
    <2> HIDE DEF M
    <2> QED
      BY <1>2, <1>3, <1>4, AppendIsConcat
  <1>6. ASSUME m.kind = "complete"
        PROVE  m.task \in Tasks /\ \A p \in Operations : operations'[p] # m.task
    <2>1. o \in Active /\ m.task = operations[o] /\ m.task \in Tasks /\ m.task # 0
      BY <1>2, <1>3, <1>6 DEF Active, Tasks
    <2>2. ASSUME NEW p \in Operations, p # o PROVE operations[p] # operations[o]
      BY <2>1, <2>2, <1>0 DEF SubscriptionsTypeOK, Active
    <2> QED
      BY <2>1, <2>2, <1>2, <1>4
  <1>7. operations' \in [Operations -> 0..Len(tasks)]
        /\ \A p \in Operations : operations'[p] \in {operations[p], 0}
    BY <1>2, <1>4
  <1>8. PICK more \in Seq(M) : more = <<m>>
    BY <1>5
  <1>9. \A i \in 1..Len(more) :
          \/ more[i].kind = "error"
          \/ /\ more[i].kind = "complete" /\ more[i].task \in Tasks
             /\ \A p \in Operations : operations'[p] # more[i].task
    BY <1>3, <1>5, <1>6, <1>8
  <1>10. /\ sent' = sent \o more /\ messages' \in Nat /\ connection' \in {"open", "closed"}
         /\ connection' # "closed"
    BY <1>4, <1>5, <1>8
  <1> QED
    BY <1>4, <1>7, <1>8, <1>9, <1>10, StopsKeep

\* Operations::drop completes the operations that were active, each once.
LEMMA CompleteAllFacts ==
    ASSUME SubscriptionsTypeOK
    PROVE  /\ CompleteAll \in Seq([kind : {"data", "complete", "error"}, task : 0..Len(tasks)])
           /\ \A i \in 1..Len(CompleteAll) :
                CompleteAll[i].kind = "complete" /\ CompleteAll[i].task \in Tasks
  <1> DEFINE f == [o \in Active |-> Message("complete", operations[o])]
             S == {Message("complete", operations[o]) : o \in Active}
             M == [kind : {"data", "complete", "error"}, task : 0..Len(tasks)]
             n == Cardinality(S)
  <1>1. IsFiniteSet(Active) /\ Len(tasks) \in Nat /\ \A o \in Active : operations[o] \in Tasks
    BY SocketTypes
  <1>2. f \in Surjection(Active, S)
    BY DEF Surjection
  <1>3. IsFiniteSet(S)
    <2> HIDE DEF f, S
    <2> QED
      BY <1>1, <1>2, FS_Surjection
  <1>4. \A m \in S : m \in M /\ m.kind = "complete" /\ m.task \in Tasks
    BY <1>1 DEF Message, Tasks
  <1>5. CompleteAll = SetToSeq(S)
    BY DEF CompleteAll
  <1> HIDE DEF f, S, M
  <1>6. n \in Nat /\ ExistsBijection(1..n, S)
    BY <1>3, FS_CardinalityType
  <1>7. PICK g : g \in Bijection(1..n, S)
    BY <1>6 DEF ExistsBijection
  <1>8. g \in [1..n -> S] /\ IsInjective(g)
    BY <1>7 DEF Bijection, Injection, IsInjective
  <1>9. SetToSeq(S) \in [1..n -> S]
    BY <1>8 DEF SetToSeq
  <1>10. PICK s : s = SetToSeq(S)
    OBVIOUS
  <1>11. s \in [1..n -> M] /\ \A i \in 1..n : s[i] \in S
    BY <1>4, <1>9, <1>10
  <1>12. s \in Seq(M) /\ Len(s) = n
    <2> HIDE DEF n
    <2> QED
      BY <1>6, <1>11, IsASeq, LenProperties
  <1> QED
    BY <1>4, <1>5, <1>10, <1>11, <1>12 DEF M

\* The connection closes, after the messages in last.
LEMMA CloseKeeps ==
    ASSUME SubscriptionsInv,
           NEW last \in Seq([kind : {"data", "complete", "error"}, task : 0..Len(tasks)]),
           \A i \in 1..Len(last) : last[i].kind = "error",
           Close(last), messages' \in Nat,
           UNCHANGED <<data, unsent, notes, rows, serial, missed, events, fanout, senders, dsynced,
                       tasks>>
    PROVE  SubscriptionsInv'
  <1>0. SubscriptionsTypeOK
    BY DEF SubscriptionsInv
  <1> DEFINE M == [kind : {"data", "complete", "error"}, task : 0..Len(tasks)]
  <1>1. PICK done : done = CompleteAll
    OBVIOUS
  <1>2. /\ done \in Seq(M) /\ last \in Seq(M) /\ sent \in Seq(M)
        /\ \A i \in 1..Len(done) : done[i].kind = "complete" /\ done[i].task \in Tasks
        /\ Len(tasks) \in Nat
    BY <1>0, <1>1, CompleteAllFacts, SocketTypes
  <1>3. /\ connection' = "closed" /\ operations' = [o \in Operations |-> 0]
        /\ sent' = (sent \o last) \o done
    BY <1>1 DEF Close
  <1> HIDE DEF M
  <1>4. sent' = sent \o (last \o done)
    <2>1. (sent \o last) \o done = sent \o (last \o done)
      BY <1>2, ConcatAssociative, SMTT(30)
    <2> QED
      BY <2>1, <1>3
  <1>5. PICK more : more = last \o done
    OBVIOUS
  <1>6. /\ more \in Seq(M) /\ Len(last) \in Nat /\ Len(done) \in Nat
        /\ Len(more) = Len(last) + Len(done)
        /\ \A i \in 1..Len(more) : more[i] = IF i <= Len(last) THEN last[i] ELSE done[i - Len(last)]
    BY <1>2, <1>5, ConcatProperties, LenProperties
  <1>7. ASSUME NEW i \in 1..Len(more)
        PROVE  \/ more[i].kind = "error"
               \/ /\ more[i].kind = "complete" /\ more[i].task \in Tasks
                  /\ \A o \in Operations : operations'[o] # more[i].task
    <2>1. CASE i <= Len(last)
      BY <2>1, <1>6
    <2>2. CASE i > Len(last)
      <3>1. i - Len(last) \in 1..Len(done) /\ more[i] = done[i - Len(last)]
        BY <2>2, <1>6
      <3> QED
        BY <3>1, <1>2, <1>3, SMTT(30) DEF Tasks
    <2> QED
      BY <2>1, <2>2, <1>6
  <1>8. operations' \in [Operations -> 0..Len(tasks)]
        /\ \A o \in Operations : operations'[o] = 0
    BY <1>2, <1>3
  <1>9. sent' = sent \o more
    BY <1>4, <1>5
  <1>10. more \in Seq([kind : {"data", "complete", "error"}, task : 0..Len(tasks)])
    BY <1>6 DEF M
  <1> QED
    BY <1>3, <1>7, <1>8, <1>9, <1>10, StopsKeep

LEMMA RefuseOperationKeeps ==
    ASSUME SubscriptionsInv, NEW o \in Operations, RefuseOperation(o)
    PROVE  SubscriptionsInv'
  <1>0. SubscriptionsTypeOK
    BY DEF SubscriptionsInv
  <1>1. PICK m, last : m = Message("error", 0) /\ last = <<m>>
    OBVIOUS
  <1> DEFINE M == [kind : {"data", "complete", "error"}, task : 0..Len(tasks)]
  <1>2. m \in M /\ m.kind = "error"
    BY <1>0, <1>1, SocketTypes DEF Message
  <1>3. last \in Seq(M) /\ Len(last) = 1 /\ last[1] = m
    <2> HIDE DEF M
    <2> QED
      BY <1>1, <1>2
  <1>4. /\ Close(last) /\ messages' \in Nat
        /\ UNCHANGED <<data, unsent, notes, rows, serial, missed, events, fanout, senders, dsynced,
                       tasks>>
    BY <1>0, <1>1
    DEF RefuseOperation, Reading, SubscriptionsTypeOK, storeEventVars, fanoutVars
  <1>5. last \in Seq([kind : {"data", "complete", "error"}, task : 0..Len(tasks)])
        /\ \A i \in 1..Len(last) : last[i].kind = "error"
    BY <1>2, <1>3
  <1> HIDE DEF M
  <1> QED
    BY <1>4, <1>5, CloseKeeps

LEMMA TerminateKeeps == SubscriptionsInv /\ Terminate => SubscriptionsInv'
  <1> SUFFICES ASSUME SubscriptionsInv, Terminate PROVE SubscriptionsInv'
    OBVIOUS
  <1>0. SubscriptionsTypeOK
    BY DEF SubscriptionsInv
  <1>1. PICK last : last = <<>>
    OBVIOUS
  <1>2. /\ last \in Seq([kind : {"data", "complete", "error"}, task : 0..Len(tasks)])
        /\ \A i \in 1..Len(last) : last[i].kind = "error"
    BY <1>1
  <1>3. /\ Close(last) /\ messages' \in Nat
        /\ UNCHANGED <<data, unsent, notes, rows, serial, missed, events, fanout, senders, dsynced,
                       tasks>>
    BY <1>0, <1>1 DEF Terminate, SubscriptionsTypeOK, storeEventVars, fanoutVars
  <1> QED
    BY <1>2, <1>3, CloseKeeps

LEMMA StartOperationKeeps ==
    ASSUME SubscriptionsInv, NEW o \in Operations, StartOperation(o)
    PROVE  SubscriptionsInv'
  <1>0. SubscriptionsTypeOK
    BY DEF SubscriptionsInv
  <1>1. PICK task, n : task = NewTask(o) /\ n = Len(tasks) + 1
    OBVIOUS
  <1>2. /\ connection = "open" /\ messages' = messages + 1
        /\ operations[o] = 0 /\ ~AtLimit
        /\ tasks' = Append(tasks, task) /\ operations' = [operations EXCEPT ![o] = n]
        /\ UNCHANGED <<data, unsent, notes, rows, serial, missed, events, fanout, senders, dsynced,
                       sent, connection>>
    BY <1>1 DEF StartOperation, Reading, storeEventVars, fanoutVars
  <1>3. /\ operations \in [Operations -> 0..Len(tasks)] /\ Len(tasks) \in Nat /\ Len(sent) \in Nat
        /\ tasks \in Seq(Task) /\ \A p \in Active : operations[p] \in Tasks
    BY <1>0, SocketTypes, FanoutTypes
  <1>4. task \in Task /\ task.operation = o /\ task.phase = "starting"
    BY <1>1 DEF NewTask, NothingSeen, Task
  <1>5. /\ tasks' \in Seq(Task) /\ Len(tasks') = n /\ tasks'[n] = task
        /\ \A u \in Tasks : tasks'[u] = tasks[u]
    BY <1>1, <1>2, <1>3, <1>4, AppendProperties DEF Tasks
  <1>6. /\ n \in Nat /\ n \notin Tasks /\ n # 0 /\ Tasks' = Tasks \cup {n}
        /\ 0..Len(tasks) \subseteq 0..n
    BY <1>1, <1>3, <1>5 DEF Tasks
  <1>7. operations' \in [Operations -> 0..n]
    BY <1>2, <1>3, <1>6
  <1>8. Active' = Active \cup {o} /\ o \notin Active
    BY <1>2, <1>3, <1>6 DEF Active
  <1>9. SubscriptionsTypeOK'
    <2>1. Cardinality(Active') <= MAX_OPERATIONS_PER_CONNECTION
      <3>1. IsFiniteSet(Active) /\ Cardinality(Active) \in Nat
        BY <1>0, SocketTypes
      <3>2. Cardinality(Active \cup {o}) = Cardinality(Active) + 1
        BY <3>1, <1>8, FS_AddElement
      <3> QED
        BY <3>1, <3>2, <1>2, <1>8, SubscriptionsAssumption DEF AtLimit
    <2>2. \A p \in Active' : tasks'[operations'[p]].operation = p
      <3>1. ASSUME NEW p \in Active PROVE tasks'[operations'[p]].operation = p
        <4>1. p \in Operations /\ p # o /\ operations[p] \in Tasks
          BY <1>3, <1>8 DEF Active
        <4>2. operations'[p] = operations[p]
          BY <4>1, <1>2, <1>3
        <4>3. tasks[operations[p]].operation = p
          BY <1>0 DEF SubscriptionsTypeOK
        <4> QED
          BY <4>1, <4>2, <4>3, <1>5
      <3>2. operations'[o] = n
        BY <1>2, <1>3
      <3> QED
        BY <3>1, <3>2, <1>4, <1>5, <1>8
    <2>3. sent' \in Seq([kind : {"data", "complete", "error"}, task : 0..n])
      <3>1. [kind : {"data", "complete", "error"}, task : 0..Len(tasks)]
              \subseteq [kind : {"data", "complete", "error"}, task : 0..n]
        BY <1>6
      <3>2. sent \in Seq([kind : {"data", "complete", "error"}, task : 0..Len(tasks)])
        BY <1>0, SocketTypes
      <3> QED
        <4> DEFINE A == [kind : {"data", "complete", "error"}, task : 0..Len(tasks)]
                   B == [kind : {"data", "complete", "error"}, task : 0..n]
        <4>1. A \subseteq B /\ sent \in Seq(A)
          BY <3>1, <3>2
        <4> HIDE DEF A, B
        <4>2. sent \in Seq(B)
          BY <4>1, SeqMonotonic
        <4> QED
          BY <4>2, <1>2 DEF B
    <2>4. fanout' \in [event : SUBSET EntityTypes, to : SUBSET Tasks'] /\ senders' \subseteq Tasks'
      BY <1>0, <1>2, <1>6, FanoutTypes
    <2>5. messages' \in Nat
      BY <1>0, <1>2 DEF SubscriptionsTypeOK
    <2> QED
      BY <1>0, <1>2, <1>5, <1>7, <2>1, <2>2, <2>3, <2>4, <2>5 DEF SubscriptionsTypeOK
  <1>10. \A u \in Tasks : Listens(u)' = Listens(u) /\ (Live(u)' => Live(u))
    <2>1. ASSUME NEW u \in Tasks PROVE Listens(u)' = Listens(u) /\ (Live(u)' => Live(u))
      <3>1. tasks[u].operation \in Operations /\ tasks'[u] = tasks[u] /\ u # n
        BY <1>0, <1>5, <1>6, TaskFields
      <3>2. ASSUME ~Canceled(u)' PROVE ~Canceled(u)
        BY <3>1, <3>2, <1>2, <1>3 DEF Canceled
      <3> QED
        BY <3>1, <3>2 DEF Live, Listens
    <2> QED
      BY <2>1
  <1>11. UniqueRows'
    BY <1>2 DEF SubscriptionsInv, UniqueRows
  <1>12. SubscribedTasks'
    BY <1>2, <1>4, <1>5, <1>6, <1>10 DEF SubscriptionsInv, SubscribedTasks
  <1>13. Lost' = Lost /\ \A e : \A u \in Tasks : Underway(e, u)' = Underway(e, u)
    <2>1. \A m : Payload(m)' = Payload(m)
      BY <1>2 DEF Payload
    <2> QED
      BY <2>1, <1>2, <1>5 DEF Lost, Underway
  <1>14. ChangesUnderway'
    <2>1. ASSUME NEW u \in Tasks, Live(u)' PROVE Served(u)'
      <3>1. Live(u) /\ Listens(u)' = Listens(u) /\ tasks'[u] = tasks[u]
        BY <2>1, <1>5, <1>10
      <3>2. Served(u)
        BY <3>1 DEF SubscriptionsInv, ChangesUnderway, Served
      <3> QED
        BY <3>1, <3>2, <1>2, <1>13 DEF Served
    <2>2. Served(n)'
      BY <1>4, <1>5 DEF Served
    <2> QED
      BY <2>1, <2>2, <1>6 DEF ChangesUnderway, Served
  <1>15. ASSUME NEW i \in 1..Len(sent'), sent'[i].kind = "complete" PROVE CompletedTask(i)'
    <2>1. CompletedTask(i) /\ sent' = sent
      BY <1>2, <1>15 DEF SubscriptionsInv, CompletedTasks
    <2>2. DataAfter(i)' = DataAfter(i)
      BY <1>2 DEF DataAfter
    <2> QED
      BY <2>1, <2>2, <1>2, <1>3, <1>5, <1>6 DEF CompletedTask
  <1>16. CompletedTasks'
    BY <1>15 DEF CompletedTasks
  <1> QED
    BY <1>9, <1>11, <1>12, <1>14, <1>16 DEF SubscriptionsInv

LEMMA SubscriptionsStep == SubscriptionsInv /\ SubscriptionsNext => SubscriptionsInv'
  <1> SUFFICES ASSUME SubscriptionsInv, SubscriptionsNext PROVE SubscriptionsInv'
    OBVIOUS
  <1>1. CASE TransactBlock \/ SendStoreEvent \/ SendFails \/ RowsGrowOld \/ DeploymentSynced
    BY <1>1, TransactBlockKeeps, SendStoreEventKeeps, SendFailsKeeps, RowsGrowOldKeeps,
       DeploymentSyncedKeeps
  <1>2. CASE FanoutStep \/ CleanUp
    BY <1>2, ListenKeeps, NextEventKeeps, SendKeeps, CleanUpKeeps DEF FanoutStep
  <1>3. CASE \E o \in Operations : StartOperation(o) \/ RefuseOperation(o) \/ StopOperation(o)
    BY <1>3, StartOperationKeeps, RefuseOperationKeeps, StopOperationKeeps
  <1>4. CASE Terminate
    BY <1>4, TerminateKeeps
  <1>5. ASSUME NEW t \in Tasks, TaskStep(t) \/ NoticeSynced(t) PROVE SubscriptionsInv'
    BY <1>5, SubscribeKeeps, SubscribeFailsKeeps, PassEventKeeps, HoldEventsKeeps,
       SendPendingKeeps, ExecuteEventKeeps, PollResultKeeps, ForwardResultKeeps, CancelTaskKeeps,
       NoticeSyncedKeeps DEF TaskStep
  <1> QED
    BY <1>1, <1>2, <1>3, <1>4, <1>5 DEF SubscriptionsNext

\* A change that a subscriber has not seen is on its way to it or lost, however
\* commits, notifications, the fan-out, the throttle and the messages of the client
\* interleave, and a client that was told an operation is complete gets at most the
\* one result in hand.
THEOREM SubscriptionsStayConsistent == SubscriptionsSpec => []SubscriptionsConsistent
  <1>1. SubscriptionsInv /\ [SubscriptionsNext]_subscriptionVars => SubscriptionsInv'
    <2>1. ASSUME SubscriptionsInv, UNCHANGED subscriptionVars PROVE SubscriptionsInv'
      <3>1. dsynced' \in BOOLEAN /\ UNCHANGED <<storeEventVars, fanoutVars, tasks, socketVars>>
        BY <2>1 DEF SubscriptionsInv, SubscriptionsTypeOK, subscriptionVars
      <3> QED
        BY <2>1, <3>1, SameState
    <2> QED
      BY <2>1, SubscriptionsStep
  <1> QED
    BY <1>1, SubscriptionsStart, InvIsEnough, PTL DEF SubscriptionsSpec
=============================================================================
