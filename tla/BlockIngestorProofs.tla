------------------------- MODULE BlockIngestorProofs -------------------------
(***************************************************************************)
(* Proofs about BlockIngestor, and about SubgraphIndexer, the system of the*)
(* ingestor and an indexing subgraph, for every tree of blocks, ancestor   *)
(* count and reorg threshold.                                              *)
(*                                                                         *)
(* HeadAncestorsPresent is not inductive: a step of a block stream could   *)
(* drop an ancestor of the head, or leave one in the cache without its     *)
(* receipts.  What excludes it is finality, so the inductive invariant     *)
(* relates the cache to the blocks that have become permanent.             *)
(* LoopBound needs to know what the rounds of the loop have fetched        *)
(* (LoopInv): one ancestor of the candidate each, from the top.  The       *)
(* second half shows that the subgraph's block stream respects what the    *)
(* first half assumes of it (StreamInv), and then what the store holds     *)
(* (DataInv).                                                              *)
(***************************************************************************)
EXTENDS SubgraphIndexer, BlockTreeProofs

\* What has become permanent is on the node's chain, and all of it that the
\* current chain confirms is recorded.
FinalInv ==
    /\ final \subseteq PathOf[latest]
    /\ Confirmed(latest, ReorgThreshold) \subseteq final

\* What the chain head, a block that may become the chain head, or the block
\* the poll is about to store confirms has become permanent.
StoreFinalInv ==
    /\ chain_head # NoBlock => Confirmed(chain_head, ReorgThreshold) \subseteq final
    /\ \A c \in AboveHead : Confirmed(c, ReorgThreshold) \subseteq final
    /\ pc \in {"get", "ingest"} =>
          block \in Block /\ Confirmed(block, ReorgThreshold) \subseteq final

\* A block is cached without receipts only well below the chain head.
LightInv ==
    \A b \in Block : ethereum_blocks[b] = "light" =>
        /\ chain_head # NoBlock
        /\ Number[b] + ReorgThreshold <= Number[chain_head]

IndInv == TypeOK /\ FinalInv /\ StoreFinalInv /\ LightInv /\ HeadAncestorsPresent

------------------------------------------------------------------------------
LEMMA NumberNat == \A b \in Block : Number[b] \in Nat
  BY TreeAssumption

LEMMA PathBlocks == \A b \in Block : PathOf[b] \subseteq Block /\ b \in PathOf[b]
  BY PathClosed

\* The walk of attempt_chain_head_update finds a missing ancestor if there is
\* one: when it returns none, every required ancestor is cached.
LEMMA NoMissingParents ==
    ASSUME NEW c \in Block, MissingParents(c) = {}
    PROVE  RequiredAncestors(c) \subseteq Cached
  <1> DEFINE T == RequiredAncestors(c) \ Cached
  <1> SUFFICES ASSUME T # {}
               PROVE  FALSE
    OBVIOUS
  <1>1. T \in SUBSET PathOf[c]
    BY DEF RequiredAncestors
  <1>2. PICK m \in T : \A y \in T : Number[y] <= Number[m]
    BY <1>1, PathHighest
  <1>3. ASSUME NEW a \in RequiredAncestors(c), Number[a] > Number[m]
        PROVE  a \in Cached
    <2>1. a \in Block /\ m \in Block
      BY <1>1, PathBlocks DEF RequiredAncestors
    <2>2. ~(Number[a] <= Number[m])
      BY <1>3, <2>1, NumberNat
    <2> QED
      BY <1>2, <2>2
  <1>4. m \in MissingParents(c)
    BY <1>2, <1>3 DEF MissingParents
  <1> QED
    BY <1>4

\* Every missing parent is a block of the candidate's history.
LEMMA MissingParentsOnPath ==
    ASSUME NEW c \in Block, NEW m \in MissingParents(c)
    PROVE  m \in PathOf[c] /\ m \in Block
  BY PathBlocks DEF MissingParents, RequiredAncestors

------------------------------------------------------------------------------
\* The type invariant is inductive by itself.
LEMMA TypeInit == Init => TypeOK
  <1> SUFFICES ASSUME Init
               PROVE  TypeOK
    OBVIOUS
  <1>1. Confirmed(Genesis, ReorgThreshold) \subseteq Block
    BY TreeAssumption, PathBlocks DEF Confirmed
  <1> QED
    BY <1>1, TreeAssumption DEF Init, TypeOK, CacheState, PollState

LEMMA TypeStep == TypeOK /\ [Next]_ingestorVars => TypeOK'
  <1> SUFFICES ASSUME TypeOK, [Next]_ingestorVars
               PROVE  TypeOK'
    OBVIOUS
  <1> USE DEF TypeOK, storeVars, nodeVars, pollVars
  <1>1. ASSUME NEW b \in Block, NewHead(b)
        PROVE  TypeOK'
    BY <1>1, PathBlocks DEF NewHead, Confirmed
  <1>2. CASE PollStart
    BY <1>2 DEF PollStart, PollState
  <1>3. CASE LatestHeader
    BY <1>3 DEF LatestHeader, PollState
  <1>4. CASE LatestBlock
    BY <1>4 DEF LatestBlock, PollState
  <1>5. CASE IngestBlock
    BY <1>5 DEF IngestBlock, PollState, UpsertBlocks, CacheState
  <1>6. CASE UpdateNoCandidate
    BY <1>6 DEF UpdateNoCandidate, PollState
  <1>7. CASE UpdateHead
    BY <1>7 DEF UpdateHead, SetChainHead, PollState
  <1>8. CASE UpdateMissing
    <2>1. block' \in Block
      BY <1>8, MissingParentsOnPath DEF UpdateMissing
    <2> QED
      BY <1>8, <2>1 DEF UpdateMissing, PollState
  <1>9. CASE GetBlock
    BY <1>9 DEF GetBlock, PollState
  <1>10. CASE BlockUnavailable
    BY <1>10 DEF BlockUnavailable, PollState
  <1>11. CASE PollError
    BY <1>11 DEF PollError, PollState
  <1>12. ASSUME NEW slowest, CleanupCachedBlocks(slowest)
         PROVE  TypeOK'
    BY <1>12 DEF CleanupCachedBlocks, Delete, PollState, CacheState
  <1>13. CASE SkipCleanup
    BY <1>13 DEF SkipCleanup, PollState
  <1>14. CASE Crash
    BY <1>14 DEF Crash, PollState
  <1>15. ASSUME NEW S \in SUBSET Block, StreamLoadsBlocks(S)
         PROVE  TypeOK'
    BY <1>15 DEF StreamLoadsBlocks, UpsertLightBlocks, CacheState
  <1>16. ASSUME NEW n \in Numbers, StreamConfirmsBlock(n)
         PROVE  TypeOK'
    BY <1>16 DEF StreamConfirmsBlock, ConfirmBlockHash, Delete, CacheState
  <1>17. CASE UNCHANGED ingestorVars
    BY <1>17 DEF ingestorVars
  <1> QED
    BY <1>1, <1>2, <1>3, <1>4, <1>5, <1>6, <1>7, <1>8, <1>9, <1>10, <1>11,
       <1>12, <1>13, <1>14, <1>15, <1>16, <1>17
       DEF Next, Poll, PollStep, Environment

\* The type invariant of the ingestor, the node and the chain store.
THEOREM TypeCorrect == Spec => []TypeOK
  BY TypeInit, TypeStep, PTL DEF Spec

------------------------------------------------------------------------------
\* Finality: only NewHead changes what the node knows.
LEMMA FinalInit == Init => FinalInv
  BY TreeAssumption, PathBlocks DEF Init, FinalInv, Confirmed

LEMMA FinalStep ==
    TypeOK /\ FinalInv /\ [Next]_ingestorVars => FinalInv'
  <1> SUFFICES ASSUME TypeOK, FinalInv, [Next]_ingestorVars
               PROVE  FinalInv'
    OBVIOUS
  <1>1. ASSUME NEW b \in Block, NewHead(b)
        PROVE  FinalInv'
    BY <1>1 DEF NewHead, FinalInv, Confirmed
  <1>2. CASE UNCHANGED nodeVars
    BY <1>2 DEF nodeVars, FinalInv, Confirmed
  <1>3. \/ \E b \in Block : NewHead(b)
        \/ UNCHANGED nodeVars
    BY DEF Next, Poll, PollStep, Environment, ingestorVars, nodeVars, PollStart,
           LatestHeader, LatestBlock, IngestBlock, UpdateNoCandidate,
           UpdateHead, UpdateMissing, GetBlock, BlockUnavailable, PollError,
           CleanupCachedBlocks, SkipCleanup, Crash, StreamLoadsBlocks,
           StreamConfirmsBlock
  <1> QED
    BY <1>1, <1>2, <1>3

------------------------------------------------------------------------------
\* How the steps change the cache and the head, in terms of the candidates: a
\* step that keeps the head and adds no block above it adds no candidate.
LEMMA AboveHeadKept ==
    ASSUME chain_head' = chain_head,
           \A b \in Block : ethereum_blocks'[b] # "absent" =>
              ethereum_blocks[b] # "absent" \/ ~(Number[b] > HeadNumber)
    PROVE  AboveHead' \subseteq AboveHead
  BY DEF AboveHead, Cached, HeadNumber

LEMMA StoreFinalInit == Init => StoreFinalInv
  BY DEF Init, StoreFinalInv, AboveHead, Cached

LEMMA StoreFinalStep ==
    TypeOK /\ FinalInv /\ StoreFinalInv /\ [Next]_ingestorVars => StoreFinalInv'
  <1> SUFFICES ASSUME TypeOK, FinalInv, StoreFinalInv, [Next]_ingestorVars
               PROVE  StoreFinalInv'
    OBVIOUS
  <1> DEFINE Fin(b) == Confirmed(b, ReorgThreshold) \subseteq final
             Holding == pc \in {"get", "ingest"} => block \in Block /\ Fin(block)
  <1>a. ReorgThreshold \in Nat
    BY ThresholdAssumption
  <1>b. ASSUME final' = final, AboveHead' \subseteq AboveHead,
               chain_head' = chain_head, Holding'
        PROVE  StoreFinalInv'
    BY <1>b DEF StoreFinalInv, Confirmed
  <1>c. ASSUME UNCHANGED <<storeVars, nodeVars>>, Holding'
        PROVE  StoreFinalInv'
    BY <1>c, AboveHeadKept, <1>b DEF storeVars, nodeVars
  <1>d. ASSUME UNCHANGED <<storeVars, nodeVars>>, pc' \notin {"get", "ingest"}
        PROVE  StoreFinalInv'
    BY <1>d, <1>c
  <1>1. ASSUME NEW b \in Block, NewHead(b)
        PROVE  StoreFinalInv'
    <2>1. final \subseteq final' /\ UNCHANGED <<storeVars, pollVars>>
      BY <1>1 DEF NewHead
    <2>2. AboveHead' = AboveHead
      BY <2>1 DEF AboveHead, Cached, HeadNumber, storeVars
    <2> QED
      BY <2>1, <2>2 DEF StoreFinalInv, storeVars, pollVars, Confirmed
  <1>2. CASE PollStart \/ LatestHeader \/ UpdateNoCandidate \/ BlockUnavailable
               \/ PollError \/ SkipCleanup \/ Crash
    BY <1>2, <1>d DEF PollStart, LatestHeader, UpdateNoCandidate,
       BlockUnavailable, PollError, SkipCleanup, Crash
  <1>3. CASE LatestBlock
    <2>1. Fin(latest)
      BY DEF FinalInv
    <2>2. Holding'
      BY <1>3, <2>1 DEF LatestBlock, TypeOK, Confirmed, nodeVars
    <2> QED
      BY <1>3, <1>c, <2>2 DEF LatestBlock
  <1>4. CASE IngestBlock
    <2>1. block \in Block /\ Fin(block)
      BY <1>4 DEF IngestBlock, StoreFinalInv
    <2>2. AboveHead' \subseteq AboveHead \cup {block}
      BY <1>4, <2>1 DEF IngestBlock, UpsertBlocks, AboveHead, Cached,
         HeadNumber, TypeOK
    <2>3. pc' = "update" /\ final' = final /\ chain_head' = chain_head
      BY <1>4 DEF IngestBlock, nodeVars
    <2> QED
      BY <2>1, <2>2, <2>3 DEF StoreFinalInv, Confirmed
  <1>5. CASE UpdateHead
    <2>1. PICK c \in Block : SetChainHead(c)
      BY <1>5 DEF UpdateHead
    <2>2. c \in AboveHead /\ chain_head' = c /\ final' = final
             /\ ethereum_blocks' = ethereum_blocks /\ pc' = "cleanup"
      BY <1>5, <2>1 DEF UpdateHead, SetChainHead, IsHeadCandidate, nodeVars
    <2>3. AboveHead' \subseteq AboveHead
      <3>1. c # NoBlock /\ Number[c] > HeadNumber
        BY <2>2, TreeAssumption DEF AboveHead
      <3>2. HeadNumber' = Number[c]
        BY <2>2, <3>1 DEF HeadNumber
      <3>3. HeadNumber \in Int /\ Number[c] \in Nat
        BY NumberNat DEF HeadNumber, TypeOK
      <3>4. \A b \in Block : Number[b] > HeadNumber' => Number[b] > HeadNumber
        BY <3>1, <3>2, <3>3, NumberNat
      <3> QED
        BY <2>2, <3>4 DEF AboveHead, Cached
    <2> QED
      BY <2>2, <2>3 DEF StoreFinalInv, Confirmed
  <1>6. CASE UpdateMissing
    <2>1. PICK c \in Block : /\ IsHeadCandidate(c)
                             /\ \E m \in MissingParents(c) : block' = m
      BY <1>6 DEF UpdateMissing
    <2>2. block' \in Block /\ block' \in PathOf[c]
      BY <2>1, MissingParentsOnPath
    <2>3. Fin(c)
      BY <2>1 DEF IsHeadCandidate, StoreFinalInv
    <2>4. Confirmed(block', ReorgThreshold) \subseteq Confirmed(c, ReorgThreshold)
      BY <2>2, <1>a, ConfirmedMonotone
    <2>5. final' = final
      BY <1>6 DEF UpdateMissing, nodeVars
    <2>6. Holding'
      BY <2>2, <2>3, <2>4, <2>5 DEF Confirmed
    <2> QED
      BY <1>6, <1>c, <2>6 DEF UpdateMissing
  <1>7. CASE GetBlock
    <2>1. Holding'
      BY <1>7 DEF GetBlock, StoreFinalInv, Confirmed, nodeVars
    <2> QED
      BY <1>7, <1>c, <2>1 DEF GetBlock
  <1>8. ASSUME NEW slowest, CleanupCachedBlocks(slowest)
        PROVE  StoreFinalInv'
    <2>1. AboveHead' \subseteq AboveHead
      BY <1>8, AboveHeadKept DEF CleanupCachedBlocks, Delete
    <2> QED
      BY <1>8, <1>b, <2>1 DEF CleanupCachedBlocks, nodeVars
  <1>9. ASSUME NEW S \in SUBSET Block, StreamLoadsBlocks(S)
        PROVE  StoreFinalInv'
    <2>1. \A b \in S : ~(Number[b] > HeadNumber)
      BY <1>9, <1>a, NumberNat DEF StoreFinalInv, StreamLoadsBlocks, HeadNumber, TypeOK
    <2>2. AboveHead' \subseteq AboveHead
      BY <1>9, <2>1, AboveHeadKept DEF StreamLoadsBlocks, UpsertLightBlocks
    <2>3. Holding'
      BY <1>9 DEF StreamLoadsBlocks, StoreFinalInv, Confirmed, nodeVars, pollVars
    <2> QED
      BY <1>9, <1>b, <2>2, <2>3 DEF StreamLoadsBlocks, nodeVars
  <1>10. ASSUME NEW n \in Numbers, StreamConfirmsBlock(n)
         PROVE  StoreFinalInv'
    <2>1. AboveHead' \subseteq AboveHead
      BY <1>10, AboveHeadKept DEF StreamConfirmsBlock, ConfirmBlockHash, Delete
    <2>2. Holding'
      BY <1>10 DEF StreamConfirmsBlock, StoreFinalInv, Confirmed, nodeVars, pollVars
    <2> QED
      BY <1>10, <1>b, <2>1, <2>2 DEF StreamConfirmsBlock, nodeVars
  <1>11. CASE UNCHANGED ingestorVars
    <2>1. Holding'
      BY <1>11 DEF ingestorVars, StoreFinalInv, Confirmed, nodeVars, pollVars
    <2> QED
      BY <1>11, <1>c, <2>1 DEF ingestorVars
  <1> QED
    BY <1>1, <1>2, <1>3, <1>4, <1>5, <1>6, <1>7, <1>8, <1>9, <1>10, <1>11
       DEF Next, Poll, PollStep, Environment

------------------------------------------------------------------------------
\* Only the block streams insert blocks without receipts, below the head.
LEMMA LightInit == Init => LightInv
  BY DEF Init, LightInv

LEMMA LightStep == TypeOK /\ LightInv /\ [Next]_ingestorVars => LightInv'
  <1> SUFFICES ASSUME TypeOK, LightInv, [Next]_ingestorVars
               PROVE  LightInv'
    OBVIOUS
  <1>a. ReorgThreshold \in Nat
    BY ThresholdAssumption
  <1>b. ASSUME chain_head' = chain_head,
               \A b \in Block : ethereum_blocks'[b] = "light" =>
                                    ethereum_blocks[b] = "light"
        PROVE  LightInv'
    BY <1>b DEF LightInv
  <1>1. CASE UNCHANGED storeVars
    BY <1>1, <1>b DEF storeVars
  <1>2. CASE IngestBlock
    BY <1>2, <1>b DEF IngestBlock, UpsertBlocks
  <1>3. CASE UpdateHead
    <2>1. PICK c \in Block : SetChainHead(c)
      BY <1>3 DEF UpdateHead
    <2>2. chain_head' = c /\ ethereum_blocks' = ethereum_blocks
      BY <1>3, <2>1 DEF UpdateHead, SetChainHead
    <2>3. c # NoBlock /\ Number[c] > HeadNumber
      BY <2>1, TreeAssumption DEF SetChainHead, IsHeadCandidate, AboveHead
    <2>4. ASSUME NEW b \in Block, ethereum_blocks'[b] = "light"
          PROVE  chain_head' # NoBlock /\ Number[b] + ReorgThreshold <= Number[chain_head']
      <3>1. chain_head # NoBlock /\ Number[b] + ReorgThreshold <= Number[chain_head]
        BY <2>2, <2>4 DEF LightInv
      <3>2. Number[chain_head] < Number[c]
        BY <2>3, <3>1, NumberNat DEF HeadNumber, TypeOK
      <3>3. Number[chain_head] \in Nat /\ Number[c] \in Nat /\ Number[b] \in Nat
        BY <3>1, NumberNat DEF TypeOK
      <3> QED
        BY <2>2, <2>3, <3>1, <3>2, <3>3, <1>a
    <2> QED
      BY <2>4 DEF LightInv
  <1>4. ASSUME NEW slowest, CleanupCachedBlocks(slowest)
        PROVE  LightInv'
    BY <1>4, <1>b DEF CleanupCachedBlocks, Delete
  <1>5. ASSUME NEW S \in SUBSET Block, StreamLoadsBlocks(S)
        PROVE  LightInv'
    BY <1>5 DEF StreamLoadsBlocks, UpsertLightBlocks, LightInv
  <1>6. ASSUME NEW n \in Numbers, StreamConfirmsBlock(n)
        PROVE  LightInv'
    BY <1>6, <1>b DEF StreamConfirmsBlock, ConfirmBlockHash, Delete
  <1> QED
    BY <1>1, <1>2, <1>3, <1>4, <1>5, <1>6
       DEF Next, Poll, PollStep, Environment, ingestorVars, PollStart, LatestHeader,
           LatestBlock, UpdateNoCandidate, UpdateMissing, GetBlock,
           BlockUnavailable, PollError, SkipCleanup, Crash, NewHead

------------------------------------------------------------------------------
\* The ancestors of the head that the ingestor promises.
LEMMA HeadInit == Init => HeadAncestorsPresent
  BY DEF Init, HeadAncestorsPresent

\* A permanent block with enough confirmations below the head is an ancestor of
\* the head.
LEMMA HeadOnFinalPath ==
    ASSUME TypeOK, FinalInv, StoreFinalInv, chain_head \in Block,
           NEW a \in final, Number[a] + ReorgThreshold <= Number[chain_head]
    PROVE  a \in PathOf[chain_head]
  <1>1. a \in Block /\ a \in PathOf[latest] /\ latest \in Block
    BY DEF TypeOK, FinalInv
  <1>2. Number[a] \in Nat /\ Number[chain_head] \in Nat /\ ReorgThreshold \in Nat
    BY <1>1, NumberNat, ThresholdAssumption
  <1>3. Number[a] <= Number[chain_head]
    BY <1>2
  <1>4. PICK x \in PathOf[chain_head] : Number[x] = Number[a]
    BY <1>2, <1>3, PathAtNumber
  <1>5. x \in Confirmed(chain_head, ReorgThreshold)
    BY <1>4 DEF Confirmed
  <1>6. x \in PathOf[latest]
    BY <1>5, TreeAssumption DEF StoreFinalInv, FinalInv
  <1>7. x = a
    BY <1>1, <1>4, <1>6, PathUnique
  <1> QED
    BY <1>4, <1>7

\* When a candidate becomes the head, no required ancestor is cached without
\* receipts: such a block would be permanent, so it would already have been a
\* required ancestor of the old head.
LEMMA NewHeadFull ==
    ASSUME IndInv, NEW c \in Block, SetChainHead(c),
           NEW a \in {c} \cup RequiredAncestors(c)
    PROVE  ethereum_blocks[a] = "full"
  <1>1. c \in AboveHead /\ MissingParents(c) = {}
    BY DEF SetChainHead, IsHeadCandidate
  <1>2. a \in Block /\ a \in PathOf[c]
    BY PathBlocks DEF RequiredAncestors
  <1>3. a \in Cached
    BY <1>1, NoMissingParents DEF AboveHead
  <1>4. ASSUME ethereum_blocks[a] = "light"
        PROVE  FALSE
    <2>1. /\ chain_head \in Block
          /\ Number[a] + ReorgThreshold <= Number[chain_head]
      BY <1>2, <1>4 DEF IndInv, LightInv, TypeOK
    <2>2. Number[c] > Number[chain_head]
      BY <1>1, <2>1, TreeAssumption DEF AboveHead, HeadNumber
    <2>3. /\ Number[a] \in Nat /\ Number[c] \in Nat /\ Number[chain_head] \in Nat
          /\ ReorgThreshold \in Nat \ {0} /\ AncestorCount \in Nat
      BY <1>2, <2>1, NumberNat, ThresholdAssumption, AncestorAssumption
    <2>4. a # c
      BY <2>1, <2>2, <2>3
    <2>5. Number[a] + AncestorCount >= Number[c]
      BY <2>4 DEF RequiredAncestors
    <2>6. Number[a] + ReorgThreshold <= Number[c]
      BY <2>1, <2>2, <2>3
    <2>7. a \in final
      BY <1>1, <1>2, <2>6 DEF IndInv, StoreFinalInv, Confirmed
    <2>8. a \in PathOf[chain_head]
      BY <2>1, <2>2, <2>3, <2>7, <1>2, HeadOnFinalPath DEF IndInv
    <2>9. a \in RequiredAncestors(chain_head)
      BY <2>1, <2>2, <2>3, <2>5, <2>8 DEF RequiredAncestors
    <2>10. ethereum_blocks[a] = "full"
      BY <2>1, <2>9, TreeAssumption DEF IndInv, HeadAncestorsPresent
    <2> QED
      BY <1>4, <2>10
  <1>5. ethereum_blocks[a] \in CacheState /\ ethereum_blocks[a] # "absent"
    BY <1>2, <1>3 DEF Cached, IndInv, TypeOK
  <1> QED
    BY <1>4, <1>5 DEF CacheState

LEMMA HeadStep == IndInv /\ [Next]_ingestorVars => HeadAncestorsPresent'
  <1> SUFFICES ASSUME IndInv, [Next]_ingestorVars
               PROVE  HeadAncestorsPresent'
    OBVIOUS
  <1> DEFINE Promised == {chain_head} \cup RequiredAncestors(chain_head)
  <1>a. TypeOK /\ HeadAncestorsPresent
    BY DEF IndInv
  <1>b. ASSUME chain_head' = chain_head,
               chain_head # NoBlock =>
                  \A a \in Promised : ethereum_blocks[a] = "full" =>
                                         ethereum_blocks'[a] = "full"
        PROVE  HeadAncestorsPresent'
    BY <1>a, <1>b DEF HeadAncestorsPresent, RequiredAncestors
  <1>c. chain_head # NoBlock => chain_head \in Block /\ Promised \subseteq Block
    BY <1>a, PathBlocks DEF TypeOK, RequiredAncestors
  <1>d. /\ ReorgThreshold \in Nat \ {0} /\ AncestorCount \in Nat \ {0}
        /\ ReorgThreshold <= AncestorCount
    BY ThresholdAssumption, AncestorAssumption
  <1>1. CASE UNCHANGED storeVars
    BY <1>1, <1>b DEF storeVars
  <1>2. CASE IngestBlock
    BY <1>2, <1>b, <1>c DEF IngestBlock, UpsertBlocks
  <1>3. CASE UpdateHead
    <2>1. PICK c \in Block : SetChainHead(c)
      BY <1>3 DEF UpdateHead
    <2>2. \A a \in {c} \cup RequiredAncestors(c) : ethereum_blocks[a] = "full"
      BY <2>1, NewHeadFull
    <2>3. chain_head' = c /\ ethereum_blocks' = ethereum_blocks
      BY <1>3, <2>1 DEF UpdateHead, SetChainHead
    <2> QED
      BY <2>2, <2>3 DEF HeadAncestorsPresent, RequiredAncestors
  <1>4. ASSUME NEW slowest, CleanupCachedBlocks(slowest)
        PROVE  HeadAncestorsPresent'
    <2>1. ASSUME chain_head # NoBlock, NEW a \in Promised
          PROVE  a \notin CleanupRows(slowest)
      <3>1. a \in Block /\ Number[a] \in Nat /\ Number[chain_head] \in Nat
        BY <2>1, <1>c, NumberNat
      <3>2. Number[a] + AncestorCount >= Number[chain_head]
        BY <3>1, <1>d DEF RequiredAncestors
      <3>3. HeadNumber - AncestorCount \in CleanupLimits(slowest)
              /\ HeadNumber = Number[chain_head]
        BY <2>1 DEF CleanupLimits, HeadNumber
      <3>4. ~(Number[a] < HeadNumber - AncestorCount)
        BY <3>1, <3>2, <3>3, <1>d
      <3> QED
        BY <3>3, <3>4 DEF CleanupRows
    <2> QED
      BY <1>4, <1>b, <1>c, <2>1 DEF CleanupCachedBlocks, Delete
  <1>5. ASSUME NEW S \in SUBSET Block, StreamLoadsBlocks(S)
        PROVE  HeadAncestorsPresent'
    BY <1>5, <1>b, <1>c DEF StreamLoadsBlocks, UpsertLightBlocks
  <1>6. ASSUME NEW n \in Numbers, StreamConfirmsBlock(n)
        PROVE  HeadAncestorsPresent'
    <2>1. PICK b \in NodeBlock(n) : ConfirmBlockHash(n, b)
      BY <1>6 DEF StreamConfirmsBlock
    <2>2. b \in PathOf[latest] /\ Number[b] = n /\ latest \in Block
      BY <1>a DEF NodeBlock, TypeOK
    <2>3. ASSUME chain_head # NoBlock, NEW a \in Promised, Number[a] = n
          PROVE  a = b
      <3>1. a \in PathOf[chain_head] /\ Number[a] + ReorgThreshold <= Number[chain_head]
        BY <2>3, <1>6, <1>c, PathBlocks DEF RequiredAncestors, StreamConfirmsBlock
      <3>2. a \in PathOf[latest]
        BY <2>3, <3>1 DEF IndInv, StoreFinalInv, FinalInv, Confirmed
      <3> QED
        BY <2>2, <2>3, <3>2, PathUnique
    <2>4. chain_head # NoBlock =>
             \A a \in Promised : a \notin BlockHashesByBlockNumber(n) \ {b}
      BY <2>3 DEF BlockHashesByBlockNumber
    <2>5. chain_head' = chain_head
      BY <1>6 DEF StreamConfirmsBlock
    <2> QED
      BY <1>b, <1>c, <2>1, <2>4, <2>5 DEF ConfirmBlockHash, Delete
  <1> QED
    BY <1>1, <1>2, <1>3, <1>4, <1>5, <1>6
       DEF Next, Poll, PollStep, Environment, ingestorVars, PollStart, LatestHeader,
           LatestBlock, UpdateNoCandidate, UpdateMissing, GetBlock,
           BlockUnavailable, PollError, SkipCleanup, Crash, NewHead

------------------------------------------------------------------------------
\* The invariant holds initially and every step keeps it.
LEMMA IndInit == Init => IndInv
  BY TypeInit, FinalInit, StoreFinalInit, LightInit, HeadInit DEF IndInv

LEMMA IndStep == IndInv /\ [Next]_ingestorVars => IndInv'
  BY TypeStep, FinalStep, StoreFinalStep, LightStep, HeadStep DEF IndInv

\* The inductive invariant holds in every reachable state.
THEOREM Inductive == Spec => []IndInv
  BY IndInit, IndStep, PTL DEF Spec

\* The guarantee the block streams build on: the head and its AncestorCount
\* most recent ancestors are always in the store, with receipts.
THEOREM HeadAncestorsAlwaysPresent == Spec => []HeadAncestorsPresent
  <1>1. IndInv => HeadAncestorsPresent
    BY DEF IndInv
  <1> QED
    BY <1>1, Inductive, PTL

\* Only attempt_chain_head_update moves the head, and only upwards.
LEMMA HeadGrows ==
    ASSUME TypeOK, [Next]_ingestorVars, chain_head' # chain_head
    PROVE  /\ chain_head' # NoBlock
           /\ chain_head # NoBlock => Number[chain_head'] > Number[chain_head]
  <1>1. UpdateHead
    BY DEF Next, Poll, PollStep, Environment, ingestorVars, storeVars, PollStart,
       LatestHeader, LatestBlock, IngestBlock, UpdateNoCandidate,
       UpdateMissing, GetBlock, BlockUnavailable, PollError,
       CleanupCachedBlocks, SkipCleanup, Crash, NewHead, StreamLoadsBlocks,
       StreamConfirmsBlock
  <1>2. PICK c \in Block : SetChainHead(c)
    BY <1>1 DEF UpdateHead
  <1> QED
    BY <1>2, TreeAssumption DEF SetChainHead, IsHeadCandidate, AboveHead, HeadNumber

\* The chain head is never given up and its number only grows.
THEOREM HeadNeverGoesBack == Spec => HeadOnlyGrows
  <1>1. TypeOK /\ [Next]_ingestorVars =>
          [chain_head' # chain_head =>
             /\ chain_head' # NoBlock
             /\ chain_head # NoBlock => Number[chain_head'] > Number[chain_head]
          ]_ingestorVars
    BY HeadGrows
  <1> QED
    BY <1>1, TypeCorrect, PTL DEF Spec, HeadOnlyGrows

------------------------------------------------------------------------------
(***************************************************************************)
(* The loop of do_poll.  That it ends after AncestorCount iterations is    *)
(* not an invariant by itself: it holds because the candidate stays the    *)
(* same while its ancestors are fetched, each iteration asks for one       *)
(* further down, and nobody removes those that are there: the streams only *)
(* drop blocks that a permanent block excludes.                            *)
(***************************************************************************)

\* The required ancestors of c from number n on are cached.
KnownFrom(c, n) == \A a \in RequiredAncestors(c) : Number[a] >= n => a \in Cached

\* The poll is walking back from the candidate c and has come to its block.
WalkFrom(c) ==
    /\ IsHeadCandidate(c)
    /\ block \in RequiredAncestors(c)
    /\ rounds <= Number[c] - Number[block]
    /\ KnownFrom(c, IF pc = "update" THEN Number[block] ELSE Number[block] + 1)

LoopInv ==
    /\ LoopBound
    /\ pc \in {"header", "latest"} => rounds = 0
    /\ pc = "get" => rounds > 0
    /\ pc \in {"get", "ingest", "update"} /\ rounds > 0 => \E c \in Block : WalkFrom(c)

\* There is at most one candidate.
LEMMA CandidateUnique ==
    ASSUME NEW c \in Block, NEW d \in Block, IsHeadCandidate(c), IsHeadCandidate(d)
    PROVE  c = d
<1>. SUFFICES ASSUME c # d PROVE FALSE
  OBVIOUS
<1>1. Better(c, d) /\ Better(d, c)
  BY DEF IsHeadCandidate
<1>2. Number[c] \in Nat /\ Number[d] \in Nat /\ Hash[c] \in Nat /\ Hash[d] \in Nat
  BY TreeAssumption
<1>. QED  BY <1>1, <1>2 DEF Better

\* What a missing parent is: below the candidate, within reach, and not cached.
LEMMA MissingBelow ==
    ASSUME NEW c \in Block, NEW m \in MissingParents(c)
    PROVE  /\ m \in RequiredAncestors(c) /\ m \in Block /\ m \notin Cached
           /\ Number[c] \in Nat /\ Number[m] \in Nat
           /\ Number[m] < Number[c] /\ Number[c] - Number[m] <= AncestorCount
           /\ KnownFrom(c, Number[m] + 1)
<1>1. /\ m \in RequiredAncestors(c) /\ m \notin Cached
      /\ \A a \in RequiredAncestors(c) : Number[a] > Number[m] => a \in Cached
  BY DEF MissingParents
<1>2. /\ m \in PathOf[c] /\ m # c /\ Number[m] + AncestorCount >= Number[c]
      /\ RequiredAncestors(c) \subseteq Block
  BY <1>1, PathBlocks DEF RequiredAncestors
<1>3. m \in Block /\ Number[m] < Number[c]
  BY <1>1, <1>2, PathStrict
<1>4. Number[c] \in Nat /\ Number[m] \in Nat /\ AncestorCount \in Nat
      /\ \A a \in RequiredAncestors(c) : Number[a] \in Nat
  BY <1>2, <1>3, NumberNat, AncestorAssumption
<1>5. KnownFrom(c, Number[m] + 1)
  BY <1>1, <1>4 DEF KnownFrom
<1>. QED  BY <1>1, <1>2, <1>3, <1>4, <1>5

\* A step that leaves the head and the cached blocks above it alone and removes
\* no required ancestor of the candidate keeps the candidate and what is known.
LEMMA CandidateKept ==
    ASSUME NEW c \in Block, IsHeadCandidate(c), chain_head' = chain_head,
           \A b \in Block : Number[b] > HeadNumber /\ b \in Cached' => b \in Cached,
           \A b \in RequiredAncestors(c) \cup {c} : b \in Cached => b \in Cached'
    PROVE  /\ IsHeadCandidate(c)'
           /\ \A n : KnownFrom(c, n) => KnownFrom(c, n)'
<1>1. HeadNumber' = HeadNumber
  BY DEF HeadNumber
<1>2. AboveHead' \subseteq AboveHead /\ c \in AboveHead'
  <2>1. Cached' \subseteq Block /\ \A b : b \in AboveHead <=> b \in Cached /\ Number[b] > HeadNumber
    BY DEF Cached, AboveHead
  <2>2. \A b : b \in AboveHead' <=> b \in Cached' /\ Number[b] > HeadNumber'
    BY DEF AboveHead
  <2>. QED  BY <1>1, <2>1, <2>2 DEF IsHeadCandidate
<1>3. IsHeadCandidate(c)'
  BY <1>2 DEF IsHeadCandidate, Better
<1>4. ASSUME NEW n, KnownFrom(c, n)
      PROVE  KnownFrom(c, n)'
  <2>1. RequiredAncestors(c)' = RequiredAncestors(c)
    BY DEF RequiredAncestors
  <2>. QED  BY <1>4, <2>1 DEF KnownFrom
<1>. QED  BY <1>3, <1>4

\* The steps of the streams keep the candidate and what is known of its ancestors.
LEMMA StreamsKeepCandidate ==
    ASSUME IndInv, NEW c \in Block, IsHeadCandidate(c),
           \/ \E S \in SUBSET Block : StreamLoadsBlocks(S)
           \/ \E n \in Numbers : StreamConfirmsBlock(n)
    PROVE  /\ IsHeadCandidate(c)'
           /\ \A n : KnownFrom(c, n) => KnownFrom(c, n)'
<1>0. /\ c \in AboveHead /\ c \in Cached /\ PathOf[c] \subseteq Block /\ c \in PathOf[c]
      /\ RequiredAncestors(c) \cup {c} \subseteq PathOf[c]
  BY PathBlocks DEF IsHeadCandidate, AboveHead, RequiredAncestors
<1>1. ReorgThreshold \in Nat \ {0} /\ Number[c] \in Nat
  BY NumberNat, ThresholdAssumption
<1>2. ASSUME NEW S \in SUBSET Block, StreamLoadsBlocks(S)
      PROVE  /\ IsHeadCandidate(c)'
             /\ \A n : KnownFrom(c, n) => KnownFrom(c, n)'
  <2>1. /\ chain_head # NoBlock /\ chain_head' = chain_head
        /\ \A b \in S : Number[b] + ReorgThreshold <= Number[chain_head]
    BY <1>2 DEF StreamLoadsBlocks
  <2>2. chain_head \in Block /\ HeadNumber = Number[chain_head] /\ Number[chain_head] \in Nat
    BY <2>1, NumberNat DEF HeadNumber, IndInv, TypeOK
  <2>3. ASSUME NEW b \in Block, Number[b] > HeadNumber, b \in Cached'
        PROVE  b \in Cached
    <3>1. b \notin S
      BY <1>1, <2>1, <2>2, <2>3, NumberNat
    <3>. QED  BY <1>2, <2>3, <3>1 DEF StreamLoadsBlocks, UpsertLightBlocks, Cached
  <2>4. \A b \in Block : b \in Cached => b \in Cached'
    BY <1>2 DEF StreamLoadsBlocks, UpsertLightBlocks, Cached
  <2>. QED  BY <1>0, <2>1, <2>3, <2>4, CandidateKept
<1>3. ASSUME NEW n \in Numbers, StreamConfirmsBlock(n)
      PROVE  /\ IsHeadCandidate(c)'
             /\ \A k : KnownFrom(c, k) => KnownFrom(c, k)'
  <2>1. PICK b \in NodeBlock(n) : ConfirmBlockHash(n, b)
    BY <1>3 DEF StreamConfirmsBlock
  <2>2. /\ chain_head # NoBlock /\ chain_head' = chain_head
        /\ n + ReorgThreshold <= Number[chain_head]
        /\ b \in PathOf[latest] /\ Number[b] = n /\ latest \in Block
    BY <1>3 DEF StreamConfirmsBlock, NodeBlock, IndInv, TypeOK
  <2>3. chain_head \in Block /\ HeadNumber = Number[chain_head] /\ Number[chain_head] \in Nat
    BY <2>2, NumberNat DEF HeadNumber, IndInv, TypeOK
  <2>4. Number[c] > Number[chain_head]
    BY <1>0, <2>3 DEF AboveHead
  <2>5. ASSUME NEW a \in PathOf[c], Number[a] = n
        PROVE  a = b
    <3>1. n \in Nat
      BY <1>0, <2>5, NumberNat
    <3>2. Number[a] + ReorgThreshold <= Number[c]
      BY <1>1, <2>2, <2>3, <2>4, <2>5, <3>1
    <3>3. a \in PathOf[latest]
      BY <1>0, <3>2 DEF IndInv, StoreFinalInv, FinalInv, Confirmed
    <3>. QED  BY <2>2, <2>5, <3>3, PathUnique
  <2>6. \A a \in RequiredAncestors(c) \cup {c} : a \in Cached => a \in Cached'
    BY <1>0, <2>1, <2>5 DEF ConfirmBlockHash, Delete, BlockHashesByBlockNumber, Cached
  <2>7. \A a \in Block : a \in Cached' => a \in Cached
    BY <2>1 DEF ConfirmBlockHash, Delete, Cached
  <2>. QED  BY <2>2, <2>6, <2>7, CandidateKept
<1>. QED  BY <1>2, <1>3

\* Before the first poll.
LEMMA LoopInit == Init => LoopInv
  BY AncestorAssumption DEF Init, LoopInv, LoopBound

\* Every step keeps the walk where it is or takes it one block down.
LEMMA LoopStep == IndInv /\ LoopInv /\ [Next]_ingestorVars => LoopInv'
<1>. SUFFICES ASSUME IndInv, LoopInv, [Next]_ingestorVars PROVE LoopInv'
  OBVIOUS
<1>0. rounds \in Nat /\ AncestorCount \in Nat \ {0}
  BY AncestorAssumption DEF IndInv, TypeOK
<1>1. ASSUME UNCHANGED storeVars, UNCHANGED pollVars
      PROVE  LoopInv'
  <2>1. /\ ethereum_blocks' = ethereum_blocks /\ chain_head' = chain_head /\ pc' = pc
        /\ block' = block /\ rounds' = rounds
    BY <1>1 DEF storeVars, pollVars
  <2>2. ASSUME NEW c \in Block, WalkFrom(c)
        PROVE  WalkFrom(c)'
    BY <2>1, <2>2 DEF WalkFrom, KnownFrom, IsHeadCandidate, AboveHead, Cached, HeadNumber, Better,
       RequiredAncestors
  <2>. QED  BY <2>1, <2>2 DEF LoopInv, LoopBound
<1>2. ASSUME \/ \E S \in SUBSET Block : StreamLoadsBlocks(S)
             \/ \E n \in Numbers : StreamConfirmsBlock(n)
      PROVE  LoopInv'
  <2>1. pc' = pc /\ block' = block /\ rounds' = rounds
    BY <1>2 DEF StreamLoadsBlocks, StreamConfirmsBlock, pollVars
  <2>2. ASSUME NEW c \in Block, WalkFrom(c)
        PROVE  WalkFrom(c)'
    <3>1. PICK n : n = IF pc = "update" THEN Number[block] ELSE Number[block] + 1
      OBVIOUS
    <3>2. KnownFrom(c, n) /\ IsHeadCandidate(c)
      BY <2>2, <3>1 DEF WalkFrom
    <3>3. IsHeadCandidate(c)' /\ KnownFrom(c, n)'
      BY <1>2, <3>2, StreamsKeepCandidate
    <3>. QED  BY <2>1, <2>2, <3>1, <3>3 DEF WalkFrom, RequiredAncestors, KnownFrom
  <2>. QED  BY <2>1, <2>2 DEF LoopInv, LoopBound
<1>3. CASE PollStart \/ Crash
  BY <1>0, <1>3 DEF PollStart, Crash, LoopInv, LoopBound
<1>4. CASE LatestHeader \/ LatestBlock \/ UpdateNoCandidate \/ UpdateHead \/ BlockUnavailable
           \/ PollError \/ SkipCleanup \/ \E slowest \in SlowestSubgraph : CleanupCachedBlocks(slowest)
  BY <1>0, <1>4 DEF LatestHeader, LatestBlock, UpdateNoCandidate, UpdateHead, BlockUnavailable,
     PollError, SkipCleanup, CleanupCachedBlocks, LoopInv, LoopBound
<1>5. CASE IngestBlock
  <2>1. /\ pc = "ingest" /\ pc' = "update" /\ chain_head' = chain_head
        /\ block' = block /\ rounds' = rounds /\ UpsertBlocks({block})
    BY <1>5 DEF IngestBlock
  <2>2. ASSUME NEW c \in Block, WalkFrom(c)
        PROVE  WalkFrom(c)'
    <3>1. /\ IsHeadCandidate(c) /\ block \in RequiredAncestors(c)
          /\ rounds <= Number[c] - Number[block] /\ KnownFrom(c, Number[block] + 1)
      BY <2>1, <2>2 DEF WalkFrom
    <3>2. block \in Block /\ Number[block] < Number[c] /\ RequiredAncestors(c) \subseteq Block
      BY <3>1, PathBlocks, PathStrict DEF RequiredAncestors
    <3>3. \A b \in Block : b \in Cached' <=> b \in Cached \/ b = block
      BY <2>1 DEF UpsertBlocks, Cached
    <3>4. IsHeadCandidate(c)'
      <4>1. HeadNumber' = HeadNumber
        BY <2>1 DEF HeadNumber
      <4>2. \A b : b \in AboveHead' <=> b \in Block /\ b \in Cached' /\ Number[b] > HeadNumber
        BY <4>1 DEF AboveHead, Cached
      <4>3. \A b : b \in AboveHead <=> b \in Block /\ b \in Cached /\ Number[b] > HeadNumber
        BY DEF AboveHead, Cached
      <4>4. c \in AboveHead' /\ AboveHead' \subseteq AboveHead \cup {block}
        BY <3>1, <3>3, <4>2, <4>3 DEF IsHeadCandidate
      <4>5. Better(c, block)
        BY <3>2, NumberNat DEF Better
      <4>6. \A b \in AboveHead' \ {c} : Better(c, b)
        BY <3>1, <4>4, <4>5 DEF IsHeadCandidate
      <4>. QED  BY <4>4, <4>6 DEF IsHeadCandidate, Better
    <3>5. KnownFrom(c, Number[block])'
      <4>1. ASSUME NEW a \in RequiredAncestors(c), Number[a] >= Number[block]
            PROVE  a \in Cached'
        <5>1. a \in Block /\ Number[a] \in Nat /\ Number[block] \in Nat
          BY <3>2, NumberNat
        <5>2. CASE Number[a] >= Number[block] + 1
          BY <3>1, <3>3, <5>1, <5>2 DEF KnownFrom
        <5>3. CASE Number[a] = Number[block]
          <6>1. a = block
            BY <3>1, <5>3, PathUnique DEF RequiredAncestors
          <6>. QED  BY <3>2, <3>3, <6>1
        <5>. QED  BY <4>1, <5>1, <5>2, <5>3
      <4>. QED  BY <2>1, <4>1 DEF KnownFrom, RequiredAncestors
    <3>. QED  BY <2>1, <3>1, <3>4, <3>5 DEF WalkFrom, RequiredAncestors, KnownFrom
  <2>. QED  BY <2>1, <2>2 DEF LoopInv, LoopBound
<1>6. CASE UpdateMissing
  <2>1. PICK c \in Block : IsHeadCandidate(c) /\ \E m \in MissingParents(c) : block' = m
    BY <1>6 DEF UpdateMissing
  <2>2. PICK m \in MissingParents(c) : block' = m
    BY <2>1
  <2>3. /\ pc = "update" /\ pc' = "get" /\ rounds' = rounds + 1
        /\ ethereum_blocks' = ethereum_blocks /\ chain_head' = chain_head
    BY <1>6 DEF UpdateMissing, storeVars
  <2>4. /\ m \in RequiredAncestors(c) /\ m \in Block /\ m \notin Cached
        /\ Number[c] \in Nat /\ Number[m] \in Nat
        /\ Number[m] < Number[c] /\ Number[c] - Number[m] <= AncestorCount
        /\ KnownFrom(c, Number[m] + 1)
    BY MissingBelow
  <2>5. rounds + 1 <= Number[c] - Number[m]
    <3>1. CASE rounds = 0
      BY <2>4, <3>1
    <3>2. CASE rounds > 0
      <4>1. PICK d \in Block : WalkFrom(d)
        BY <2>3, <3>2 DEF LoopInv
      <4>2. d = c
        BY <2>1, <4>1, CandidateUnique DEF WalkFrom
      <4>3. /\ block \in Block /\ Number[block] \in Nat
            /\ rounds <= Number[c] - Number[block]
            /\ ~(Number[m] >= Number[block])
        BY <2>3, <2>4, <4>1, <4>2, PathBlocks, NumberNat DEF WalkFrom, KnownFrom, RequiredAncestors
      <4>. QED  BY <1>0, <2>4, <4>3
    <3>. QED  BY <1>0, <3>1, <3>2
  <2>6. WalkFrom(c)'
    <3>1. IsHeadCandidate(c)'
      BY <2>1, <2>3 DEF IsHeadCandidate, AboveHead, Cached, HeadNumber, Better
    <3>2. KnownFrom(c, Number[m] + 1)'
      BY <2>3, <2>4 DEF KnownFrom, Cached, RequiredAncestors
    <3>. QED  BY <2>2, <2>3, <2>4, <2>5, <3>1, <3>2 DEF WalkFrom, RequiredAncestors, KnownFrom
  <2>7. rounds' <= AncestorCount /\ rounds' > 0
    BY <1>0, <2>3, <2>4, <2>5
  <2>. QED  BY <2>3, <2>6, <2>7 DEF LoopInv, LoopBound
<1>7. CASE GetBlock
  <2>1. /\ pc = "get" /\ pc' = "ingest" /\ block' = block /\ rounds' = rounds
        /\ ethereum_blocks' = ethereum_blocks /\ chain_head' = chain_head
    BY <1>7 DEF GetBlock, storeVars
  <2>2. ASSUME NEW c \in Block, WalkFrom(c)
        PROVE  WalkFrom(c)'
    BY <2>1, <2>2 DEF WalkFrom, KnownFrom, IsHeadCandidate, AboveHead, Cached, HeadNumber, Better,
       RequiredAncestors
  <2>. QED  BY <2>1, <2>2 DEF LoopInv, LoopBound
<1>8. CASE \E b \in Block : NewHead(b)
  BY <1>1, <1>8 DEF NewHead
<1>9. CASE UNCHANGED ingestorVars
  BY <1>1, <1>9 DEF ingestorVars
<1>. QED  BY <1>2, <1>3, <1>4, <1>5, <1>6, <1>7, <1>8, <1>9 DEF Next, Poll, PollStep, Environment

\* do_poll's comment "the loop will iterate at most ancestor_count times" is true,
\* whatever the node and the streams do between the iterations of a poll.
THEOREM LoopIsBounded == Spec => []LoopBound
<1>1. LoopInv => LoopBound
  BY DEF LoopInv
<1>. QED  BY <1>1, LoopInit, LoopStep, Inductive, PTL DEF Spec

------------------------------------------------------------------------------
(***************************************************************************)
(* The block stream and the indexing task on top of the ingestor.  That    *)
(* they touch the cache only as the Environment of BlockIngestor says is   *)
(* not visible in their steps: it depends on the head they read earlier,   *)
(* on where the pointer is and, near the head, on the blocks they revert   *)
(* being in the cache already.                                             *)
(***************************************************************************)

\* The block is cached, or so far below the head that any stream may insert it.
Reachable(b) == b \in Cached \/ Number[b] + ReorgThreshold <= HeadNumber

\* Where the stream is in get_next_step tells what it has found out.
PointersInv ==
    /\ head # NoBlock => Number[head] <= HeadNumber
    /\ stream \in {"decide", "scan", "load", "revert"} => head # NoBlock
    /\ stream \in {"decide", "scan"} /\ block_ptr # NoBlock =>
          Number[block_ptr] < Number[head]
    /\ stream = "scan" => FarBehind
    /\ stream = "revert" => block_ptr \in Block \ {Genesis}
    /\ stream \notin {"load", "yield"} => pending = {}

\* The history of a block that the subgraph may have to revert is reachable.
HistoryInv(b) == /\ Number[b] <= HeadNumber
                 /\ \A a \in PathOf[b] : Reachable(a)

\* The pending blocks have different numbers, all ahead of the pointer.
ReachInv ==
    /\ block_ptr # NoBlock => HistoryInv(block_ptr)
    /\ \A b \in pending :
          /\ HistoryInv(b)
          /\ AheadOfPointer(b)
          /\ \A c \in pending : Number[b] = Number[c] => b = c

\* None of the blocks that a walk back from the head may use has come without
\* receipts since the head was read.
FreshInv ==
    stream = "decide" =>
        \A a \in PathOf[head] : Number[a] + AncestorCount >= Number[head] =>
                                    ethereum_blocks[a] # "light"

StreamInv ==
    IndexerTypeOK /\ PointersInv /\ ReachInv /\ FreshInv /\ hits \subseteq Triggers

\* The head a step leaves is at least as high as the one it found.
LEMMA HeadNumberGrows ==
    ASSUME TypeOK, [Next]_ingestorVars
    PROVE  /\ HeadNumber \in Int /\ HeadNumber' \in Int /\ HeadNumber <= HeadNumber'
<1>1. TypeOK'
  BY TypeStep
<1>2. HeadNumber \in Int /\ HeadNumber' \in Int
  BY <1>1, NumberNat DEF HeadNumber, TypeOK
<1>3. CASE chain_head' = chain_head
  BY <1>2, <1>3 DEF HeadNumber
<1>4. CASE chain_head' # chain_head
  <2>1. /\ chain_head' # NoBlock
        /\ chain_head # NoBlock => Number[chain_head'] > Number[chain_head]
    BY <1>4, HeadGrows
  <2>2. chain_head' \in Block /\ Number[chain_head'] \in Nat
    BY <1>1, <2>1, NumberNat DEF TypeOK
  <2>3. chain_head # NoBlock => Number[chain_head] \in Nat
    BY NumberNat DEF TypeOK
  <2>. QED  BY <1>2, <2>1, <2>2, <2>3 DEF HeadNumber
<1>. QED  BY <1>2, <1>3, <1>4

\* With a head, a number that is not below zero is at most HeadNumber.
LEMMA HeadExists ==
    ASSUME TypeOK, NEW n \in Nat, n <= HeadNumber
    PROVE  chain_head \in Block /\ HeadNumber = Number[chain_head] /\ HeadNumber \in Nat
<1>1. chain_head # NoBlock
  BY DEF HeadNumber
<1>. QED  BY <1>1, NumberNat DEF TypeOK, HeadNumber

\* Only the genesis block has the number 0, and every history starts with it.
LEMMA GenesisNumber ==
    /\ \A b \in Block : Number[b] = 0 => b = Genesis
    /\ \A b \in Block : Genesis \in PathOf[b]
<1>1. ASSUME NEW b \in Block, Number[b] = 0
      PROVE  b = Genesis
  <2>. SUFFICES ASSUME b # Genesis PROVE FALSE
    OBVIOUS
  <2>1. Parent[b] \in Block /\ Number[b] = Number[Parent[b]] + 1
    BY TreeAssumption
  <2>. QED  BY <1>1, <2>1, NumberNat
<1>2. ASSUME NEW b \in Block
      PROVE  Genesis \in PathOf[b]
  <2>1. Number[b] \in Nat /\ 0 <= Number[b]
    BY NumberNat
  <2>2. PICK x \in PathOf[b] : Number[x] = 0
    BY <2>1, PathAtNumber
  <2>. QED  BY <1>1, <2>2, PathBlocks
<1>. QED  BY <1>1, <1>2

\* What is reachable stays so: rows are only deleted far below the head.
LEMMA ReachableKept ==
    ASSUME IndInv, [Next]_ingestorVars, NEW a \in Block, Reachable(a)
    PROVE  Reachable(a)'
<1>0. TypeOK /\ Number[a] \in Nat /\ ReorgThreshold \in Nat /\ AncestorCount \in Nat
      /\ ReorgThreshold <= AncestorCount
  BY NumberNat, ThresholdAssumption, AncestorAssumption DEF IndInv
<1>1. HeadNumber \in Int /\ HeadNumber' \in Int /\ HeadNumber <= HeadNumber'
  BY <1>0, HeadNumberGrows
<1>2. CASE Number[a] + ReorgThreshold <= HeadNumber
  BY <1>0, <1>1, <1>2 DEF Reachable
<1>3. CASE a \in Cached /\ a \notin Cached'
  <2>1. \/ \E slowest \in SlowestSubgraph : CleanupCachedBlocks(slowest)
        \/ \E n \in Numbers : StreamConfirmsBlock(n)
    BY <1>3 DEF Next, Poll, PollStep, Environment, ingestorVars, storeVars, PollStart,
       LatestHeader, LatestBlock, IngestBlock, UpdateNoCandidate, UpdateHead,
       UpdateMissing, GetBlock, BlockUnavailable, PollError,
       SkipCleanup, Crash, NewHead, StreamLoadsBlocks,
       UpsertBlocks, UpsertLightBlocks, Cached
  <2>2. CASE \E n \in Numbers : StreamConfirmsBlock(n)
    <3>1. PICK n \in Numbers : StreamConfirmsBlock(n)
      BY <2>2
    <3>2. PICK b \in NodeBlock(n) : ConfirmBlockHash(n, b)
      BY <3>1 DEF StreamConfirmsBlock
    <3>3. Number[a] = n
      BY <1>3, <3>2 DEF ConfirmBlockHash, Delete, BlockHashesByBlockNumber, Cached
    <3>4. n + ReorgThreshold <= HeadNumber
      BY <3>1 DEF StreamConfirmsBlock, HeadNumber
    <3>. QED  BY <1>2, <3>3, <3>4
  <2>3. CASE \E slowest \in SlowestSubgraph : CleanupCachedBlocks(slowest)
    <3>1. PICK slowest \in SlowestSubgraph : CleanupCachedBlocks(slowest)
      BY <2>3
    <3>2. a \in CleanupRows(slowest)
      BY <1>3, <3>1 DEF CleanupCachedBlocks, Delete, Cached
    <3>3. chain_head # NoBlock
      <4>. SUFFICES ASSUME chain_head = NoBlock PROVE FALSE
        OBVIOUS
      <4>1. slowest # {}
        BY <3>2 DEF CleanupRows, CleanupLimits
      <4>2. PICK k \in Numbers : k <= HeadNumber
        BY <3>1, <4>1 DEF SlowestSubgraph
      <4>. QED  BY <4>2, NumberNat DEF HeadNumber, Numbers
    <3>4. Number[a] < HeadNumber - AncestorCount
      BY <3>2, <3>3 DEF CleanupRows, CleanupLimits
    <3>. QED  BY <1>0, <1>1, <1>2, <3>4
  <2>. QED  BY <2>1, <2>2, <2>3
<1>. QED  BY <1>2, <1>3 DEF Reachable

\* So are the histories of the blocks a subgraph may revert.
LEMMA HistoryKept ==
    ASSUME IndInv, [Next]_ingestorVars, NEW b \in Block, HistoryInv(b)
    PROVE  HistoryInv(b)'
<1>0. TypeOK /\ Number[b] \in Nat
  BY NumberNat DEF IndInv
<1>1. HeadNumber \in Int /\ HeadNumber' \in Int /\ HeadNumber <= HeadNumber'
  BY <1>0, HeadNumberGrows
<1>2. \A a \in PathOf[b] : Reachable(a)'
  BY PathBlocks, ReachableKept DEF HistoryInv
<1>3. Number[b] <= HeadNumber
  BY DEF HistoryInv
<1>. QED  BY <1>0, <1>1, <1>2, <1>3 DEF HistoryInv

\* A block that a scan may end with has a reachable history: either it is below
\* the threshold, or it is the genesis block and then a required ancestor of a
\* head that is still low.
LEMMA LowHistory ==
    ASSUME IndInv, chain_head # NoBlock, NEW b \in Block,
           b = Genesis \/ Number[b] + ReorgThreshold <= HeadNumber
    PROVE  HistoryInv(b)
<1>0. /\ chain_head \in Block /\ HeadNumber = Number[chain_head] /\ Number[chain_head] \in Nat
      /\ ReorgThreshold \in Nat /\ ReorgThreshold <= AncestorCount /\ AncestorCount \in Nat
      /\ Number[Genesis] = 0 /\ Number[b] \in Nat
  BY NumberNat, ThresholdAssumption, AncestorAssumption, TreeAssumption DEF IndInv, TypeOK, HeadNumber
<1>1. CASE Number[b] + ReorgThreshold <= HeadNumber
  <2>1. ASSUME NEW a \in PathOf[b]
        PROVE  Reachable(a)
    <3>1. a \in Block /\ Number[a] <= Number[b]
      BY PathBlocks, PathNumbers
    <3>2. Number[a] + ReorgThreshold <= HeadNumber
      BY <1>0, <1>1, <3>1, NumberNat
    <3>. QED  BY <3>2 DEF Reachable
  <2>. QED  BY <1>0, <1>1, <2>1 DEF HistoryInv
<1>2. CASE b = Genesis
  <2>1. PathOf[b] = {Genesis}
    BY <1>2, PathUnfold
  <2>2. CASE Number[chain_head] >= ReorgThreshold
    BY <1>0, <1>1, <1>2, <2>2
  <2>3. CASE Number[chain_head] < ReorgThreshold
    <3>1. Genesis \in PathOf[chain_head] /\ Genesis \in Block
      BY <1>0, GenesisNumber, TreeAssumption
    <3>2. Genesis \in {chain_head} \cup RequiredAncestors(chain_head)
      BY <1>0, <2>3, <3>1 DEF RequiredAncestors
    <3>3. ethereum_blocks[Genesis] = "full"
      BY <1>0, <3>2 DEF IndInv, HeadAncestorsPresent
    <3>4. Reachable(Genesis)
      BY <3>1, <3>3 DEF Reachable, Cached
    <3>. QED  BY <1>0, <1>2, <2>1, <3>4 DEF HistoryInv
  <2>. QED  BY <1>0, <2>2, <2>3
<1>. QED  BY <1>1, <1>2

------------------------------------------------------------------------------
\* block_hash_by_block_number answers with a block of that number.
LEMMA AnswerHasNumber ==
    ASSUME TypeOK, NEW n, NEW h \in BlockHashByBlockNumber(n)
    PROVE  h \in Block /\ Number[h] = n
<1>1. \A x \in BlockHashesByBlockNumber(n) : x \in Block /\ Number[x] = n
  BY DEF BlockHashesByBlockNumber, Cached
<1>2. \A x \in NodeBlock(n) : x \in Block /\ Number[x] = n
  BY PathBlocks DEF NodeBlock, TypeOK
<1>. QED  BY <1>1, <1>2 DEF BlockHashByBlockNumber

\* Dropping ommers is a step of BlockIngestor's Environment, or changes nothing.
LEMMA ConfirmRefines ==
    ASSUME TypeOK, NEW n \in Numbers, NEW h \in BlockHashByBlockNumber(n),
           ConfirmIfSeveral(n, h), n = 0 \/ n + ReorgThreshold <= HeadNumber,
           UNCHANGED <<chain_head, nodeVars, pollVars>>
    PROVE  StreamConfirmsBlock(n) \/ UNCHANGED ingestorVars
<1>0. n \in Nat /\ ReorgThreshold \in Nat
  BY NumberNat, ThresholdAssumption DEF Numbers
<1>1. CASE \E g, k \in BlockHashesByBlockNumber(n) : g # k
  <2>1. PICK g, k \in BlockHashesByBlockNumber(n) : g # k
    BY <1>1
  <2>2. g \in Block /\ k \in Block /\ Number[g] = n /\ Number[k] = n
    BY DEF BlockHashesByBlockNumber, Cached
  <2>3. n # 0
    BY <2>1, <2>2, GenesisNumber
  <2>4. h \in NodeBlock(n)
    BY <2>1 DEF BlockHashByBlockNumber
  <2>5. ConfirmBlockHash(n, h)
    BY <1>1 DEF ConfirmIfSeveral
  <2>6. n + ReorgThreshold \in Nat /\ n + ReorgThreshold <= HeadNumber
    BY <1>0, <2>3
  <2>7. chain_head # NoBlock /\ HeadNumber = Number[chain_head]
    BY <1>0, <2>6 DEF HeadNumber
  <2>. QED  BY <2>4, <2>5, <2>6, <2>7 DEF StreamConfirmsBlock
<1>2. CASE ~\E g, k \in BlockHashesByBlockNumber(n) : g # k
  BY <1>2 DEF ConfirmIfSeveral, ingestorVars, storeVars
<1>. QED  BY <1>1, <1>2

\* So is loading blocks that are reachable.
LEMMA LoadRefines ==
    ASSUME TypeOK, chain_head # NoBlock, NEW S \in SUBSET Block,
           \A b \in S : Reachable(b),
           UpsertLightBlocks(S \ Blocks(S)), UNCHANGED <<chain_head, nodeVars, pollVars>>
    PROVE  StreamLoadsBlocks(S \ Blocks(S))
<1>1. \A b \in S \ Blocks(S) : Number[b] + ReorgThreshold <= Number[chain_head]
  BY DEF Blocks, Reachable, HeadNumber
<1>. QED  BY <1>1 DEF StreamLoadsBlocks

\* Behind the threshold, the numbers the stream asks for are final.
LEMMA LimitBelowHead ==
    ASSUME IndInv, StreamInv, stream \in {"decide", "scan"}
    PROVE  /\ head \in Block /\ chain_head \in Block /\ HeadNumber = Number[chain_head]
           /\ \A n \in Nat : n <= ToLimit => n = 0 \/ n + ReorgThreshold <= HeadNumber
           /\ FarBehind /\ block_ptr # NoBlock =>
                 Number[block_ptr] + ReorgThreshold <= HeadNumber
<1>0. head \in Block /\ Number[head] \in Nat /\ Number[head] <= HeadNumber /\ TypeOK
  BY NumberNat DEF StreamInv, IndexerTypeOK, PointersInv
<1>1. chain_head \in Block /\ HeadNumber = Number[chain_head] /\ HeadNumber \in Nat
  BY <1>0, HeadExists
<1>2. ReorgThreshold \in Nat \ {0}
  BY ThresholdAssumption
<1>3. ASSUME NEW n \in Nat, n <= ToLimit
      PROVE  n = 0 \/ n + ReorgThreshold <= HeadNumber
  BY <1>0, <1>1, <1>2, <1>3 DEF ToLimit, Threshold
<1>4. ASSUME FarBehind, block_ptr # NoBlock
      PROVE  Number[block_ptr] + ReorgThreshold <= HeadNumber
  <2>1. block_ptr \in Block /\ Number[block_ptr] \in Nat
    BY <1>4, NumberNat DEF StreamInv, IndexerTypeOK
  <2>. QED  BY <1>0, <1>1, <1>2, <1>4, <2>1 DEF FarBehind, Threshold
<1>. QED  BY <1>0, <1>1, <1>3, <1>4

\* Every step of the system is a step of BlockIngestor or leaves it alone.
LEMMA IngestorSimulated ==
    ASSUME IndInv, StreamInv, [IndexerNext]_systemVars
    PROVE  [Next]_ingestorVars
<1>0. TypeOK
  BY DEF IndInv
<1>1. CASE IngestorStep
  <2>1. CASE PollStep
    BY <2>1 DEF Next, Poll
  <2>2. CASE CleanupCachedBlocks(Slowest)
    <3>1. Slowest \in SlowestSubgraph
      <4>1. CASE block_ptr = NoBlock \/ failed
        BY <4>1 DEF Slowest, SlowestSubgraph
      <4>2. CASE ~(block_ptr = NoBlock \/ failed)
        <5>1. block_ptr \in Block /\ Number[block_ptr] <= HeadNumber
          BY <4>2 DEF StreamInv, IndexerTypeOK, ReachInv, HistoryInv
        <5>2. Slowest = {Number[block_ptr]} /\ Number[block_ptr] \in Numbers
          BY <4>2, <5>1 DEF Slowest, Numbers
        <5>. QED  BY <5>1, <5>2 DEF SlowestSubgraph
      <4>. QED  BY <4>1, <4>2
    <3>. QED  BY <2>2, <3>1 DEF Next, Poll
  <2>3. CASE \E b \in Block : NewHead(b)
    BY <2>3 DEF Next, Environment
  <2>. QED  BY <1>1, <2>1, <2>2, <2>3 DEF IngestorStep
<1>2. CASE CheckMainChain
  <2>1. CASE block_ptr = NoBlock
    BY <1>2, <2>1 DEF CheckMainChain, ingestorVars, storeVars
  <2>2. CASE block_ptr # NoBlock
    <3>1. stream = "decide" /\ FarBehind /\ UNCHANGED <<chain_head, nodeVars, pollVars>>
      BY <1>2 DEF CheckMainChain
    <3>2. PICK h \in BlockHashByBlockNumber(Number[block_ptr]) :
              ConfirmIfSeveral(Number[block_ptr], h)
      BY <1>2, <2>2 DEF CheckMainChain
    <3>3. Number[block_ptr] + ReorgThreshold <= HeadNumber
      BY <2>2, <3>1, LimitBelowHead
    <3>4. Number[block_ptr] \in Numbers
      BY <2>2 DEF StreamInv, IndexerTypeOK, Numbers
    <3>5. PICK n \in Numbers : n = Number[block_ptr]
      BY <3>4
    <3>6. StreamConfirmsBlock(n) \/ UNCHANGED ingestorVars
      BY <1>0, <3>1, <3>2, <3>3, <3>5, ConfirmRefines
    <3>. QED  BY <3>6 DEF Next, Environment
  <2>. QED  BY <2>1, <2>2
<1>3. ASSUME NEW to \in Numbers, ScanRange(to)
      PROVE  [Next]_ingestorVars
  <2>1. PICK h \in BlockHashByBlockNumber(to) : ConfirmIfSeveral(to, h)
    BY <1>3 DEF ScanRange
  <2>2. stream = "scan" /\ to <= ToLimit /\ UNCHANGED <<chain_head, nodeVars, pollVars>>
    BY <1>3 DEF ScanRange, ScanEnds
  <2>3. to \in Nat
    BY NumberNat DEF Numbers
  <2>4. to = 0 \/ to + ReorgThreshold <= HeadNumber
    BY <2>2, <2>3, LimitBelowHead
  <2>5. StreamConfirmsBlock(to) \/ UNCHANGED ingestorVars
    BY <1>0, <2>1, <2>2, <2>4, ConfirmRefines
  <2>. QED  BY <2>5 DEF Next, Environment
<1>4. CASE LoadBlocks
  <2>1. /\ stream = "load" /\ UpsertLightBlocks(pending \ Blocks(pending))
        /\ UNCHANGED <<chain_head, nodeVars, pollVars>>
    BY <1>4 DEF LoadBlocks
  <2>2. head \in Block /\ Number[head] \in Nat /\ Number[head] <= HeadNumber
    BY <2>1, NumberNat DEF StreamInv, IndexerTypeOK, PointersInv
  <2>3. chain_head # NoBlock
    BY <1>0, <2>2, HeadExists, TreeAssumption
  <2>4. pending \in SUBSET Block /\ \A b \in pending : Reachable(b)
    BY PathBlocks DEF StreamInv, IndexerTypeOK, ReachInv, HistoryInv
  <2>5. StreamLoadsBlocks(pending \ Blocks(pending))
    BY <1>0, <2>1, <2>3, <2>4, LoadRefines
  <2>6. pending \ Blocks(pending) \in SUBSET Block
    BY <2>4
  <2>. QED  BY <2>5, <2>6 DEF Next, Environment
<1>5. CASE RevertBlock
  <2>1. /\ stream = "revert" /\ UpsertLightBlocks({block_ptr} \ Blocks({block_ptr}))
        /\ UNCHANGED <<chain_head, nodeVars, pollVars>>
    BY <1>5 DEF RevertBlock
  <2>2. head \in Block /\ Number[head] \in Nat /\ Number[head] <= HeadNumber
    BY <2>1, NumberNat DEF StreamInv, IndexerTypeOK, PointersInv
  <2>3. chain_head # NoBlock
    BY <1>0, <2>2, HeadExists, TreeAssumption
  <2>4. block_ptr \in Block
    BY <2>1 DEF StreamInv, PointersInv
  <2>5. Reachable(block_ptr)
    BY <2>4, PathBlocks, TreeAssumption DEF StreamInv, ReachInv, HistoryInv
  <2>6. PICK S \in SUBSET Block : S = {block_ptr}
    BY <2>4
  <2>7. StreamLoadsBlocks(S \ Blocks(S))
    BY <1>0, <2>1, <2>3, <2>5, <2>6, LoadRefines
  <2>8. S \ Blocks(S) \in SUBSET Block
    OBVIOUS
  <2>. QED  BY <2>7, <2>8 DEF Next, Environment
<1>6. CASE ReadPointers \/ WalkBack \/ QueueEmpty \/ GoIdle \/ HeadUpdate \/ StreamError
           \/ StopSubgraph \/ Restart
  BY <1>6 DEF ReadPointers, WalkBack, QueueEmpty, GoIdle, HeadUpdate, StreamError,
     StopSubgraph, Restart
<1>7. CASE \E b \in Block : ProcessBlock(b) \/ ProcessError(b) \/ PossibleReorg(b)
  BY <1>7 DEF ProcessBlock, ProcessError, PossibleReorg
<1>8. CASE UNCHANGED systemVars
  BY <1>8 DEF systemVars
<1>. QED  BY <1>1, <1>2, <1>3, <1>4, <1>5, <1>6, <1>7, <1>8
  DEF IndexerNext, IndexerStep, IndexerDisturbed

------------------------------------------------------------------------------
\* The block found by walking back from the head: the child of a block with the
\* pointer's number on the head's chain, within reach of the ingestor's guarantee.
LEMMA WalkBackChild ==
    ASSUME StreamInv, stream = "decide", ~FarBehind,
           NEW c, c = AncestorBlock(head, Number[head] - Number[block_ptr] - 1), c # NoBlock
    PROVE  /\ block_ptr \in Block /\ head \in Block
           /\ c \in PathOf[head] /\ c \in Block /\ c \in Cached
           /\ Number[c] = Number[block_ptr] + 1
           /\ Number[c] <= Number[head] /\ Number[c] + AncestorCount >= Number[head]
<1>0. /\ head \in Block /\ block_ptr \in Block
      /\ Number[head] \in Nat /\ Number[block_ptr] \in Nat /\ Number[block_ptr] < Number[head]
  BY NumberNat DEF StreamInv, IndexerTypeOK, PointersInv, FarBehind
<1>1. ReorgThreshold \in Nat /\ AncestorCount \in Nat /\ ReorgThreshold <= AncestorCount
  BY ThresholdAssumption, AncestorAssumption
<1>2. Number[head] - Number[block_ptr] <= AncestorCount
  BY <1>0, <1>1 DEF FarBehind, Threshold
<1>3. PICK off \in Nat : off = Number[head] - Number[block_ptr] - 1
  BY <1>0
<1>4. PICK w : w = {a \in PathOf[head] : Number[a] + off >= Number[head]}
  OBVIOUS
<1>5. \E a \in w : Number[a] + off = Number[head]
  <2>1. PICK a \in PathOf[head] : Number[a] = Number[block_ptr] + 1
    BY <1>0, PathAtNumber
  <2>. QED  BY <1>0, <1>3, <1>4, <2>1
<1>6. /\ w \subseteq Cached
      /\ c = CHOOSE a \in w : Number[a] + off = Number[head]
  BY <1>3, <1>4 DEF AncestorBlock
<1>7. c \in w /\ Number[c] + off = Number[head]
  BY <1>5, <1>6
<1>8. c \in PathOf[head] /\ c \in Block /\ c \in Cached /\ Number[c] \in Nat
  BY <1>0, <1>4, <1>6, <1>7, PathBlocks, NumberNat
<1>9. Number[c] = Number[block_ptr] + 1
  BY <1>0, <1>3, <1>7, <1>8
<1>. QED  BY <1>0, <1>1, <1>2, <1>8, <1>9

\* How the pointer's part of the invariant is established after a step.
LEMMA ReachIntro ==
    ASSUME NEW p, NEW Q, block_ptr' = p, pending' = Q,
           p # NoBlock => HistoryInv(p)',
           \A b \in Q : /\ HistoryInv(b)'
                        /\ p # NoBlock => Number[p] < Number[b]
                        /\ \A c \in Q : Number[b] = Number[c] => b = c
    PROVE  ReachInv'
<1>1. block_ptr' # NoBlock => HistoryInv(block_ptr)'
  BY DEF HistoryInv
<1>2. \A b \in pending' : AheadOfPointer(b)'
  BY DEF AheadOfPointer
<1>. QED  BY <1>1, <1>2 DEF ReachInv

\* What is known of the pointer and of the head the stream read stays true.
LEMMA PointerKept ==
    ASSUME IndInv, StreamInv, [Next]_ingestorVars
    PROVE  /\ \A p \in {block_ptr} : p # NoBlock => HistoryInv(p)'
           /\ \A b \in pending : HistoryInv(b)'
           /\ head # NoBlock => Number[head] <= HeadNumber'
<1>1. ASSUME NEW p \in {block_ptr}, p # NoBlock
      PROVE  HistoryInv(p)'
  <2>1. p \in Block /\ HistoryInv(p)
    BY <1>1 DEF StreamInv, IndexerTypeOK, ReachInv
  <2>. QED  BY <2>1, HistoryKept
<1>2. ASSUME NEW b \in pending
      PROVE  HistoryInv(b)'
  <2>1. b \in Block /\ HistoryInv(b)
    BY <1>2 DEF StreamInv, IndexerTypeOK, ReachInv
  <2>. QED  BY <2>1, HistoryKept
<1>3. HeadNumber \in Int /\ HeadNumber' \in Int /\ HeadNumber <= HeadNumber'
  BY HeadNumberGrows DEF IndInv
<1>4. head # NoBlock => Number[head] \in Nat /\ Number[head] <= HeadNumber
  BY NumberNat DEF StreamInv, IndexerTypeOK, PointersInv
<1>. QED  BY <1>1, <1>2, <1>3, <1>4

\* Starting over, going idle and stopping: the stream holds no blocks.
LEMMA StreamReset ==
    ASSUME IndInv, IndInv', StreamInv, [Next]_ingestorVars,
           block_ptr' = block_ptr, head' = head, pending' = {}, hits' = {},
           stream' \in {"reconcile", "done", "idle", "stopped"},
           applied' = applied, cache' \in {cache, {}}, failed' \in BOOLEAN, woken' \in BOOLEAN
    PROVE  StreamInv'
<1>1. IndexerTypeOK'
  BY DEF StreamInv, IndexerTypeOK, IndInv, StreamState
<1>2. PointersInv'
  BY PointerKept DEF PointersInv
<1>3. ReachInv'
  <2>1. PICK p : p = block_ptr
    OBVIOUS
  <2>2. p # NoBlock => HistoryInv(p)'
    BY <2>1, PointerKept
  <2>. QED  BY <2>1, <2>2, ReachIntro
<1>4. FreshInv'
  BY DEF FreshInv
<1>. QED  BY <1>1, <1>2, <1>3, <1>4 DEF StreamInv

\* The steps of the ingestor never leave a block without receipts.
LEMMA IngestorKeepsFresh ==
    ASSUME IngestorStep, NEW a \in Block, ethereum_blocks[a] # "light"
    PROVE  ethereum_blocks'[a] # "light"
<1>1. CASE ethereum_blocks' = ethereum_blocks
  BY <1>1
<1>2. CASE IngestBlock
  BY <1>2 DEF IngestBlock, UpsertBlocks
<1>3. CASE CleanupCachedBlocks(Slowest)
  BY <1>3 DEF CleanupCachedBlocks, Delete
<1>. QED
  BY <1>1, <1>2, <1>3 DEF IngestorStep, PollStep, storeVars, PollStart, LatestHeader, LatestBlock,
     UpdateNoCandidate, UpdateHead, UpdateMissing, GetBlock, BlockUnavailable, SkipCleanup, NewHead

\* The steps after which the stream goes on with other blocks or elsewhere.
LEMMA StreamReadStep ==
    ASSUME IndInv, IndInv', StreamInv, [Next]_ingestorVars, ReadPointers
    PROVE  StreamInv'
<1>0. /\ stream = "reconcile" /\ head' = chain_head /\ chain_head' = chain_head
      /\ ethereum_blocks' = ethereum_blocks
      /\ block_ptr' = block_ptr /\ applied' = applied /\ failed' = failed
      /\ pending' = pending /\ hits' = hits /\ woken' = woken /\ cache' = cache
  BY DEF ReadPointers, ingestorVars, storeVars, deploymentVars
<1>1. \/ stream' = "done"
      \/ /\ stream' = "decide" /\ chain_head # NoBlock
         /\ block_ptr # NoBlock => ~(Number[block_ptr] >= Number[chain_head])
  BY DEF ReadPointers
<1>2. IndexerTypeOK'
  BY <1>0, <1>1 DEF StreamInv, IndexerTypeOK, IndInv, TypeOK, StreamState
<1>3. pending = {}
  BY <1>0 DEF StreamInv, PointersInv
<1>4. PointersInv'
  <2>1. head' # NoBlock => Number[head'] <= HeadNumber'
    BY <1>0, <1>2, NumberNat DEF HeadNumber, IndexerTypeOK
  <2>2. block_ptr # NoBlock => Number[block_ptr] \in Nat
    BY NumberNat DEF StreamInv, IndexerTypeOK
  <2>3. chain_head # NoBlock => Number[chain_head] \in Nat
    BY NumberNat DEF IndInv, TypeOK
  <2>4. stream' = "decide" /\ block_ptr' # NoBlock => Number[block_ptr'] < Number[head']
    BY <1>0, <1>1, <2>2, <2>3
  <2>. QED  BY <1>0, <1>1, <1>3, <2>1, <2>4 DEF PointersInv
<1>5. ReachInv'
  <2>1. PICK p : p = block_ptr
    OBVIOUS
  <2>2. p # NoBlock => HistoryInv(p)'
    BY <2>1, PointerKept
  <2>. QED  BY <1>0, <1>3, <2>1, <2>2, ReachIntro
<1>6. FreshInv'
  <2>. SUFFICES ASSUME stream' = "decide", NEW a \in PathOf[head'],
                       Number[a] + AncestorCount >= Number[head']
                PROVE  ethereum_blocks'[a] # "light"
    BY DEF FreshInv
  <2>1. chain_head # NoBlock /\ a \in {chain_head} \cup RequiredAncestors(chain_head)
    BY <1>0, <1>1 DEF RequiredAncestors
  <2>2. ethereum_blocks[a] = "full"
    BY <2>1 DEF IndInv, HeadAncestorsPresent
  <2>. QED  BY <1>0, <2>2
<1>. QED  BY <1>0, <1>2, <1>4, <1>5, <1>6 DEF StreamInv

LEMMA StreamCheckStep ==
    ASSUME IndInv, IndInv', StreamInv, [Next]_ingestorVars, CheckMainChain
    PROVE  StreamInv'
<1>0. /\ stream = "decide" /\ head' = head /\ FarBehind
      /\ block_ptr' = block_ptr /\ applied' = applied /\ failed' = failed
      /\ pending' = pending /\ hits' = hits /\ woken' = woken /\ cache' = cache
  BY DEF CheckMainChain, deploymentVars
<1>1. \/ stream' = "scan"
      \/ stream' = "revert" /\ block_ptr # NoBlock
         /\ \E h \in BlockHashByBlockNumber(Number[block_ptr]) : h # block_ptr
  BY DEF CheckMainChain
<1>2. IndexerTypeOK'
  BY <1>0, <1>1 DEF StreamInv, IndexerTypeOK, IndInv, StreamState
<1>3. pending = {} /\ head # NoBlock
  BY <1>0 DEF StreamInv, PointersInv
<1>4. PointersInv'
  <2>1. FarBehind'
    BY <1>0 DEF FarBehind, Threshold
  <2>2. ASSUME stream' = "revert"
        PROVE  block_ptr \in Block \ {Genesis}
    <3>1. PICK h \in BlockHashByBlockNumber(Number[block_ptr]) : h # block_ptr
      BY <1>1, <2>2
    <3>2. block_ptr \in Block /\ TypeOK
      BY <1>1, <2>2 DEF StreamInv, IndexerTypeOK
    <3>3. h \in Block /\ Number[h] = Number[block_ptr]
      BY <3>2, AnswerHasNumber
    <3>. QED  BY <3>1, <3>2, <3>3, GenesisNumber, TreeAssumption
  <2>3. head' # NoBlock => Number[head'] <= HeadNumber'
    BY <1>0, PointerKept
  <2>4. block_ptr # NoBlock => Number[block_ptr] < Number[head]
    BY <1>0 DEF StreamInv, PointersInv
  <2>. QED  BY <1>0, <1>1, <1>3, <2>1, <2>2, <2>3, <2>4 DEF PointersInv
<1>5. ReachInv'
  <2>1. PICK p : p = block_ptr
    OBVIOUS
  <2>2. p # NoBlock => HistoryInv(p)'
    BY <2>1, PointerKept
  <2>. QED  BY <1>0, <1>3, <2>1, <2>2, ReachIntro
<1>6. FreshInv'
  BY <1>1 DEF FreshInv
<1>. QED  BY <1>0, <1>2, <1>4, <1>5, <1>6 DEF StreamInv

LEMMA StreamScanStep ==
    ASSUME IndInv, IndInv', StreamInv, [Next]_ingestorVars, NEW to \in Numbers, ScanRange(to)
    PROVE  StreamInv'
<1>0. /\ stream = "scan" /\ stream' = "load" /\ head' = head /\ chain_head' = chain_head
      /\ block_ptr' = block_ptr /\ applied' = applied /\ failed' = failed
      /\ woken' = woken /\ cache' = cache /\ to \in From .. ToLimit
  BY DEF ScanRange, ScanEnds, deploymentVars
<1>1. PICK found : found = {b \in Triggers \cap PathOf[latest] : Number[b] \in From .. to}
  OBVIOUS
<1>2. PICK h \in BlockHashByBlockNumber(to) :
          /\ \A b \in found : Number[b] = to => b = h
          /\ pending' = found \cup {h} /\ hits' = found
  BY <1>1 DEF ScanRange
<1>3. /\ h \in Block /\ Number[h] = to /\ latest \in Block /\ to \in Nat /\ to <= ToLimit
      /\ found \subseteq PathOf[latest] /\ found \subseteq Block
  BY <1>0, <1>1, <1>2, AnswerHasNumber, PathBlocks, NumberNat DEF IndInv, TypeOK, Numbers
<1>4. PICK Q : Q = found \cup {h}
  OBVIOUS
<1>5. /\ From \in Nat /\ head \in Block /\ chain_head \in Block /\ chain_head # NoBlock
      /\ \A n \in Nat : n <= ToLimit => n = 0 \/ n + ReorgThreshold <= HeadNumber
      /\ ToLimit \in Int
  <2>1. block_ptr # NoBlock => Number[block_ptr] \in Nat
    BY NumberNat DEF StreamInv, IndexerTypeOK
  <2>2. head \in Block /\ chain_head \in Block
        /\ \A n \in Nat : n <= ToLimit => n = 0 \/ n + ReorgThreshold <= HeadNumber
    BY <1>0, LimitBelowHead
  <2>3. Number[head] \in Nat /\ ReorgThreshold \in Nat
    BY <2>2, NumberNat, ThresholdAssumption
  <2>. QED  BY <2>1, <2>2, <2>3, TreeAssumption DEF From, ToLimit, Threshold
<1>6. ASSUME NEW b \in Q
      PROVE  /\ b \in Block /\ Number[b] \in Nat /\ From <= Number[b] /\ Number[b] <= to
             /\ HistoryInv(b)
  <2>1. b \in Block /\ Number[b] \in Nat
    BY <1>3, <1>4, NumberNat
  <2>2. From <= Number[b] /\ Number[b] <= to
    BY <1>0, <1>1, <1>3, <1>4, <1>5, <2>1
  <2>3. Number[b] = 0 \/ Number[b] + ReorgThreshold <= HeadNumber
    BY <1>3, <1>5, <2>1, <2>2
  <2>. QED  BY <1>5, <2>1, <2>2, <2>3, GenesisNumber, LowHistory
<1>7. IndexerTypeOK'
  BY <1>0, <1>2, <1>3 DEF StreamInv, IndexerTypeOK, IndInv, StreamState
<1>8. PointersInv'
  BY <1>0, <1>5, PointerKept, TreeAssumption DEF PointersInv
<1>9. ReachInv'
  <2>1. PICK p : p = block_ptr
    OBVIOUS
  <2>2. p # NoBlock => HistoryInv(p)'
    BY <2>1, PointerKept
  <2>3. ASSUME NEW b \in Q
        PROVE  /\ HistoryInv(b)'
               /\ p # NoBlock => Number[p] < Number[b]
               /\ \A c \in Q : Number[b] = Number[c] => b = c
    <3>1. HistoryInv(b)'
      BY <1>6, HistoryKept
    <3>2. p # NoBlock => Number[p] < Number[b]
      <4>1. p # NoBlock => Number[p] \in Nat
        BY <2>1, NumberNat DEF StreamInv, IndexerTypeOK
      <4>. QED  BY <1>6, <2>1, <4>1 DEF From
    <3>3. ASSUME NEW c \in Q, Number[b] = Number[c]
          PROVE  b = c
      BY <1>2, <1>3, <1>4, <3>3, PathUnique
    <3>. QED  BY <3>1, <3>2, <3>3
  <2>. QED  BY <1>0, <1>2, <1>4, <2>1, <2>2, <2>3, ReachIntro
<1>10. FreshInv'
  BY <1>0 DEF FreshInv
<1>. QED  BY <1>1, <1>2, <1>7, <1>8, <1>9, <1>10 DEF StreamInv

LEMMA StreamLoadStep ==
    ASSUME IndInv, IndInv', StreamInv, [Next]_ingestorVars, LoadBlocks
    PROVE  StreamInv'
<1>0. /\ stream = "load" /\ stream' = "yield" /\ head' = head
      /\ block_ptr' = block_ptr /\ applied' = applied /\ failed' = failed
      /\ pending' = pending /\ hits' = hits /\ woken' = woken /\ cache' = cache
  BY DEF LoadBlocks, deploymentVars
<1>1. IndexerTypeOK'
  BY <1>0 DEF StreamInv, IndexerTypeOK, IndInv, StreamState
<1>2. PointersInv'
  BY <1>0, PointerKept DEF PointersInv
<1>3. ReachInv'
  <2>1. PICK p, Q : p = block_ptr /\ Q = pending
    OBVIOUS
  <2>2. p # NoBlock => HistoryInv(p)'
    BY <2>1, PointerKept
  <2>3. \A b \in Q : HistoryInv(b)'
    BY <2>1, PointerKept
  <2>4. \A b \in Q : /\ p # NoBlock => Number[p] < Number[b]
                     /\ \A c \in Q : Number[b] = Number[c] => b = c
    BY <2>1 DEF StreamInv, ReachInv, AheadOfPointer
  <2>. QED  BY <1>0, <2>1, <2>2, <2>3, <2>4, ReachIntro
<1>4. FreshInv'
  BY <1>0 DEF FreshInv
<1>. QED  BY <1>0, <1>1, <1>2, <1>3, <1>4 DEF StreamInv

LEMMA StreamWalkStep ==
    ASSUME IndInv, IndInv', StreamInv, [Next]_ingestorVars, WalkBack
    PROVE  StreamInv'
<1>0. /\ stream = "decide" /\ head' = head /\ ~FarBehind
      /\ UNCHANGED ethereum_blocks /\ UNCHANGED chain_head
      /\ block_ptr' = block_ptr /\ applied' = applied /\ failed' = failed
      /\ woken' = woken /\ cache' = cache
  BY DEF WalkBack, ingestorVars, storeVars, deploymentVars
<1>1. PICK child : child = AncestorBlock(head, Number[head] - Number[block_ptr] - 1)
  OBVIOUS
<1>2. \/ stream' = "reconcile" /\ pending' = pending /\ hits' = hits
      \/ /\ child # NoBlock /\ Parent[child] = block_ptr
         /\ pending' = {child} /\ hits' = TriggersInBlock(child) /\ stream' = "yield"
      \/ /\ child # NoBlock /\ Parent[child] # block_ptr
         /\ stream' = "revert" /\ pending' = pending /\ hits' = hits
  BY <1>1 DEF WalkBack
<1>3. pending = {} /\ hits = {} /\ head # NoBlock /\ block_ptr # NoBlock
  BY <1>0 DEF StreamInv, PointersInv, IndexerTypeOK, FarBehind
<1>4. CASE stream' = "reconcile"
  BY <1>0, <1>2, <1>3, <1>4, StreamReset DEF StreamInv, IndexerTypeOK
<1>5. ASSUME child # NoBlock
      PROVE  /\ block_ptr \in Block /\ child \in PathOf[head] /\ child \in Block /\ child \in Cached
             /\ Number[child] = Number[block_ptr] + 1 /\ Number[child] <= Number[head]
  BY <1>0, <1>1, <1>5, WalkBackChild
<1>6. CASE stream' = "revert"
  <2>1. block_ptr \in Block \ {Genesis}
    <3>1. child \in Block /\ block_ptr \in Block /\ Number[child] = Number[block_ptr] + 1
          /\ Parent[child] # block_ptr
      BY <1>2, <1>5, <1>6
    <3>2. CASE block_ptr = Genesis
      <4>1. Number[child] = 1 /\ child # Genesis
        BY <3>1, <3>2, TreeAssumption
      <4>2. Parent[child] \in Block /\ Number[Parent[child]] \in Nat
            /\ Number[child] = Number[Parent[child]] + 1
        BY <3>1, <4>1, TreeAssumption
      <4>3. Number[Parent[child]] = 0
        BY <4>1, <4>2
      <4>. QED  BY <3>1, <3>2, <4>2, <4>3, GenesisNumber
    <3>. QED  BY <3>1, <3>2
  <2>2. IndexerTypeOK'
    BY <1>0, <1>2, <1>6 DEF StreamInv, IndexerTypeOK, IndInv, StreamState
  <2>3. PointersInv'
    BY <1>0, <1>2, <1>3, <1>6, <2>1, PointerKept DEF PointersInv
  <2>4. ReachInv'
    <3>1. PICK p : p = block_ptr
      OBVIOUS
    <3>2. p # NoBlock => HistoryInv(p)'
      BY <3>1, PointerKept
    <3>. QED  BY <1>0, <1>2, <1>3, <1>6, <3>1, <3>2, ReachIntro
  <2>. QED  BY <1>2, <1>6, <2>2, <2>3, <2>4 DEF StreamInv, FreshInv
<1>7. CASE stream' = "yield"
  <2>0. /\ block_ptr \in Block /\ child \in PathOf[head] /\ child \in Block /\ child \in Cached
        /\ Number[child] = Number[block_ptr] + 1 /\ Number[child] <= Number[head]
        /\ Parent[child] = block_ptr /\ pending' = {child} /\ hits' = TriggersInBlock(child)
    BY <1>2, <1>5, <1>7
  <2>1. IndexerTypeOK'
    BY <1>0, <1>7, <2>0 DEF StreamInv, IndexerTypeOK, IndInv, StreamState, TriggersInBlock
  <2>2. PointersInv'
    BY <1>0, <1>7, PointerKept DEF PointersInv
  <2>3. HistoryInv(child)
    <3>1. PathOf[child] = {child} \cup PathOf[block_ptr]
      <4>1. Number[child] # 0
        BY <2>0, NumberNat
      <4>2. child # Genesis
        BY <4>1, TreeAssumption
      <4>. QED  BY <2>0, <4>2, PathUnfold
    <3>2. \A a \in PathOf[block_ptr] : Reachable(a)
      BY <1>3 DEF StreamInv, ReachInv, HistoryInv
    <3>3. Reachable(child)
      BY <2>0 DEF Reachable
    <3>4. Number[child] <= HeadNumber
      <4>1. Number[head] <= HeadNumber /\ head \in Block /\ HeadNumber \in Int
        BY <1>3, NumberNat DEF StreamInv, PointersInv, IndexerTypeOK, TypeOK, HeadNumber
      <4>. QED  BY <2>0, <4>1, NumberNat
    <3>. QED  BY <3>1, <3>2, <3>3, <3>4 DEF HistoryInv
  <2>4. ReachInv'
    <3>1. PICK p, Q : p = block_ptr /\ Q = {child}
      OBVIOUS
    <3>2. p # NoBlock => HistoryInv(p)'
      BY <3>1, PointerKept
    <3>3. HistoryInv(child)'
      BY <2>0, <2>3, HistoryKept
    <3>4. Number[p] < Number[child]
      BY <2>0, <3>1, NumberNat
    <3>. QED  BY <1>0, <2>0, <3>1, <3>2, <3>3, <3>4, ReachIntro
  <2>. QED  BY <1>7, <2>0, <2>1, <2>2, <2>4 DEF StreamInv, FreshInv, TriggersInBlock
<1>. QED  BY <1>2, <1>4, <1>6, <1>7

LEMMA StreamRevertStep ==
    ASSUME IndInv, IndInv', StreamInv, [Next]_ingestorVars, RevertBlock
    PROVE  StreamInv'
<1>0. /\ stream = "revert" /\ stream' = "reconcile" /\ head' = head
      /\ block_ptr' = Parent[block_ptr] /\ applied' \subseteq applied /\ failed' = failed
      /\ pending' = pending /\ hits' = hits /\ woken' = woken /\ cache' \in {cache, {}}
  BY DEF RevertBlock, RevertBlockOperations
<1>1. block_ptr \in Block \ {Genesis} /\ pending = {} /\ head # NoBlock
  BY <1>0 DEF StreamInv, PointersInv
<1>2. Parent[block_ptr] \in Block /\ Number[block_ptr] = Number[Parent[block_ptr]] + 1
  BY <1>1, TreeAssumption
<1>3. IndexerTypeOK'
  BY <1>0, <1>2 DEF StreamInv, IndexerTypeOK, IndInv, StreamState
<1>4. PointersInv'
  BY <1>0, <1>1, PointerKept DEF PointersInv
<1>5. HistoryInv(Parent[block_ptr])
  <2>1. HistoryInv(block_ptr)
    BY <1>1, TreeAssumption DEF StreamInv, ReachInv
  <2>2. PathOf[Parent[block_ptr]] \subseteq PathOf[block_ptr]
    BY <1>1, PathUnfold
  <2>3. Number[Parent[block_ptr]] <= HeadNumber
    <3>1. Number[block_ptr] <= HeadNumber /\ HeadNumber \in Int
      BY <2>1, NumberNat DEF HistoryInv, StreamInv, IndexerTypeOK, TypeOK, HeadNumber
    <3>. QED  BY <1>1, <1>2, <3>1, NumberNat
  <2>. QED  BY <2>1, <2>2, <2>3 DEF HistoryInv
<1>6. ReachInv'
  <2>1. PICK p \in Block : p = Parent[block_ptr]
    BY <1>2
  <2>2. HistoryInv(p)'
    BY <1>5, <2>1, HistoryKept
  <2>. QED  BY <1>0, <1>1, <2>1, <2>2, ReachIntro
<1>7. FreshInv'
  BY <1>0 DEF FreshInv
<1>. QED  BY <1>0, <1>3, <1>4, <1>6, <1>7 DEF StreamInv

LEMMA StreamProcessStep ==
    ASSUME IndInv, IndInv', StreamInv, [Next]_ingestorVars, NEW b \in Block, ProcessBlock(b)
    PROVE  StreamInv'
<1>0. /\ stream = "yield" /\ b \in pending /\ \A c \in pending : Number[b] <= Number[c]
      /\ block_ptr' = b /\ applied' = applied \cup ({b} \cap hits) /\ head' = head /\ woken' = woken
  BY DEF ProcessBlock, IsNextBlock, TransactBlockOperations
<1>1. /\ cache' = cache \cup ({b} \cap hits) \/ cache' = {}
      /\ failed' \in {TRUE, failed}
      /\ \/ pending' = pending \ {b} /\ hits' = hits \ {b} /\ stream' = "yield"
         \/ pending' = {} /\ hits' = {} /\ stream' \in {"reconcile", "stopped"}
  BY DEF ProcessBlock, Fail
<1>2. /\ pending' \subseteq pending \ {b} /\ hits' \subseteq hits /\ hits' \subseteq pending'
      /\ stream' \notin {"load", "yield"} => pending' = {}
  BY <1>1 DEF StreamInv, IndexerTypeOK
<1>3. IndexerTypeOK'
  BY <1>0, <1>1, <1>2 DEF StreamInv, IndexerTypeOK, IndInv, StreamState
<1>4. PointersInv'
  BY <1>0, <1>1, <1>2, PointerKept DEF PointersInv
<1>5. ReachInv'
  <2>1. PICK Q : Q = pending'
    OBVIOUS
  <2>2. HistoryInv(b)' /\ \A c \in Q : HistoryInv(c)'
    BY <1>0, <1>2, <2>1, PointerKept
  <2>3. ASSUME NEW c \in Q
        PROVE  /\ Number[b] < Number[c]
               /\ \A d \in Q : Number[c] = Number[d] => c = d
    <3>1. c \in pending /\ c # b /\ Q \subseteq pending /\ c \in Block
      BY <1>2, <2>1 DEF StreamInv, IndexerTypeOK
    <3>2. Number[b] # Number[c] /\ \A d \in Q : Number[c] = Number[d] => c = d
      BY <1>0, <3>1 DEF StreamInv, ReachInv
    <3>. QED  BY <1>0, <3>1, <3>2, NumberNat
  <2>. QED  BY <1>0, <2>1, <2>2, <2>3, ReachIntro
<1>6. FreshInv'
  BY <1>1 DEF FreshInv
<1>. QED  BY <1>2, <1>3, <1>4, <1>5, <1>6 DEF StreamInv

\* Every step of the system keeps what is known of the stream.
LEMMA StreamStep ==
    ASSUME IndInv, IndInv', StreamInv, [Next]_ingestorVars, [IndexerNext]_systemVars
    PROVE  StreamInv'
<1>1. CASE IngestorStep \/ UNCHANGED systemVars
  <2>1. /\ block_ptr' = block_ptr /\ applied' = applied /\ failed' = failed
        /\ stream' = stream /\ head' = head /\ pending' = pending /\ hits' = hits
        /\ woken' \in BOOLEAN /\ cache' = cache
    BY <1>1 DEF IngestorStep, systemVars, indexerVars, deploymentVars, streamVars,
       StreamInv, IndexerTypeOK
  <2>2. IndexerTypeOK'
    BY <2>1 DEF StreamInv, IndexerTypeOK, IndInv
  <2>3. PointersInv'
    <3>1. FarBehind' = FarBehind
      BY <2>1 DEF FarBehind, Threshold
    <3>2. head' # NoBlock => Number[head'] <= HeadNumber'
      BY <2>1, PointerKept
    <3>. QED  BY <2>1, <3>1, <3>2 DEF StreamInv, PointersInv
  <2>4. ReachInv'
    <3>1. PICK p, Q : p = block_ptr /\ Q = pending
      OBVIOUS
    <3>2. p # NoBlock => HistoryInv(p)'
      BY <3>1, PointerKept
    <3>3. \A b \in Q : HistoryInv(b)'
      BY <3>1, PointerKept
    <3>4. \A b \in Q : /\ p # NoBlock => Number[p] < Number[b]
                       /\ \A c \in Q : Number[b] = Number[c] => b = c
      BY <3>1 DEF StreamInv, ReachInv, AheadOfPointer
    <3>. QED  BY <2>1, <3>1, <3>2, <3>3, <3>4, ReachIntro
  <2>5. FreshInv'
    <3>. SUFFICES ASSUME stream = "decide", NEW a \in PathOf[head],
                         Number[a] + AncestorCount >= Number[head]
                  PROVE  ethereum_blocks'[a] # "light"
      BY <2>1 DEF FreshInv
    <3>1. a \in Block /\ ethereum_blocks[a] # "light"
      BY PathBlocks DEF StreamInv, FreshInv, PointersInv, IndexerTypeOK
    <3>2. CASE IngestorStep
      BY <3>1, <3>2, IngestorKeepsFresh
    <3>3. CASE UNCHANGED systemVars
      BY <3>1, <3>3 DEF systemVars, ingestorVars, storeVars
    <3>. QED  BY <1>1, <3>2, <3>3
  <2>. QED  BY <2>1, <2>2, <2>3, <2>4, <2>5 DEF StreamInv
<1>2. CASE QueueEmpty \/ GoIdle \/ HeadUpdate
  <2>1. pending = {} /\ hits = {}
    BY <1>2 DEF QueueEmpty, GoIdle, HeadUpdate, StreamInv, PointersInv, IndexerTypeOK
  <2>2. /\ block_ptr' = block_ptr /\ applied' = applied /\ failed' = failed /\ head' = head
        /\ pending' = {} /\ hits' = {} /\ cache' = cache /\ woken' \in {FALSE, woken}
        /\ stream' \in {"reconcile", "idle"}
    BY <1>2, <2>1 DEF QueueEmpty, GoIdle, HeadUpdate, deploymentVars
  <2>3. failed' \in BOOLEAN /\ woken' \in BOOLEAN
    BY <2>2 DEF StreamInv, IndexerTypeOK
  <2>. QED  BY <2>2, <2>3, StreamReset
<1>3. CASE \/ StreamError \/ StopSubgraph \/ Restart
           \/ \E b \in Block : ProcessError(b) \/ PossibleReorg(b)
  <2>1. /\ block_ptr' = block_ptr /\ applied' = applied /\ failed' \in {TRUE, FALSE, failed}
        /\ head' = head /\ pending' = {} /\ hits' = {} /\ cache' \in {cache, {}} /\ woken' = woken
        /\ stream' \in {"reconcile", "stopped"}
    BY <1>3 DEF StreamError, StopSubgraph, Restart, ProcessError, PossibleReorg, Fail, deploymentVars
  <2>2. failed' \in BOOLEAN /\ woken' \in BOOLEAN
    BY <2>1 DEF StreamInv, IndexerTypeOK
  <2>. QED  BY <2>1, <2>2, StreamReset
<1>. QED
  BY <1>1, <1>2, <1>3, StreamReadStep, StreamCheckStep, StreamScanStep, StreamLoadStep,
     StreamWalkStep, StreamRevertStep, StreamProcessStep
  DEF IndexerNext, IndexerStep, IndexerDisturbed

LEMMA StreamInit == IndexerInit => StreamInv
<1>. SUFFICES ASSUME IndexerInit PROVE StreamInv
  OBVIOUS
<1>1. TypeOK
  BY TypeInit DEF IndexerInit
<1>. QED
  BY <1>1 DEF IndexerInit, StreamInv, IndexerTypeOK, PointersInv, ReachInv, FreshInv, StreamState

\* Both invariants hold together in every state of the composed system.
LEMMA SystemInvariant == IndexerSpec => [](IndInv /\ StreamInv)
<1>1. IndexerInit => IndInv /\ StreamInv
  BY IndInit, StreamInit DEF IndexerInit
<1>2. IndInv /\ StreamInv /\ [IndexerNext]_systemVars => (IndInv /\ StreamInv)'
  BY IngestorSimulated, IndStep, StreamStep
<1>. QED  BY <1>1, <1>2, PTL DEF IndexerSpec

\* The subgraph and the ingestor together implement the specification of the
\* ingestor: whatever block_stream.rs does to the chain store, after any mix of
\* reorganisations, crashes and clean-ups, is what the ingestor allows for.
THEOREM SystemImplementsIngestor == IndexerSpec => Spec
<1>1. IndexerInit => Init
  BY DEF IndexerInit
<1>2. IndInv /\ StreamInv /\ [IndexerNext]_systemVars => [Next]_ingestorVars
  BY IngestorSimulated
<1>. QED  BY <1>1, <1>2, SystemInvariant, PTL DEF IndexerSpec, Spec

\* The guarantee of the ingestor holds in the composed system: no stream removes
\* what another, or the ingestor, needs near the head.
THEOREM StreamsKeepHeadAncestors == IndexerSpec => []HeadAncestorsPresent
  BY SystemImplementsIngestor, HeadAncestorsAlwaysPresent, PTL

\* The stream never yields a block that transact_block_operations rejects as a
\* duplicate, and never tries to revert the genesis block: a deployment does not
\* fail for either reason.
THEOREM NeverDuplicateNorGenesis ==
    IndexerSpec => [](IndexerTypeOK /\ NeverDuplicate /\ GenesisKept)
<1>1. StreamInv => IndexerTypeOK /\ NeverDuplicate /\ GenesisKept
  BY DEF StreamInv, NeverDuplicate, GenesisKept, IsNextBlock, ReachInv, PointersInv
<1>. QED  BY <1>1, SystemInvariant, PTL

\* With store events that never fail, the entity cache of the indexing task holds
\* only what the store holds: everything that goes back also empties it.
THEOREM CacheStaysFresh == ~NotifyMayFail => (IndexerSpec => []CacheFresh)
<1>. SUFFICES ASSUME ~NotifyMayFail PROVE IndexerSpec => []CacheFresh
  OBVIOUS
<1>1. IndexerInit => CacheFresh
  BY DEF IndexerInit, CacheFresh
<1>2. CacheFresh /\ [IndexerNext]_systemVars => CacheFresh'
  <2>. SUFFICES ASSUME CacheFresh, [IndexerNext]_systemVars PROVE CacheFresh'
    OBVIOUS
  <2>1. CASE RevertBlock
    BY <2>1 DEF RevertBlock, CacheFresh
  <2>2. ASSUME NEW b \in Block, ProcessBlock(b)
        PROVE  CacheFresh'
    BY <2>2 DEF ProcessBlock, TransactBlockOperations, Fail, CacheFresh
  <2>3. CASE applied' = applied /\ cache' \in {cache, {}}
    BY <2>3 DEF CacheFresh
  <2>. QED  BY <2>1, <2>2, <2>3 DEF IndexerNext, IngestorStep, IndexerStep, IndexerDisturbed,
    ReadPointers, CheckMainChain, WalkBack, LoadBlocks, QueueEmpty, GoIdle, HeadUpdate, ScanRange,
    StreamError, StopSubgraph, Restart, ProcessError, PossibleReorg, Fail, deploymentVars,
    systemVars, indexerVars
<1>. QED  BY <1>1, <1>2, PTL DEF IndexerSpec

------------------------------------------------------------------------------
(***************************************************************************)
(* What the store holds.  block_hash_by_block_number takes a single cached *)
(* block of a height for the main chain's without asking the node; that    *)
(* this is right is the only assumption the following theorems make.       *)
(***************************************************************************)

\* Below the threshold, a height with one cached block has the permanent one.
SingleCachedIsMain ==
    \A h \in Block :
        /\ BlockHashesByBlockNumber(Number[h]) = {h}
        /\ Number[h] + ReorgThreshold <= HeadNumber
        => h \in final

\* The pending blocks lie on the chain of one of them, which extends the
\* pointer's, and no trigger of that chain is missing between the two.
OneChain(t) ==
    /\ pending \subseteq PathOf[t]
    /\ block_ptr # NoBlock => block_ptr \in PathOf[t]
    /\ Triggers \cap PathOf[t] \subseteq IndexedPath \cup pending

DataInv ==
    /\ AppliedMatchesPointer
    /\ hits = Triggers \cap pending
    /\ pending # {} => \E t \in pending : OneChain(t)
    /\ ForwardOnlyFromMainChain

\* On one chain, the lower of two blocks is in the history of the higher one.
LEMMA PathOrder ==
    ASSUME NEW b \in Block, NEW x \in PathOf[b], NEW y \in PathOf[b], Number[x] <= Number[y]
    PROVE  x \in PathOf[y]
<1>1. x \in Block /\ y \in Block /\ Number[x] \in Nat /\ Number[y] \in Nat
  BY PathBlocks, NumberNat
<1>2. CASE y \in PathOf[x]
  <2>1. Number[y] <= Number[x]
    BY <1>1, <1>2, PathNumbers
  <2>2. x = y
    BY <1>1, <2>1, PathUnique
  <2>. QED  BY <1>1, <2>2, PathBlocks
<1>. QED  BY <1>2, PathLinear

\* What the node has at a number below the threshold is permanent.
LEMMA NodeBlockFinal ==
    ASSUME IndInv, NEW n \in Nat, n + ReorgThreshold <= HeadNumber,
           NEW h \in PathOf[latest], Number[h] = n
    PROVE  h \in final
<1>1. ReorgThreshold \in Nat /\ n + ReorgThreshold \in Nat /\ TypeOK
  BY ThresholdAssumption DEF IndInv
<1>2. chain_head \in Block /\ HeadNumber = Number[chain_head] /\ HeadNumber \in Nat
  BY <1>1, HeadExists
<1>3. PICK x \in PathOf[chain_head] : Number[x] = n
  BY <1>1, <1>2, PathAtNumber
<1>4. x \in final
  BY <1>2, <1>3, TreeAssumption DEF IndInv, StoreFinalInv, Confirmed
<1>5. x \in PathOf[latest] /\ latest \in Block
  BY <1>1, <1>4 DEF IndInv, FinalInv, TypeOK
<1>. QED  BY <1>3, <1>4, <1>5, PathUnique

\* The answer of block_hash_by_block_number below the threshold.
LEMMA AnswerFinal ==
    ASSUME IndInv, SingleCachedIsMain, NEW n \in Nat, n + ReorgThreshold <= HeadNumber,
           NEW h \in BlockHashByBlockNumber(n)
    PROVE  h \in final
<1>1. h \in Block /\ Number[h] = n
  BY AnswerHasNumber DEF IndInv
<1>2. CASE BlockHashesByBlockNumber(n) = {h}
  BY <1>1, <1>2 DEF SingleCachedIsMain
<1>3. CASE h \in NodeBlock(n)
  BY <1>3, NodeBlockFinal DEF NodeBlock
<1>. QED  BY <1>2, <1>3 DEF BlockHashByBlockNumber

\* A scan takes every trigger between the pointer and its last block.
LEMMA DataScanStep ==
    ASSUME IndInv, StreamInv, DataInv, SingleCachedIsMain, NEW to \in Numbers, ScanRange(to)
    PROVE  DataInv'
<1>0. /\ stream = "scan" /\ stream' = "load" /\ block_ptr' = block_ptr /\ applied' = applied
      /\ to \in From .. ToLimit /\ latest' = latest
  BY DEF ScanRange, ScanEnds, deploymentVars, nodeVars
<1>1. PICK found : found = {b \in Triggers \cap PathOf[latest] : Number[b] \in From .. to}
  OBVIOUS
<1>2. PICK h \in BlockHashByBlockNumber(to) :
          /\ \A b \in found : Number[b] = to => b = h
          /\ pending' = found \cup {h} /\ hits' = found
  BY <1>1 DEF ScanRange
<1>3. /\ h \in Block /\ Number[h] = to /\ latest \in Block /\ to \in Nat /\ to <= ToLimit
      /\ PathOf[latest] \subseteq Block
  BY <1>0, <1>2, AnswerHasNumber, PathBlocks, NumberNat DEF IndInv, TypeOK, Numbers
<1>4. /\ From \in Nat /\ ToLimit \in Int /\ From <= to
      /\ block_ptr # NoBlock => /\ block_ptr \in Block /\ Number[block_ptr] \in Nat
                                /\ From = Number[block_ptr] + 1
      /\ block_ptr = NoBlock => From = 0
  <2>1. block_ptr # NoBlock => block_ptr \in Block /\ Number[block_ptr] \in Nat
    BY NumberNat DEF StreamInv, IndexerTypeOK
  <2>2. head \in Block /\ Number[head] \in Nat /\ ReorgThreshold \in Nat
    BY <1>0, LimitBelowHead, NumberNat, ThresholdAssumption
  <2>. QED  BY <1>0, <1>3, <2>1, <2>2 DEF From, ToLimit, Threshold
<1>5. h \in PathOf[latest]
  <2>1. to = 0 \/ to + ReorgThreshold <= HeadNumber
    BY <1>0, <1>3, LimitBelowHead
  <2>2. CASE to = 0
    BY <1>3, <2>2, GenesisNumber
  <2>3. CASE to + ReorgThreshold <= HeadNumber
    <3>1. h \in final
      BY <1>3, <2>3, AnswerFinal
    <3>. QED  BY <3>1 DEF IndInv, FinalInv
  <2>. QED  BY <2>1, <2>2, <2>3
<1>6. block_ptr # NoBlock => block_ptr \in PathOf[latest]
  BY <1>0 DEF DataInv, ForwardOnlyFromMainChain, IndInv, FinalInv
<1>7. hits' = Triggers \cap pending'
  <2>1. h \in Triggers => h \in found
    BY <1>1, <1>3, <1>4, <1>5
  <2>. QED  BY <1>1, <1>2, <2>1
<1>8. PICK Q : Q = found \cup {h}
  OBVIOUS
<1>9. Q \subseteq PathOf[h]
  <2>1. ASSUME NEW x \in Q
        PROVE  x \in PathOf[h]
    <3>1. x \in PathOf[latest] /\ Number[x] <= Number[h]
      BY <1>1, <1>3, <1>4, <1>5, <1>8, <2>1, NumberNat
    <3>. QED  BY <1>3, <1>5, <3>1, PathOrder
  <2>. QED  BY <2>1
<1>10. block_ptr # NoBlock => block_ptr \in PathOf[h]
  <2>1. block_ptr # NoBlock => Number[block_ptr] <= Number[h]
    BY <1>3, <1>4
  <2>. QED  BY <1>3, <1>5, <1>6, <2>1, PathOrder
<1>11. ASSUME NEW x \in Triggers \cap PathOf[h], x \notin Q
       PROVE  block_ptr # NoBlock /\ x \in PathOf[block_ptr]
  <2>1. x \in PathOf[latest] /\ x \in Block /\ Number[x] <= to /\ Number[x] \in Nat
    BY <1>3, <1>5, <1>11, PathTransitive, PathNumbers, NumberNat
  <2>2. Number[x] < From
    BY <1>1, <1>3, <1>4, <1>8, <1>11, <2>1
  <2>3. block_ptr # NoBlock /\ Number[x] <= Number[block_ptr]
    BY <1>4, <2>1, <2>2
  <2>. QED  BY <1>3, <1>6, <2>1, <2>3, PathOrder
<1>12. OneChain(h)'
  BY <1>0, <1>2, <1>8, <1>9, <1>10, <1>11 DEF OneChain, IndexedPath
<1>13. AppliedMatchesPointer'
  BY <1>0 DEF DataInv, AppliedMatchesPointer, IndexedPath
<1>. QED  BY <1>0, <1>2, <1>7, <1>12, <1>13 DEF DataInv, ForwardOnlyFromMainChain

\* Near the head, the one pending block is the child of the pointer's, and its
\* receipts are in the cache.
LEMMA DataWalkStep ==
    ASSUME IndInv, StreamInv, DataInv, WalkBack
    PROVE  DataInv'
<1>0. /\ stream = "decide" /\ ~FarBehind /\ block_ptr' = block_ptr /\ applied' = applied
  BY DEF WalkBack, deploymentVars
<1>1. PICK child : child = AncestorBlock(head, Number[head] - Number[block_ptr] - 1)
  OBVIOUS
<1>2. /\ stream' \in {"reconcile", "yield", "revert"}
      /\ \/ pending' = pending /\ hits' = hits
         \/ /\ child # NoBlock /\ Parent[child] = block_ptr
            /\ pending' = {child} /\ hits' = TriggersInBlock(child)
  BY <1>1 DEF WalkBack
<1>3. pending = {} /\ hits = {}
  BY <1>0 DEF StreamInv, PointersInv, IndexerTypeOK
<1>4. AppliedMatchesPointer' /\ ForwardOnlyFromMainChain'
  BY <1>0, <1>2 DEF DataInv, AppliedMatchesPointer, IndexedPath, ForwardOnlyFromMainChain
<1>5. CASE pending' = pending /\ hits' = hits
  BY <1>3, <1>4, <1>5 DEF DataInv
<1>6. CASE /\ child # NoBlock /\ Parent[child] = block_ptr
           /\ pending' = {child} /\ hits' = TriggersInBlock(child)
  <2>1. /\ block_ptr \in Block /\ head \in Block /\ child \in PathOf[head]
        /\ child \in Block /\ child \in Cached
        /\ Number[child] = Number[block_ptr] + 1
        /\ Number[child] + AncestorCount >= Number[head]
    BY <1>0, <1>1, <1>6, WalkBackChild
  <2>2. child # Genesis
    BY <2>1, NumberNat, TreeAssumption
  <2>3. PathOf[child] = {child} \cup PathOf[block_ptr] /\ block_ptr \in PathOf[block_ptr]
    BY <1>6, <2>1, <2>2, PathUnfold, PathBlocks
  <2>4. ethereum_blocks[child] = "full"
    BY <1>0, <2>1 DEF StreamInv, FreshInv, IndexerTypeOK, TypeOK, CacheState, Cached
  <2>5. hits' = Triggers \cap pending'
    BY <1>6, <2>4 DEF TriggersInBlock
  <2>6. block_ptr # NoBlock
    BY <2>1, TreeAssumption
  <2>7. OneChain(child)'
    BY <1>0, <1>6, <2>3, <2>6 DEF OneChain, IndexedPath
  <2>. QED  BY <1>4, <1>6, <2>5, <2>7 DEF DataInv
<1>. QED  BY <1>2, <1>5, <1>6

\* Reverting a block removes exactly what it had added.
LEMMA DataRevertStep ==
    ASSUME StreamInv, DataInv, RevertBlock
    PROVE  DataInv'
<1>0. /\ stream = "revert" /\ stream' = "reconcile" /\ block_ptr' = Parent[block_ptr]
      /\ applied' = {b \in applied : Number[b] < Number[block_ptr]}
      /\ pending' = pending /\ hits' = hits
  BY DEF RevertBlock, RevertBlockOperations
<1>1. block_ptr \in Block \ {Genesis} /\ pending = {} /\ block_ptr # NoBlock
  BY <1>0, TreeAssumption DEF StreamInv, PointersInv
<1>2. /\ Parent[block_ptr] \in Block /\ Parent[block_ptr] # NoBlock
      /\ Number[block_ptr] = Number[Parent[block_ptr]] + 1
      /\ PathOf[block_ptr] = {block_ptr} \cup PathOf[Parent[block_ptr]]
  BY <1>1, TreeAssumption, PathUnfold
<1>3. \A x \in PathOf[Parent[block_ptr]] : Number[x] < Number[block_ptr]
  <2>1. ASSUME NEW x \in PathOf[Parent[block_ptr]]
        PROVE  Number[x] < Number[block_ptr]
    <3>1. x \in Block /\ Number[x] <= Number[Parent[block_ptr]]
      BY <1>2, PathBlocks, PathNumbers
    <3>. QED  BY <1>2, <3>1, NumberNat
  <2>. QED  BY <2>1
<1>4. ~(Number[block_ptr] < Number[block_ptr])
  BY <1>1, NumberNat
<1>5. applied = Triggers \cap PathOf[block_ptr]
  BY <1>1 DEF DataInv, AppliedMatchesPointer, IndexedPath
<1>6. applied' = Triggers \cap PathOf[Parent[block_ptr]]
  BY <1>0, <1>2, <1>3, <1>4, <1>5
<1>. QED  BY <1>0, <1>1, <1>2, <1>6
  DEF DataInv, AppliedMatchesPointer, IndexedPath, ForwardOnlyFromMainChain

\* Processing the lowest pending block adds its triggers and no other's.
LEMMA DataProcessStep ==
    ASSUME StreamInv, DataInv, NEW b \in Block, ProcessBlock(b)
    PROVE  /\ DataInv'
           /\ block_ptr # NoBlock => block_ptr \in PathOf[b]
<1>0. /\ stream = "yield" /\ b \in pending /\ \A c \in pending : Number[b] <= Number[c]
      /\ block_ptr' = b /\ applied' = applied \cup ({b} \cap hits)
  BY DEF ProcessBlock, IsNextBlock, TransactBlockOperations
<1>1. \/ pending' = pending \ {b} /\ hits' = hits \ {b} /\ stream' = "yield"
      \/ pending' = {} /\ hits' = {} /\ stream' \in {"reconcile", "stopped"}
  BY DEF ProcessBlock, Fail
<1>2. PICK t \in pending : OneChain(t)
  BY <1>0 DEF DataInv
<1>3. /\ t \in Block /\ b \in PathOf[t] /\ pending \subseteq Block /\ b # NoBlock
      /\ \A c \in pending : Number[c] \in Nat
  BY <1>0, <1>2, NumberNat, TreeAssumption DEF OneChain, StreamInv, IndexerTypeOK
<1>4. block_ptr # NoBlock => block_ptr \in PathOf[b]
  <2>1. ASSUME block_ptr # NoBlock
        PROVE  block_ptr \in PathOf[b]
    <3>1. block_ptr \in PathOf[t] /\ block_ptr \in Block /\ Number[block_ptr] < Number[b]
      BY <1>0, <1>2, <2>1 DEF OneChain, StreamInv, IndexerTypeOK, ReachInv, AheadOfPointer
    <3>2. Number[block_ptr] <= Number[b]
      BY <1>0, <1>3, <3>1, NumberNat
    <3>. QED  BY <1>3, <3>1, <3>2, PathOrder
  <2>. QED  BY <2>1
<1>5. IndexedPath \subseteq PathOf[b]
  <2>1. CASE block_ptr = NoBlock
    BY <2>1 DEF IndexedPath
  <2>2. CASE block_ptr # NoBlock
    BY <1>4, <2>2, PathTransitive DEF IndexedPath
  <2>. QED  BY <2>1, <2>2
<1>6. ASSUME NEW x \in Triggers \cap PathOf[b], x \notin IndexedPath
      PROVE  x = b
  <2>1. x \in PathOf[t] /\ Number[x] <= Number[b]
    BY <1>3, <1>6, PathTransitive, PathNumbers
  <2>2. x \in pending
    BY <1>2, <1>6, <2>1 DEF OneChain
  <2>3. Number[x] = Number[b]
    BY <1>0, <1>3, <2>1, <2>2
  <2>. QED  BY <1>0, <2>2, <2>3 DEF StreamInv, ReachInv
<1>7. b \in PathOf[b] /\ hits = Triggers \cap pending /\ applied = Triggers \cap IndexedPath
  BY PathBlocks DEF DataInv, AppliedMatchesPointer
<1>8. applied' = Triggers \cap PathOf[b]
  BY <1>0, <1>5, <1>6, <1>7
<1>9. AppliedMatchesPointer' /\ ForwardOnlyFromMainChain'
  BY <1>0, <1>1, <1>3, <1>8 DEF AppliedMatchesPointer, IndexedPath, ForwardOnlyFromMainChain
<1>10. hits' = Triggers \cap pending'
  BY <1>1, <1>7
<1>11. ASSUME pending' # {}
       PROVE  t \in pending' /\ OneChain(t)'
  <2>1. pending' = pending \ {b}
    BY <1>1, <1>11
  <2>2. t # b
    <3>. SUFFICES ASSUME t = b PROVE FALSE
      OBVIOUS
    <3>1. PICK c \in pending : c # b
      BY <1>11, <2>1
    <3>2. c \in PathOf[b] /\ c \in Block
      BY <1>2, <1>3 DEF OneChain
    <3>3. Number[c] < Number[b]
      BY <3>1, <3>2, PathStrict
    <3>. QED  BY <1>0, <1>3, <3>3
  <2>3. Triggers \cap PathOf[t] \subseteq PathOf[b] \cup pending'
    BY <1>2, <1>5, <1>7, <2>1 DEF OneChain
  <2>4. pending' \subseteq PathOf[t]
    BY <1>2, <2>1 DEF OneChain
  <2>. QED  BY <1>0, <1>2, <1>3, <2>1, <2>2, <2>3, <2>4 DEF OneChain, IndexedPath
<1>. QED  BY <1>4, <1>9, <1>10, <1>11 DEF DataInv

\* A permanent block stays permanent.
LEMMA FinalGrows ==
    ASSUME [Next]_ingestorVars
    PROVE  final \subseteq final'
  BY DEF Next, Poll, PollStep, Environment, ingestorVars, nodeVars, PollStart,
     LatestHeader, LatestBlock, IngestBlock, UpdateNoCandidate, UpdateHead,
     UpdateMissing, GetBlock, BlockUnavailable, PollError, CleanupCachedBlocks,
     SkipCleanup, Crash, NewHead, StreamLoadsBlocks, StreamConfirmsBlock

\* Going on from a block beyond the threshold takes the answer that it is on the
\* main chain.
LEMMA DataCheckStep ==
    ASSUME IndInv, StreamInv, DataInv, SingleCachedIsMain, CheckMainChain, [Next]_ingestorVars
    PROVE  DataInv'
<1>0. /\ stream = "decide" /\ FarBehind /\ block_ptr' = block_ptr /\ applied' = applied
      /\ pending' = pending /\ hits' = hits
  BY DEF CheckMainChain, deploymentVars
<1>1. pending = {}
  BY <1>0 DEF StreamInv, PointersInv
<1>2. ASSUME stream' = "scan", block_ptr # NoBlock
      PROVE  block_ptr \in final'
  <2>1. block_ptr \in BlockHashByBlockNumber(Number[block_ptr])
    BY <1>2 DEF CheckMainChain
  <2>2. Number[block_ptr] \in Nat
    BY <1>2, NumberNat DEF StreamInv, IndexerTypeOK
  <2>3. Number[block_ptr] + ReorgThreshold <= HeadNumber
    BY <1>0, <1>2, LimitBelowHead
  <2>4. PICK n \in Nat : n = Number[block_ptr]
    BY <2>2
  <2>5. block_ptr \in final
    BY <2>1, <2>3, <2>4, AnswerFinal
  <2>. QED  BY <2>5, FinalGrows
<1>. QED  BY <1>0, <1>1, <1>2
  DEF DataInv, AppliedMatchesPointer, IndexedPath, ForwardOnlyFromMainChain

\* Every step of the system keeps the store in line with the pointer.
LEMMA DataStep ==
    ASSUME IndInv, StreamInv, DataInv, SingleCachedIsMain, [Next]_ingestorVars,
           [IndexerNext]_systemVars
    PROVE  DataInv'
<1>1. ASSUME block_ptr' = block_ptr, applied' = applied, pending' = {}, hits' = {}, stream' # "scan"
      PROVE  DataInv'
  BY <1>1 DEF DataInv, AppliedMatchesPointer, IndexedPath, ForwardOnlyFromMainChain
<1>2. ASSUME block_ptr' = block_ptr, applied' = applied, pending' = pending, hits' = hits,
             stream' # "scan" \/ stream' = stream
      PROVE  DataInv'
  <2>1. AppliedMatchesPointer' /\ IndexedPath' = IndexedPath
    BY <1>2 DEF DataInv, AppliedMatchesPointer, IndexedPath
  <2>2. \A t \in pending : OneChain(t) => OneChain(t)'
    BY <1>2, <2>1 DEF OneChain
  <2>3. ForwardOnlyFromMainChain'
    BY <1>2, FinalGrows DEF DataInv, ForwardOnlyFromMainChain
  <2>. QED  BY <1>2, <2>1, <2>2, <2>3 DEF DataInv
<1>3. CASE IngestorStep \/ UNCHANGED systemVars
  BY <1>2, <1>3 DEF IngestorStep, systemVars, indexerVars, deploymentVars, streamVars
<1>4. CASE ReadPointers \/ LoadBlocks \/ QueueEmpty \/ GoIdle \/ HeadUpdate
  BY <1>2, <1>4 DEF ReadPointers, LoadBlocks, QueueEmpty, GoIdle, HeadUpdate, deploymentVars
<1>5. CASE \/ StreamError \/ StopSubgraph \/ Restart
           \/ \E b \in Block : ProcessError(b) \/ PossibleReorg(b)
  BY <1>1, <1>5 DEF StreamError, StopSubgraph, Restart, ProcessError, PossibleReorg, Fail,
     deploymentVars
<1>. QED
  BY <1>3, <1>4, <1>5, DataCheckStep, DataScanStep, DataWalkStep, DataRevertStep, DataProcessStep
  DEF IndexerNext, IndexerStep, IndexerDisturbed

LEMMA DataInvariant == IndexerSpec /\ []SingleCachedIsMain => []DataInv
<1>1. IndexerInit => DataInv
  BY DEF IndexerInit, DataInv, AppliedMatchesPointer, IndexedPath, ForwardOnlyFromMainChain
<1>2. IndInv /\ StreamInv /\ SingleCachedIsMain /\ DataInv /\ [IndexerNext]_systemVars => DataInv'
  BY IngestorSimulated, DataStep
<1>. QED  BY <1>1, <1>2, SystemInvariant, PTL DEF IndexerSpec

\* As long as single cached blocks are the main chain's, the store holds exactly
\* the effect of the triggers on the history of the pointer, in every state, and
\* no block is yielded twice or the genesis block reverted.
THEOREM IndexerStaysConsistent ==
    IndexerSpec /\ []SingleCachedIsMain => []IndexerConsistent
<1>1. DataInv /\ IndexerTypeOK /\ NeverDuplicate /\ GenesisKept => IndexerConsistent
  BY DEF DataInv, IndexerConsistent
<1>. QED  BY <1>1, DataInvariant, NeverDuplicateNorGenesis, PTL

\* Under the same assumption the stream goes forward beyond the threshold only
\* from a block that is permanently on the main chain.
THEOREM ForwardFromMainChain ==
    IndexerSpec /\ []SingleCachedIsMain => []ForwardOnlyFromMainChain
<1>1. DataInv => ForwardOnlyFromMainChain
  BY DEF DataInv
<1>. QED  BY <1>1, DataInvariant, PTL

\* Under the same assumption the pointer never jumps from one fork to another,
\* whatever happens between the decision of get_next_step and the step.
THEOREM PointerStaysOnOneChain ==
    IndexerSpec /\ []SingleCachedIsMain => StaysOnOneChain
<1>1. StreamInv /\ DataInv /\ [IndexerNext]_systemVars =>
        [block_ptr' # block_ptr =>
            \/ block_ptr = NoBlock
            \/ block_ptr' = Parent[block_ptr]
            \/ block_ptr \in PathOf[block_ptr']]_systemVars
  <2>. SUFFICES ASSUME StreamInv, DataInv, IndexerNext, block_ptr' # block_ptr, block_ptr # NoBlock
                PROVE  block_ptr' = Parent[block_ptr] \/ block_ptr \in PathOf[block_ptr']
    OBVIOUS
  <2>1. RevertBlock \/ \E b \in Block : ProcessBlock(b)
    BY DEF IndexerNext, IngestorStep, IndexerStep, IndexerDisturbed,
       ReadPointers, CheckMainChain, WalkBack, LoadBlocks, QueueEmpty, GoIdle, HeadUpdate, ScanRange,
       StreamError, StopSubgraph, Restart, ProcessError, PossibleReorg, deploymentVars
  <2>2. CASE RevertBlock
    BY <2>2 DEF RevertBlock, RevertBlockOperations
  <2>3. ASSUME NEW b \in Block, ProcessBlock(b)
        PROVE  block_ptr \in PathOf[block_ptr']
    <3>1. block_ptr \in PathOf[b]
      BY <2>3, DataProcessStep
    <3>2. block_ptr' = b
      BY <2>3 DEF ProcessBlock, TransactBlockOperations
    <3>. QED  BY <3>1, <3>2
  <2>. QED  BY <2>1, <2>2, <2>3
<1>. QED  BY <1>1, DataInvariant, SystemInvariant, PTL DEF IndexerSpec, StaysOnOneChain
==============================================================================
