--------------------------- MODULE BlockTreeProofs ---------------------------
(***************************************************************************)
(* Facts about the histories of blocks, for every tree of blocks.  PathOf  *)
(* is defined as a smallest parent-closed set, so each proof exhibits a    *)
(* parent-closed set instead of an induction on block numbers.             *)
(***************************************************************************)
EXTENDS BlockTree, WellFoundedInduction, TLAPS

\* Every parent-closed set that contains b contains the history of b.
LEMMA PathSmallest ==
    ASSUME NEW b \in Block, NEW S \in SUBSET Block, b \in S, ParentClosed(S)
    PROVE  PathOf[b] \subseteq S
  BY DEF PathOf

\* A history is a set of blocks, contains its block and is parent-closed.
LEMMA PathClosed ==
    ASSUME NEW b \in Block
    PROVE  /\ PathOf[b] \subseteq Block
           /\ b \in PathOf[b]
           /\ ParentClosed(PathOf[b])
  <1>1. PathOf[b] \subseteq Block /\ b \in PathOf[b]
    BY DEF PathOf
  <1>2. ASSUME NEW x \in PathOf[b], x # Genesis
        PROVE  Parent[x] \in PathOf[b]
    <2>1. x \in Block /\ Parent[x] \in Block
      BY <1>1, <1>2, TreeAssumption
    <2>2. ASSUME NEW S \in SUBSET Block, b \in S, ParentClosed(S)
          PROVE  Parent[x] \in S
      <3>1. x \in S
        BY <2>2, PathSmallest
      <3> QED
        BY <3>1, <1>2, <2>2 DEF ParentClosed
    <2> QED
      BY <2>1, <2>2 DEF PathOf
  <1> QED
    BY <1>1, <1>2 DEF ParentClosed

\* The history of an ancestor is part of the history of its descendant.
LEMMA PathTransitive ==
    ASSUME NEW b \in Block, NEW a \in PathOf[b]
    PROVE  PathOf[a] \subseteq PathOf[b]
  BY PathClosed, PathSmallest

\* No block of a history has a higher number than its block.
LEMMA PathNumbers ==
    ASSUME NEW b \in Block, NEW a \in PathOf[b]
    PROVE  Number[a] <= Number[b]
  <1> DEFINE S == {x \in Block : Number[x] <= Number[b]}
  <1>1. b \in S
    BY TreeAssumption
  <1>2. ParentClosed(S)
    <2> SUFFICES ASSUME NEW x \in S, x # Genesis
                 PROVE  Parent[x] \in S
      BY DEF ParentClosed
    <2>1. Parent[x] \in Block /\ Number[x] = Number[Parent[x]] + 1
      BY TreeAssumption
    <2>2. Number[x] \in Nat /\ Number[b] \in Nat /\ Number[Parent[x]] \in Nat
      BY <2>1, TreeAssumption
    <2> QED
      BY <2>1, <2>2
  <1>3. S \in SUBSET Block
    OBVIOUS
  <1> QED
    BY <1>1, <1>2, <1>3, PathSmallest

\* The genesis block is its own history; any other history is one block longer
\* than the history of the parent.
LEMMA PathUnfold ==
    ASSUME NEW b \in Block
    PROVE  /\ b = Genesis => PathOf[b] = {b}
           /\ b # Genesis => PathOf[b] = {b} \cup PathOf[Parent[b]]
  <1>1. CASE b = Genesis
    <2>1. ParentClosed({b})
      BY <1>1 DEF ParentClosed
    <2> QED
      BY <1>1, <2>1, PathSmallest, PathClosed
  <1>2. CASE b # Genesis
    <2>1. Parent[b] \in Block
      BY <1>2, TreeAssumption
    <2> DEFINE S == {b} \cup PathOf[Parent[b]]
    <2>2. S \in SUBSET Block /\ b \in S
      BY <2>1, PathClosed
    <2>3. ParentClosed(S)
      BY <2>1, PathClosed DEF ParentClosed
    <2>4. PathOf[b] \subseteq S
      BY <2>2, <2>3, PathSmallest
    <2>5. Parent[b] \in PathOf[b]
      BY <1>2, PathClosed DEF ParentClosed
    <2>6. S \subseteq PathOf[b]
      BY <2>5, PathClosed, PathTransitive
    <2> QED
      BY <1>2, <2>4, <2>6
  <1> QED
    BY <1>1, <1>2

\* A block other than b in the history of b has a lower number.
LEMMA PathStrict ==
    ASSUME NEW b \in Block, NEW a \in PathOf[b], a # b
    PROVE  Number[a] < Number[b]
  <1>1. b # Genesis /\ a \in PathOf[Parent[b]]
    BY PathUnfold
  <1>2. Parent[b] \in Block /\ Number[b] = Number[Parent[b]] + 1
    BY <1>1, TreeAssumption
  <1>3. Number[a] <= Number[Parent[b]]
    BY <1>1, <1>2, PathNumbers
  <1>4. a \in Block /\ Number[a] \in Nat /\ Number[Parent[b]] \in Nat
    BY <1>1, <1>2, PathClosed, TreeAssumption
  <1> QED
    BY <1>2, <1>3, <1>4

\* Of two blocks of one history, one is in the history of the other.
LEMMA PathLinear ==
    ASSUME NEW b \in Block, NEW a \in PathOf[b], NEW c \in PathOf[b]
    PROVE  a \in PathOf[c] \/ c \in PathOf[a]
  <1> DEFINE S == {x \in Block : a \in PathOf[x]} \cup PathOf[a]
  <1>1. a \in Block /\ c \in Block
    BY PathClosed
  <1>2. S \in SUBSET Block /\ b \in S
    BY <1>1, PathClosed
  <1>3. ParentClosed(S)
    <2> SUFFICES ASSUME NEW x \in S, x # Genesis
                 PROVE  Parent[x] \in S
      BY DEF ParentClosed
    <2>1. CASE x \in PathOf[a]
      BY <2>1, <1>1, PathClosed DEF ParentClosed
    <2>2. CASE x \in Block /\ a \in PathOf[x] /\ x # a
      <3>1. Parent[x] \in Block
        BY <2>2, TreeAssumption
      <3>2. a \in PathOf[Parent[x]]
        BY <2>2, PathUnfold
      <3> QED
        BY <3>1, <3>2
    <2>3. CASE x = a
      BY <2>3, <1>1, PathClosed DEF ParentClosed
    <2> QED
      BY <2>1, <2>2, <2>3
  <1>4. PathOf[b] \subseteq S
    BY <1>2, <1>3, PathSmallest
  <1> QED
    BY <1>4

\* A history has at most one block with a given number: what makes "the block
\* of the main chain with number n" meaningful.
LEMMA PathUnique ==
    ASSUME NEW b \in Block, NEW a \in PathOf[b], NEW c \in PathOf[b],
           Number[a] = Number[c]
    PROVE  a = c
  <1>1. a \in Block /\ c \in Block
    BY PathClosed
  <1>2. Number[a] \in Nat /\ Number[c] \in Nat
    BY <1>1, TreeAssumption
  <1>3. ~(Number[a] < Number[c]) /\ ~(Number[c] < Number[a])
    BY <1>2
  <1> QED
    BY <1>1, <1>3, PathLinear, PathStrict

\* What is confirmed for an ancestor is confirmed for its descendant.
LEMMA ConfirmedMonotone ==
    ASSUME NEW b \in Block, NEW a \in PathOf[b], NEW k \in Nat
    PROVE  Confirmed(a, k) \subseteq Confirmed(b, k)
  <1>1. a \in Block /\ PathOf[a] \subseteq PathOf[b] /\ PathOf[b] \subseteq Block
    BY PathClosed, PathTransitive
  <1>2. Number[a] <= Number[b]
    BY PathNumbers
  <1>3. ASSUME NEW x \in Confirmed(a, k)
        PROVE  x \in Confirmed(b, k)
    <2>1. x \in PathOf[a] /\ Number[x] + k <= Number[a]
      BY <1>3 DEF Confirmed
    <2>2. x \in PathOf[b]
      BY <1>1, <2>1
    <2>3. Number[x] \in Nat /\ Number[a] \in Nat /\ Number[b] \in Nat
      BY <1>1, <2>2, TreeAssumption
    <2>4. Number[x] + k <= Number[b]
      BY <1>2, <2>1, <2>3
    <2> QED
      BY <2>2, <2>4 DEF Confirmed
  <1> QED
    BY <1>3

\* A nonempty set of blocks of one history has a member with the highest number.
LEMMA PathHighest ==
    ASSUME NEW b \in Block, NEW T \in SUBSET PathOf[b], T # {}
    PROVE  \E x \in T : \A y \in T : Number[y] <= Number[x]
  <1> DEFINE D == {Number[b] - Number[x] : x \in T}
             R == OpToRel(<, Nat)
  <1>1. \A x \in T : /\ Number[x] \in Nat /\ Number[b] \in Nat
                     /\ Number[b] - Number[x] \in Nat
    <2> TAKE x \in T
    <2>1. x \in Block /\ Number[x] <= Number[b]
      BY PathClosed, PathNumbers
    <2>2. Number[x] \in Nat /\ Number[b] \in Nat
      BY <2>1, TreeAssumption
    <2> QED
      BY <2>1, <2>2
  <1>2. D \subseteq Nat /\ D # {}
    BY <1>1
  <1>3. IsWellFoundedOn(R, Nat)
    BY NatLessThanWellFounded
  <1>4. \E d \in D : \A e \in D : ~(<<e, d>> \in R)
    <2> HIDE DEF D, R
    <2> QED
      BY <1>2, <1>3, WFMin
  <1>5. PICK d \in D : \A e \in D : ~(<<e, d>> \in R)
    BY <1>4
  <1>6. PICK x \in T : d = Number[b] - Number[x]
    BY <1>5
  <1>7. ASSUME NEW y \in T
        PROVE  Number[y] <= Number[x]
    <2>1. Number[b] - Number[y] \in D
      OBVIOUS
    <2>2. ~(<<Number[b] - Number[y], d>> \in R)
      BY <1>5, <2>1
    <2>3. ~(Number[b] - Number[y] < d)
      BY <2>2, <1>1, <1>6 DEF OpToRel
    <2> QED
      BY <2>3, <1>1, <1>6
  <1> QED
    BY <1>7

\* A history has a block with every number up to that of its block.
LEMMA PathAtNumber ==
    ASSUME NEW b \in Block, NEW n \in Nat, n <= Number[b]
    PROVE  \E x \in PathOf[b] : Number[x] = n
  <1> DEFINE D == {Number[x] : x \in {y \in PathOf[b] : n <= Number[y]}}
             R == OpToRel(<, Nat)
  <1>1. \A x \in PathOf[b] : x \in Block /\ Number[x] \in Nat
    BY PathClosed, TreeAssumption
  <1>2. D \subseteq Nat /\ D # {}
    BY <1>1, PathClosed
  <1>3. IsWellFoundedOn(R, Nat)
    BY NatLessThanWellFounded
  <1>4. \E d \in D : \A e \in D : ~(<<e, d>> \in R)
    <2> HIDE DEF D, R
    <2> QED
      BY <1>2, <1>3, WFMin
  <1>5. PICK d \in D : \A e \in D : ~(<<e, d>> \in R)
    BY <1>4
  <1>6. PICK x \in PathOf[b] : n <= Number[x] /\ d = Number[x]
    BY <1>5
  <1>7. CASE n = Number[x]
    BY <1>7
  <1>8. CASE n < Number[x]
    <2>1. x # Genesis
      BY <1>8, TreeAssumption
    <2>2. /\ Parent[x] \in PathOf[b]
          /\ Number[x] = Number[Parent[x]] + 1
      BY <1>1, <2>1, PathClosed, TreeAssumption DEF ParentClosed
    <2>3. Number[Parent[x]] \in Nat /\ Number[x] \in Nat
      BY <1>1, <2>2
    <2>4. n <= Number[Parent[x]]
      BY <1>8, <2>2, <2>3
    <2>5. Number[Parent[x]] \in D
      BY <2>2, <2>4
    <2>6. Number[Parent[x]] < d
      BY <1>6, <2>2, <2>3
    <2>7. <<Number[Parent[x]], d>> \in R
      BY <1>6, <2>3, <2>6 DEF OpToRel
    <2> QED
      BY <1>5, <2>5, <2>7
  <1> QED
    BY <1>1, <1>6, <1>7, <1>8
==============================================================================
