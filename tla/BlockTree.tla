------------------------------ MODULE BlockTree ------------------------------
(***************************************************************************)
(* The Ethereum blocks that exist during a behaviour, as a tree.           *)
(*                                                                         *)
(* A block is named by its hash and carries the hash of its parent and its *)
(* number (graph/src/components/ethereum/types.rs).  Because the hash      *)
(* covers the parent hash, a block determines its whole history: PathOf[b] *)
(* is the set of blocks from the genesis block to b.  Everything else in a *)
(* block (transactions, receipts) is abstracted away.                      *)
(***************************************************************************)
EXTENDS Integers

CONSTANTS
    Block,      \* the blocks of every fork, each standing for its hash
    Genesis,    \* the genesis block of the network
    NoBlock,    \* "no block": an unset pointer, the parent of the genesis
    Parent,     \* parent_hash, as a function
    Number,     \* block number, as a function
    Hash        \* the order of the hashes as strings, as an injective function

ASSUME TreeAssumption ==
    /\ Genesis \in Block
    /\ NoBlock \notin Block
    /\ Number \in [Block -> Nat]
    /\ Parent \in [Block -> Block \cup {NoBlock}]
    /\ Parent[Genesis] = NoBlock
    /\ Number[Genesis] = 0
    /\ \A b \in Block \ {Genesis} :
          Parent[b] \in Block /\ Number[b] = Number[Parent[b]] + 1
    /\ Hash \in [Block -> Nat]
    /\ \A a, b \in Block : Hash[a] = Hash[b] => a = b

\* A set of blocks that contains the parent of each of its members.
ParentClosed(S) == \A x \in S : x # Genesis => Parent[x] \in S

\* The history of a block: the smallest parent-closed set it belongs to.
PathOf == [b \in Block |->
             {a \in Block : \A S \in SUBSET Block :
                               (b \in S /\ ParentClosed(S)) => a \in S}]

\* The blocks of the history of b that have at least k confirmations in it.
Confirmed(b, k) == {a \in PathOf[b] : Number[a] + k <= Number[b]}
==============================================================================
