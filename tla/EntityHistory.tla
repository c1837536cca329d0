---------------------------- MODULE EntityHistory ----------------------------
(***************************************************************************)
(* What the entity storage of a deployment promises: for every block the   *)
(* contents of the store as of that block.  A block is added on top of the *)
(* head, only the head can be taken back, and a deployment that is grafted *)
(* onto another one starts from contents it is given.  EntityVersions      *)
(* implements it with rows that carry the range of blocks they live in.    *)
(***************************************************************************)
EXTENDS Integers

CONSTANTS Keys, Data, NoEntity, MaxBlock

VARIABLES
    hist,     \* hist[b][k]: the entity k as of block b
    tip,      \* the last block that was added
    seeded    \* whether the contents a graft starts from are there

historyVars == <<hist, tip, seeded>>

HInit ==
    /\ hist = [b \in 0..MaxBlock |-> [k \in Keys |-> NoEntity]]
    /\ tip = 0
    /\ seeded \in BOOLEAN

\* From block b on the contents do not change.
ConstantFrom(b) == \A c \in b..MaxBlock : hist'[c] = hist'[b]

\* Below block b nothing changes.
FrozenBelow(b) == \A c \in 0..(b - 1) : hist'[c] = hist[c]

\* A block on top of the head changes the contents from that block on.
HAdd ==
    /\ seeded
    /\ tip' > tip
    /\ FrozenBelow(tip')
    /\ ConstantFrom(tip')
    /\ UNCHANGED seeded

\* Taking back the head restores, from it on, what its predecessor left.
HRevert ==
    /\ seeded
    /\ tip > 0
    /\ tip' = tip - 1
    /\ FrozenBelow(tip)
    /\ \A c \in tip..MaxBlock : hist'[c] = hist[tip - 1]
    /\ UNCHANGED seeded

\* The head of a deployment that is going to be seeded is put at the graft.
HPlace ==
    /\ ~seeded
    /\ tip' >= tip
    /\ UNCHANGED <<hist, seeded>>

\* The contents up to the head are given, once.
HSeed ==
    /\ ~seeded
    /\ seeded'
    /\ UNCHANGED tip
    /\ ConstantFrom(tip)

HNext == HAdd \/ HRevert \/ HPlace \/ HSeed

HSpec == HInit /\ [][HNext]_historyVars
==============================================================================
