-------------------------- MODULE MCSubgraphIndexer --------------------------
(***************************************************************************)
(* The tree of blocks on which TLC checks SubgraphIndexer; each run takes a*)
(* part of it.                                                             *)
(*                                                                         *)
(*     G --- a1 --- a2 --- a3 --- a4                                       *)
(*      \      \--- c2                                                     *)
(*       \-- b1 --- b2                                                     *)
(***************************************************************************)
EXTENDS SubgraphIndexer, TLC

CONSTANTS G, a1, a2, a3, a4, b1, b2, c2

TreeParent == [b \in Block |->
    ((G :> NoBlock) @@ (a1 :> G) @@ (a2 :> a1) @@ (a3 :> a2) @@ (a4 :> a3)
       @@ (b1 :> G) @@ (b2 :> b1) @@ (c2 :> a1))[b]]

TreeNumber == [b \in Block |->
    ((G :> 0) @@ (a1 :> 1) @@ (a2 :> 2) @@ (a3 :> 3) @@ (a4 :> 4)
       @@ (b1 :> 1) @@ (b2 :> 2) @@ (c2 :> 2))[b]]

TreeHash == [b \in Block |->
    ((G :> 10) @@ (a1 :> 11) @@ (a2 :> 12) @@ (a3 :> 13) @@ (a4 :> 14)
       @@ (b1 :> 15) @@ (b2 :> 9) @@ (c2 :> 8))[b]]
==============================================================================
