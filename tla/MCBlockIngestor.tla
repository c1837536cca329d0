--------------------------- MODULE MCBlockIngestor ---------------------------
(***************************************************************************)
(* The tree of blocks on which TLC checks BlockIngestor.                   *)
(*                                                                         *)
(*     G --- a1 --- a2 --- a3 --- a4                                       *)
(*             \--- b2 --- b3                                              *)
(***************************************************************************)
EXTENDS BlockIngestor, TLC

CONSTANTS G, a1, a2, a3, a4, b2, b3

TreeParent == [b \in Block |->
    ((G :> NoBlock) @@ (a1 :> G) @@ (a2 :> a1) @@ (a3 :> a2) @@ (a4 :> a3)
       @@ (b2 :> a1) @@ (b3 :> b2))[b]]

TreeNumber == [b \in Block |->
    ((G :> 0) @@ (a1 :> 1) @@ (a2 :> 2) @@ (a3 :> 3) @@ (a4 :> 4)
       @@ (b2 :> 2) @@ (b3 :> 3))[b]]

\* The hash of b3 sorts before the one of a3, the hash of b2 after that of a2.
TreeHash == [b \in Block |->
    ((G :> 10) @@ (a1 :> 11) @@ (a2 :> 12) @@ (a3 :> 13) @@ (a4 :> 14)
       @@ (b2 :> 15) @@ (b3 :> 9))[b]]
==============================================================================
