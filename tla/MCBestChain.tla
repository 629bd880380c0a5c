----------------------------- MODULE MCBestChain -----------------------------
(***************************************************************************)
(* BestChain on a tree of six blocks: two branches of different length     *)
(* that fork at the genesis block.                                         *)
(***************************************************************************)
EXTENDS BestChain, TLC

CONSTANTS g, a1, a2, b1, b2, b3

MCBlock == {g, a1, a2, b1, b2, b3}
MCParent == (a1 :> g) @@ (a2 :> a1) @@ (b1 :> g) @@ (b2 :> b1) @@ (b3 :> b2)
MCAddress == (g :> 3) @@ (a1 :> 4) @@ (a2 :> 1) @@ (b1 :> 2) @@ (b2 :> 6) @@ (b3 :> 5)

===============================================================================
