----------------------------- MODULE MCCoinsCache -----------------------------
(***************************************************************************)
(* CoinsCache for TLC: one or two outpoints, one peg-in, and coins of      *)
(* different sizes.                                                        *)
(***************************************************************************)
EXTENDS CoinsCache, TLC

CONSTANTS o1, p1, small, big, dead, b1, b2

MCUsage == (NoCoin :> 0) @@ (small :> 1) @@ (big :> 2) @@ (dead :> 1)

===============================================================================
