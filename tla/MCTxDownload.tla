---------------------------- MODULE MCTxDownload ----------------------------
(***************************************************************************)
(* TxDownload with a parent P that has a witness, S, the same without it, a *)
(* child C, and a transaction E that spends P and the non-standard D.       *)
(***************************************************************************)
EXTENDS TxDownload, TLC

CONSTANTS near, far, coin, coin2, P, S, C, D, E, hp, hw, hc, hd, he

MCTx      == {P, S, C, D, E}
MCTxid    == (P :> hp) @@ (S :> hp) @@ (C :> hc) @@ (D :> hd) @@ (E :> he)
MCWtxid   == (P :> hw) @@ (S :> hp) @@ (C :> hc) @@ (D :> hd) @@ (E :> he)
MCInputs  == (P :> {coin}) @@ (S :> {coin}) @@ (C :> {hp}) @@ (D :> {coin2}) @@ (E :> {hp, hd})
MCVerdict == (P :> "VALID") @@ (S :> "TX_WITNESS_STRIPPED") @@ (C :> "VALID")
             @@ (D :> "TX_INPUTS_NOT_STANDARD") @@ (E :> "VALID")
MCSalt    == [h \in TxHash |-> (near :> 1) @@ (far :> 2)]

MCAnnounces == {<<near, hc>>, <<far, hw>>}
MCSends     == {<<near, P>>, <<near, C>>, <<far, S>>, <<far, D>>, <<far, E>>}
=============================================================================
