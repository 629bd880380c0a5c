----------------------------- MODULE MCMempool -----------------------------
(***************************************************************************)
(* Mempool with epochs of three blocks.  y and q spend outputs of x, which  *)
(* r replaces; p1 and p2 claim one peg-in, q also spends the output of p1;  *)
(* o is a peg-out that the parameters A allow.                              *)
(***************************************************************************)
EXTENDS Mempool, TLC

CONSTANTS A, B, G, x, y, r, p1, p2, q, o, coin1, coin2, coin3, pegin, x1, x2, g1

MCTx      == {x, y, r, p1, p2, q, o}
MCInputs  == (x :> {coin1}) @@ (r :> {coin1}) @@ (y :> {x1}) @@ (q :> {g1, x2})
             @@ (o :> {coin2}) @@ (p1 :> {}) @@ (p2 :> {coin3})
MCOutputs == [t \in MCTx |-> CASE t = x -> {x1, x2} [] t = p1 -> {g1} [] OTHER -> {}]
MCPegins  == [t \in MCTx |-> IF t \in {p1, p2} THEN {pegin} ELSE {}]
MCFedpeg  == [t \in MCTx |-> G]
MCPegout  == [t \in MCTx |-> IF t = o THEN A ELSE NoParam]
MCMatures == [t \in MCTx |-> IF t = y THEN 4 ELSE 0]
MCFee     == [t \in MCTx |-> CASE t = r -> 4 [] t = y -> 3 [] t = o -> 1 [] OTHER -> 2]
MCOrder   == <<x, r, p1, p2, y, q, o>>

\* The chain that results when blocks make these proposals on top of the genesis block.
Voted(proposals) ==
    FoldLeft(LAMBDA c, v : Append(c, ComputeNextBlockHeader(c, v)), <<NullHeader>>, proposals)

MCInitChains == {Voted(<<A, A>>), Voted(<<A, B>>)}
=============================================================================
