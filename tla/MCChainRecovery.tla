---------------------------- MODULE MCChainRecovery ----------------------------
(***************************************************************************)
(* A tree of six blocks for ChainRecovery.                                *)
(*                                                                         *)
(*     g -- c -- a1 -- a2                                                  *)
(*           \-- b1 -- b2                                                  *)
(*                                                                         *)
(* Transaction t spends the coinbase of c in a1 and, one block higher, in  *)
(* b2: its output has another height on either branch.  In a1 a second     *)
(* transaction spends that output in the block that creates it.            *)
(***************************************************************************)
EXTENDS ChainRecovery

MCBlock == {"g", "c", "a1", "a2", "b1", "b2"}
MCParent == [b \in MCBlock \ {"g"} |->
                IF b = "c" THEN "g" ELSE IF b = "a2" THEN "a1" ELSE IF b = "b2" THEN "b1" ELSE "c"]
MCOutpoint == {"og", "oc", "ob", "ot", "ou"}
MCPegin == {"p"}

Coinbase(outs) == [coinbase |-> TRUE, vin |-> {}, pegin |-> {}, vout |-> outs]
Spend(ins, outs) == [coinbase |-> FALSE, vin |-> ins, pegin |-> {}, vout |-> outs]
Claim(p, outs) == [coinbase |-> FALSE, vin |-> {}, pegin |-> {p}, vout |-> outs]

MCTxs ==
    [b \in MCBlock |->
        CASE b = "g"  -> <<Coinbase({"og"})>>
          [] b = "c"  -> <<Coinbase({"oc"})>>
          [] b = "a1" -> <<Coinbase({}), Spend({"oc"}, {"ot"}), Spend({"ot"}, {"ou"})>>
          [] b = "a2" -> <<Coinbase({}), Spend({"ou"}, {})>>
          [] b = "b1" -> <<Coinbase({"ob"})>>
          [] b = "b2" -> <<Coinbase({}), Spend({"oc"}, {"ot"})>>]

\* The same tree, with a peg-in claimed in b1.
MCPeginTxs == [MCTxs EXCEPT !["b1"] = <<Coinbase({}), Claim("p", {"ob"})>>]

===============================================================================
