---------------------------- MODULE TxOrphanage ----------------------------
(***************************************************************************)
(* TxOrphanage (src/txorphanage.cpp): transactions whose inputs are not     *)
(* known yet, with an index by the outpoints they spend and a list for      *)
(* random eviction.  The operations are functions of the orphanage, which   *)
(* TxDownload keeps.                                                        *)
(*                                                                          *)
(* Outpoints are named by the txid of their transaction; different           *)
(* transactions spend different outputs of it.                              *)
(***************************************************************************)
EXTENDS Integers, Sequences, FiniteSets, FiniteSetsExt

CONSTANTS
    Tx,             \* transactions with their witnesses
    Txid, Wtxid,    \* Txid[t], Wtxid[t]
    Inputs,         \* Inputs[t], the outpoints t spends
    Big,            \* transactions above MAX_STANDARD_TX_WEIGHT
    MaxOrphans      \* -maxorphantx

ASSUME OrphanAssumption == Big \subseteq Tx /\ MaxOrphans \in Nat

Outpoint == (UNION {Inputs[t] : t \in Tx}) \cup {Txid[t] : t \in Tx}

EmptyOrphanage ==
    [orphans |-> [id \in {} |-> <<>>],          \* m_orphans, by txid
     list    |-> <<>>,                          \* m_orphan_list
     byPrev  |-> [op \in Outpoint |-> {}]]      \* m_outpoint_to_orphan_it

OrphanTx(o, id) == o.orphans[id].tx

AddTx(o, t, peer) ==
    LET id == Txid[t]
    IN  IF id \in DOMAIN o.orphans \/ t \in Big THEN o
        ELSE [orphans |-> [i \in DOMAIN o.orphans \cup {id} |->
                               IF i = id THEN [tx |-> t, from |-> peer, pos |-> Len(o.list) + 1]
                               ELSE o.orphans[i]],
              list    |-> Append(o.list, id),
              byPrev  |-> [op \in Outpoint |-> IF op \in Inputs[t] THEN o.byPrev[op] \cup {id}
                                                                 ELSE o.byPrev[op]]]

\* Mutated form: the entry that moves keeps its old position.
EraseTx_KeptPos(o, id) ==
    LET pos == o.orphans[id].pos
    IN  IF id \notin DOMAIN o.orphans THEN o
        ELSE [orphans |-> [i \in DOMAIN o.orphans \ {id} |-> o.orphans[i]],
              list    |-> SubSeq([o.list EXCEPT ![pos] = o.list[Len(o.list)]], 1, Len(o.list) - 1),
              byPrev  |-> [op \in Outpoint |-> o.byPrev[op] \ {id}]]

\* The last entry of the list moves to the position that becomes free.
EraseTx(o, id) ==
    LET pos  == o.orphans[id].pos
        last == o.list[Len(o.list)]
        rest == DOMAIN o.orphans \ {id}
    IN  IF id \notin DOMAIN o.orphans THEN o
        ELSE [orphans |-> [i \in rest |-> IF i = last THEN [o.orphans[i] EXCEPT !.pos = pos]
                                                      ELSE o.orphans[i]],
              list    |-> SubSeq([o.list EXCEPT ![pos] = last], 1, Len(o.list) - 1),
              byPrev  |-> [op \in Outpoint |-> IF op \in Inputs[OrphanTx(o, id)]
                                               THEN o.byPrev[op] \ {id} ELSE o.byPrev[op]]]

EraseAll(o, ids) == FoldSet(LAMBDA id, acc : EraseTx(acc, id), o, ids)

EraseForPeer(o, peer) ==
    EraseAll(o, {id \in DOMAIN o.orphans : o.orphans[id].from = peer})

\* The orphans that the transactions of a block include or conflict with.
EraseForBlock(o, block) ==
    EraseAll(o, UNION {o.byPrev[op] : op \in UNION {Inputs[t] : t \in block}})

\* The orphanages LimitOrphans may leave: any of the orphans older than the
\* one just added may have expired, and the one evicted is drawn at random.
LimitOrphans(o, new) ==
    UNION {LET swept == EraseAll(o, expired)
           IN  IF Len(swept.list) > MaxOrphans
               THEN {EraseTx(swept, swept.list[i]) : i \in 1..Len(swept.list)}
               ELSE {swept}
           : expired \in SUBSET (DOMAIN o.orphans \ {new})}

\* Mutated form: children are looked up by the wtxid.
Children_ByWtxid(o, t) == UNION {o.byPrev[op] : op \in Outpoint \cap {Wtxid[t]}}

\* The orphans that AddChildrenToWorkSet adds for an accepted transaction.
Children(o, t) == o.byPrev[Txid[t]]

HaveOrphan(o, hash, isWtxid) ==
    \E id \in DOMAIN o.orphans : hash = IF isWtxid THEN Wtxid[OrphanTx(o, id)] ELSE id
=============================================================================
