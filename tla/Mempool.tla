------------------------------ MODULE Mempool ------------------------------
(***************************************************************************)
(* CTxMemPool with the chain it follows: acceptance, replacement, expiry    *)
(* and trimming, blocks that come and go, and the return of transactions    *)
(* from disconnected blocks.  cs_main and mempool.cs are held over a whole  *)
(* reorganisation; `phase' says where in it the node is.                    *)
(*                                                                          *)
(* A transaction is a model value with constant inputs and outputs, and has *)
(* size one.  Peg-ins are inputs of the parent chain.                       *)
(***************************************************************************)
EXTENDS DynaFed, SequencesExt

CONSTANTS
    Tx, NoTx,
    Coin,               \* outpoints that are unspent before the first block of interest
    Inputs, Outputs,    \* outpoints a transaction spends (peg-ins aside) and creates
    Pegins,             \* parent chain outpoints a transaction claims
    Fedpeg,             \* the entry whose fedpeg script its peg-ins pay to
    Pegout,             \* the entry whose PAK list covers its peg-outs, or NoParam
    Matures,            \* the first height it is final and its inputs are mature at
    Standard,           \* transactions that policy lets into the mempool
    Replaceable,        \* transactions that signal BIP 125
    Fee,
    Order,              \* the transactions, parents before children
    InitChains,         \* chains of headers the node may start from
    Blocks,             \* sets of transactions that new blocks hold
    Votes,              \* proposals that new blocks make
    Prioritised,        \* transactions the operator prioritises, once each
    Expirable,          \* transactions that may get old
    IncrementalFee, MaxAncestors, MaxDescendants, MaxReplaced, MaxPool, MaxDisconnected,
    MaxHeight           \* bound on the height of the tip

VARIABLES
    chain,      \* the headers of the active chain
    vtx,        \* the transactions of the blocks connected since the start, in order
    pool,       \* the mempool
    queue,      \* disconnectpool, the earliest insertion first
    phase       \* "idle", "disconnected", "connected" (in a reorganisation), "trim"

vars == <<chain, vtx, pool, queue, phase>>

ASSUME TxAssumption == NoTx \notin Tx
ASSUME ChainAssumption == (\A c \in InitChains : ChainOK(c)) /\ Votes \subseteq Param \cup {NoParam}

Outpoint == Coin \cup UNION {Inputs[t] \cup Outputs[t] \cup Pegins[t] : t \in Tx}

Spends(t) == Inputs[t] \cup Pegins[t]

-----------------------------------------------------------------------------
(* The coins and peg-ins of the active chain. *)

Confirmed == UNION {ToSet(vtx[i]) : i \in DOMAIN vtx}

Unspent == (Coin \cup UNION {Outputs[t] : t \in Confirmed}) \ UNION {Inputs[t] : t \in Confirmed}

IsPeginSpent(p) == \E t \in Confirmed : p \in Pegins[t]

IsPAKValidTx(t, list) == Pegout[t] \in {NoParam, list}

IsValidPeginWitness(t, scripts) == Pegins[t] = {} \/ Fedpeg[t] \in scripts

-----------------------------------------------------------------------------
(* CTxMemPool: entry has a record for every transaction in the pool, next is *)
(* mapNextTx and delta mapDeltas.                                            *)

Txs(m) == DOMAIN m.entry

Fees(m, S) == MapThenSumSet(LAMBDA u : m.entry[u].fee, S)

\* Everything that can be reached from S over the links.
Closure(S, all, Links(_)) ==
    LET within[n \in 0..Cardinality(all)] ==
            IF n = 0 THEN S ELSE LET near == within[n - 1] IN near \cup UNION {Links(u) : u \in near}
    IN within[Cardinality(all)]

CalculateDescendants(m, S) == Closure(S, Txs(m), LAMBDA u : m.entry[u].children)

ParentsInPool(m, t) == {u \in Txs(m) : Outputs[u] \cap Inputs[t] # {}}

\* CalculateMemPoolAncestors of a transaction, from the parents found by its inputs
\* or from those its entry names.
Ancestors(m, parents) == Closure(parents, Txs(m), LAMBDA u : m.entry[u].parents)

Modify(m, S, F(_)) ==
    [m EXCEPT !.entry = [u \in Txs(m) |-> IF u \in S THEN F(m.entry[u]) ELSE m.entry[u]]]

UpdateDescendantState(m, S, fee, count) ==
    Modify(m, S, LAMBDA e : [e EXCEPT !.descFee = @ + fee, !.desc = @ + count])

UpdateAncestorState(m, S, fee, count) ==
    Modify(m, S, LAMBDA e : [e EXCEPT !.ancFee = @ + fee, !.anc = @ + count])

ClearPrioritisation(m, t) == [m EXCEPT !.delta[t] = 0]

\* addUnchecked with the ancestors the acceptance found: the new entry has no children.
addUnchecked(m, t, ancestors) ==
    LET fee     == Fee[t] + m.delta[t]
        parents == ParentsInPool(m, t)
        entry   == [fee |-> fee, parents |-> parents, children |-> {},
                    anc |-> 1 + Cardinality(ancestors), ancFee |-> fee + Fees(m, ancestors),
                    desc |-> 1, descFee |-> fee]
        added   == [m EXCEPT !.entry = [u \in Txs(m) \cup {t} |-> IF u = t THEN entry ELSE m.entry[u]],
                             !.next = [o \in Outpoint |->
                                         IF o \in Spends(t) /\ m.next[o] = NoTx THEN t ELSE m.next[o]]]
        linked  == Modify(added, parents, LAMBDA e : [e EXCEPT !.children = @ \cup {t}])
    IN UpdateDescendantState(linked, ancestors, fee, 1)

\* UpdateForRemoveFromMempool and removeUnchecked.  The ancestors are those the links name:
\* in a reorganisation a search by inputs would find more.  The state of descendants is
\* updated only when they stay.
RemoveStaged(m, stage, updateDescendants) ==
    LET above(u) == {r \in stage : updateDescendants /\ u \in CalculateDescendants(m, {r})}
        below(u) == {r \in stage : u \in Ancestors(m, m.entry[r].parents)}
    IN [m EXCEPT
          !.entry = [u \in Txs(m) \ stage |->
              [m.entry[u] EXCEPT
                  !.parents  = @ \ {r \in stage : u \in m.entry[r].children},
                  !.children = @ \ {r \in stage : u \in m.entry[r].parents},
                  !.anc      = @ - Cardinality(above(u)),
                  !.ancFee   = @ - Fees(m, above(u)),
                  !.desc     = @ - Cardinality(below(u)),
                  !.descFee  = @ - Fees(m, below(u))]],
          !.next = [o \in Outpoint |-> IF \E r \in stage : o \in Spends(r) THEN NoTx ELSE m.next[o]]]

RemoveWithDescendants(m, S) == RemoveStaged(m, CalculateDescendants(m, S), FALSE)

\* removeRecursive: of a transaction that is not in the pool the spenders go.
removeRecursive(m, t) ==
    RemoveWithDescendants(m, IF t \in Txs(m) THEN {t} ELSE {m.next[o] : o \in Outputs[t]} \ {NoTx})

\* removeConflicts: whoever spends an input of t, an ordinary one or a peg-in.
removeConflicts(m, t) ==
    LET conflict(n, o) == IF n.next[o] \in {NoTx, t} THEN n
                          ELSE removeRecursive(ClearPrioritisation(n, n.next[o]), n.next[o])
    IN FoldSet(LAMBDA o, n : conflict(n, o), m, Spends(t))

\* Mutated form: the pool is checked in the first block of an epoch instead of the last.
removeForBlock_Late(m, txs, c) ==
    LET confirm(n, t) ==
            ClearPrioritisation(
                removeConflicts(IF t \in Txs(n) THEN RemoveStaged(n, {t}, TRUE) ELSE n, t), t)
        rest    == FoldLeft(confirm, m, txs)
        invalid == {t \in Txs(rest) :
                       \/ ~IsPAKValidTx(t, GetActivePAKList(c))
                       \/ ~IsValidPeginWitness(t, GetValidFedpegScripts(c, TRUE))}
    IN IF EpochAge(TipHeight(c)) = 0
       THEN FoldSet(LAMBDA t, n : ClearPrioritisation(removeRecursive(n, t), t), rest, invalid)
       ELSE rest

\* removeForBlock, with the chain that ends in the block: the block's transactions and
\* their conflicts go, and before a new epoch what the next block may not hold.
removeForBlock(m, txs, c) ==
    LET confirm(n, t) ==
            ClearPrioritisation(
                removeConflicts(IF t \in Txs(n) THEN RemoveStaged(n, {t}, TRUE) ELSE n, t), t)
        rest    == FoldLeft(confirm, m, txs)
        invalid == {t \in Txs(rest) :
                       \/ ~IsPAKValidTx(t, GetActivePAKList(c))
                       \/ ~IsValidPeginWitness(t, GetValidFedpegScripts(c, TRUE))}
    IN IF EpochAge(NextHeight(c)) = 0
       THEN FoldSet(LAMBDA t, n : ClearPrioritisation(removeRecursive(n, t), t), rest, invalid)
       ELSE rest

\* removeForReorg: what is no longer final or mature, and every peg-in and peg-out.
removeForReorg(m) ==
    RemoveWithDescendants(m, {t \in Txs(m) : \/ Matures[t] > NextHeight(chain)
                                             \/ Pegout[t] # NoParam
                                             \/ Pegins[t] # {}})

\* Mutated form: descendants that came back with t are counted again.
UpdateForDescendants_All(m, t, exclude) ==
    LET below == CalculateDescendants(m, {t}) \ {t}
    IN UpdateDescendantState(
           UpdateAncestorState(m, below, m.entry[t].fee, 1), {t}, Fees(m, below), Cardinality(below))

\* UpdateForDescendants: t learns of its descendants that are not from a block as well.
UpdateForDescendants(m, t, exclude) ==
    LET below == CalculateDescendants(m, {t}) \ ({t} \cup exclude)
    IN UpdateDescendantState(
           UpdateAncestorState(m, below, m.entry[t].fee, 1), {t}, Fees(m, below), Cardinality(below))

\* UpdateTransactionsFromBlock: the transactions that came back, latest first, are linked
\* with the children they have in the pool.
UpdateTransactionsFromBlock(m, txs) ==
    LET exclude == ToSet(txs)
        update(n, t) ==
            LET kids   == {n.next[o] : o \in Outputs[t]} \ ({NoTx} \cup exclude)
                linked == Modify(Modify(n, {t}, LAMBDA e : [e EXCEPT !.children = @ \cup kids]),
                                 kids, LAMBDA e : [e EXCEPT !.parents = @ \cup {t}])
            IN IF t \in Txs(n) THEN UpdateForDescendants(linked, t, exclude) ELSE n
    IN FoldLeft(update, m, Reverse(txs))

-----------------------------------------------------------------------------
(* MemPoolAccept. *)

Conflicts(m, t) == {m.next[o] : o \in Spends(t)} \ {NoTx}

\* The chain limits of CalculateMemPoolAncestors.
WithinLimits(m, ancestors, maxAncestors, maxDescendants) ==
    /\ Cardinality(ancestors) + 1 <= maxAncestors
    /\ \A u \in ancestors : m.entry[u].desc + 1 <= maxDescendants

\* A replacement of one transaction gets room for it, and a transaction with one ancestor
\* may use the carve-out.
ChainLimits(m, t, ancestors) ==
    LET descendants == MaxDescendants + (IF Cardinality(Conflicts(m, t)) = 1 THEN 1 ELSE 0)
    IN \/ WithinLimits(m, ancestors, MaxAncestors, descendants)
       \/ WithinLimits(m, ancestors, 2, descendants + 1)

\* The rules of BIP 125 for replacing the conflicts.
MayReplace(m, t) ==
    LET conflicts == Conflicts(m, t)
        fee       == Fee[t] + m.delta[t]
        parents   == {u \in Tx : \E r \in conflicts : Outputs[u] \cap Inputs[r] # {}}
    IN conflicts # {} =>
         /\ \A r \in conflicts : fee > m.entry[r].fee
         /\ MapThenSumSet(LAMBDA r : m.entry[r].desc, conflicts) <= MaxReplaced
         /\ ParentsInPool(m, t) \subseteq parents
         /\ fee - Fees(m, CalculateDescendants(m, conflicts)) >= IncrementalFee

PreChecks(m, t) ==
    LET ancestors == Ancestors(m, ParentsInPool(m, t)) IN
    /\ t \in Standard
    /\ t \notin Txs(m)
    /\ Matures[t] <= NextHeight(chain)
    /\ Inputs[t] \subseteq Unspent \cup UNION {Outputs[u] : u \in Txs(m)}
    /\ IsPAKValidTx(t, GetActivePAKList(chain))
    /\ Conflicts(m, t) \subseteq Replaceable
    /\ IsValidPeginWitness(t, GetValidFedpegScripts(chain, TRUE))
    /\ \A p \in Pegins[t] : ~IsPeginSpent(p)
    /\ ChainLimits(m, t, ancestors)
    /\ ancestors \cap Conflicts(m, t) = {}
    /\ MayReplace(m, t)

\* Finalize: the conflicts and their descendants make room for the transaction.
Finalize(m, t) ==
    addUnchecked(RemoveWithDescendants(m, Conflicts(m, t)), t, Ancestors(m, ParentsInPool(m, t)))

\* LimitMempoolSize expires the old transactions and leaves the rest to Trim.
LimitMempoolSize(m, old) ==
    /\ pool' = RemoveWithDescendants(m, old \cap Txs(m))
    /\ phase' = IF Cardinality(Txs(pool')) > MaxPool THEN "trim" ELSE "idle"

-----------------------------------------------------------------------------
(* The steps. *)

Init ==
    /\ chain \in InitChains
    /\ vtx = <<>>
    /\ pool = [entry |-> <<>>, next |-> [o \in Outpoint |-> NoTx], delta |-> [t \in Tx |-> 0]]
    /\ queue = <<>>
    /\ phase = "idle"

AcceptToMemoryPool(t, old) ==
    /\ phase = "idle"
    /\ PreChecks(pool, t)
    /\ LimitMempoolSize(Finalize(pool, t), old \ {t})
    /\ UNCHANGED <<chain, vtx, queue>>

\* The sort key of descendant_score: the better of the fee rates of a transaction alone and
\* with its descendants.
DescendantScore(e) ==
    IF e.descFee > e.fee * e.desc THEN [fee |-> e.descFee, size |-> e.desc] ELSE [fee |-> e.fee, size |-> 1]

\* One round of TrimToSize: the package with the lowest score goes.
Trim(t) ==
    /\ phase = "trim"
    /\ t \in Txs(pool)
    /\ LET score(u) == DescendantScore(pool.entry[u])
       IN \A u \in Txs(pool) : score(t).fee * score(u).size <= score(u).fee * score(t).size
    /\ LimitMempoolSize(RemoveWithDescendants(pool, {t}), {})
    /\ UNCHANGED <<chain, vtx, queue>>

PrioritiseTransaction(t) ==
    /\ phase = "idle"
    /\ pool.delta[t] = 0
    /\ LET noted     == [pool EXCEPT !.delta[t] = 1]
           ancestors == Ancestors(pool, pool.entry[t].parents)
           below     == CalculateDescendants(pool, {t}) \ {t}
           self      == Modify(noted, {t}, LAMBDA e :
                            [e EXCEPT !.fee = Fee[t] + 1,
                                      !.ancFee = @ + (Fee[t] + 1 - e.fee),
                                      !.descFee = @ + (Fee[t] + 1 - e.fee)])
       IN pool' = IF t \in Txs(pool)
                  THEN UpdateAncestorState(UpdateDescendantState(self, ancestors, 1, 0), below, 1, 0)
                  ELSE noted
    /\ UNCHANGED <<chain, vtx, queue, phase>>

\* ConnectBlock: what the rules of the block itself allow; c ends in its header.
BlockValid(txs, c) ==
    /\ \A t \in txs :
         /\ Inputs[t] \subseteq Unspent \cup UNION {Outputs[u] : u \in txs}
         /\ Matures[t] <= TipHeight(c)
         /\ \A u \in txs \ {t} : Spends(t) \cap Spends(u) = {}
         /\ \A p \in Pegins[t] : ~IsPeginSpent(p)
         /\ IsValidPeginWitness(t, GetValidFedpegScripts(c, FALSE))
    /\ Last(c).current # NoParam => \A t \in txs : IsPAKValidTx(t, GetActivePAKList(chain))

ConnectTip(txs, vote) ==
    /\ phase \in {"idle", "disconnected", "connected"}
    /\ TipHeight(chain) < MaxHeight
    /\ LET c  == Append(chain, ComputeNextBlockHeader(chain, vote))
           ts == SelectSeq(Order, LAMBDA t : t \in txs)
       IN /\ BlockValid(txs, c)
          /\ chain' = c
          /\ vtx' = Append(vtx, ts)
          /\ pool' = removeForBlock(pool, ts, c)
    /\ queue' = SelectSeq(queue, LAMBDA t : t \notin txs)
    /\ phase' = IF phase = "idle" THEN "idle" ELSE "connected"

\* The transactions of the block wait in the queue; what does not fit is given up, with the
\* transactions of the pool that spend it.
DisconnectTip ==
    /\ phase \in {"idle", "disconnected"}
    /\ TipHeight(chain) > 0 /\ vtx # <<>>
    /\ LET waiting == queue \o Reverse(Last(vtx))
           over    == Max({0, Len(waiting) - MaxDisconnected})
       IN /\ queue' = SubSeq(waiting, over + 1, Len(waiting))
          /\ pool' = FoldLeft(removeRecursive, pool, SubSeq(waiting, 1, over))
    /\ chain' = Front(chain)
    /\ vtx' = Front(vtx)
    /\ phase' = "disconnected"

\* The queue goes back through the acceptance, the earliest transaction first; `back' are
\* those that made it.
Resurrect(s, t) ==
    IF PreChecks(s.pool, t)
    THEN [pool |-> Finalize(s.pool, t), back |-> Append(s.back, t)]
    ELSE [s EXCEPT !.pool = removeRecursive(@, t)]

Drop(s, t) == [s EXCEPT !.pool = removeRecursive(@, t)]

\* Mutated form: the queue is worked through in the order of insertion.
MaybeUpdateMempoolForReorg_Forward(addToMempool, old) ==
    /\ phase \in {"disconnected", "connected"}
    /\ LET start == [pool |-> pool, back |-> <<>>]
           s == IF addToMempool THEN FoldLeft(Resurrect, start, queue)
                ELSE FoldLeft(Drop, start, queue)
       IN LimitMempoolSize(removeForReorg(UpdateTransactionsFromBlock(s.pool, s.back)), old \ ToSet(s.back))
    /\ queue' = <<>>
    /\ UNCHANGED <<chain, vtx>>

MaybeUpdateMempoolForReorg(addToMempool, old) ==
    /\ phase \in {"disconnected", "connected"}
    /\ LET start == [pool |-> pool, back |-> <<>>]
           s == IF addToMempool THEN FoldLeft(Resurrect, start, Reverse(queue))
                ELSE FoldLeft(Drop, start, Reverse(queue))
       IN LimitMempoolSize(removeForReorg(UpdateTransactionsFromBlock(s.pool, s.back)), old \ ToSet(s.back))
    /\ queue' = <<>>
    /\ UNCHANGED <<chain, vtx>>

Next ==
    \/ \E t \in Tx, old \in SUBSET Expirable : AcceptToMemoryPool(t, old)
    \/ \E t \in Tx : Trim(t)
    \/ \E t \in Prioritised : PrioritiseTransaction(t)
    \/ \E txs \in Blocks, vote \in Votes : ConnectTip(txs, vote)
    \/ DisconnectTip
    \/ \E add \in BOOLEAN, old \in SUBSET Expirable : MaybeUpdateMempoolForReorg(add, old)

Spec == Init /\ [][Next]_vars

-----------------------------------------------------------------------------
(* Properties. *)

\* The counts and fee sums of every entry are those of the ancestors and descendants its
\* links lead to, also half way through a reorganisation, where RemoveStaged relies on it;
\* once the node is done the links are those the inputs give and mapNextTx names the spender
\* of every input (what CTxMemPool::check asserts).
PoolConsistent ==
    /\ \A t \in Txs(pool) :
         LET e     == pool.entry[t]
             above == Ancestors(pool, e.parents)
             below == CalculateDescendants(pool, {t})
         IN /\ e.anc = Cardinality(above) + 1 /\ e.ancFee = Fees(pool, above) + e.fee
            /\ e.desc = Cardinality(below) /\ e.descFee = Fees(pool, below)
            /\ e.fee = Fee[t] + pool.delta[t]
    /\ phase \in {"idle", "trim"} =>
         \A t \in Txs(pool) : /\ pool.entry[t].parents = ParentsInPool(pool, t)
                              /\ pool.entry[t].children = {u \in Txs(pool) : t \in ParentsInPool(pool, u)}
    /\ \A o \in Outpoint : {pool.next[o]} \ {NoTx} = {t \in Txs(pool) : o \in Spends(t)}

\* Outside a reorganisation the next block could take the whole mempool: every input is
\* unspent or created in the pool and spent once, no peg-in has been claimed, and peg-ins and
\* peg-outs satisfy the parameters the next block will be judged by.  removeForBlock drops the
\* conflicts of a block, and once an epoch what the new parameters refuse.
PoolMinable ==
    phase \in {"idle", "trim"} =>
        \A t \in Txs(pool) :
            /\ Inputs[t] \subseteq Unspent \cup UNION {Outputs[u] : u \in Txs(pool)}
            /\ \A u \in Txs(pool) \ {t} : Spends(t) \cap Spends(u) = {}
            /\ \A p \in Pegins[t] : ~IsPeginSpent(p)
            /\ IsValidPeginWitness(t, GetValidFedpegScripts(chain, TRUE))
            /\ IsPAKValidTx(t, GetActivePAKList(chain))
            /\ Matures[t] <= NextHeight(chain)

\* A reorganisation returns to the pool every transaction of a disconnected block that can
\* still be mined, peg-ins, peg-outs and what depends on them aside; nothing is lost to the
\* order in which the queue is worked through.
ResurrectedKept ==
    [][/\ phase \in {"disconnected", "connected"}
       /\ Len(queue) <= MaxAncestors /\ Len(queue) <= MaxDescendants
       /\ MaybeUpdateMempoolForReorg(TRUE, {})
       => \A t \in ToSet(queue) \cap Standard :
            /\ Pegins[t] = {} /\ Pegout[t] = NoParam /\ Matures[t] <= NextHeight(chain)
            /\ Inputs[t] \subseteq Unspent \cup UNION {Outputs[u] : u \in Txs(pool')}
            => t \in Txs(pool')]_vars

\* The rules the mempool applies for the next block are those the block is judged by, and
\* they change only after the blocks at which removeForBlock checks the pool again: the
\* fedpeg scripts of GetValidFedpegScripts and the PAK list of GetActivePAKList.
NextBlockRules ==
    [][Len(chain') > Len(chain) =>
        /\ GetValidFedpegScripts(chain', FALSE) = GetValidFedpegScripts(chain, TRUE)
        /\ EpochAge(NextHeight(chain')) # 0 =>
             /\ GetValidFedpegScripts(chain', TRUE) = GetValidFedpegScripts(chain, TRUE)
             /\ GetActivePAKList(chain') = GetActivePAKList(chain)]_vars

\* The parameters in force at every block follow from those of its parent and the votes alone:
\* they change at an epoch start only, to an entry that at least four fifths (rounded down) of
\* the epoch before proposed, and they do change when there is one.
ParamsFollowVotes == VotesDecide(chain)
=============================================================================
