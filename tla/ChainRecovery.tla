----------------------------- MODULE ChainRecovery -----------------------------
(***************************************************************************)
(* How a chainstate survives a crash: blocks are connected to and          *)
(* disconnected from the coins cache in memory, FlushStateToDisk writes    *)
(* the block index and then the coins, the coins in several batches, and   *)
(* a process that dies between two batches leaves a coins database         *)
(* between two blocks which ReplayBlocks has to repair at the next start.  *)
(*                                                                         *)
(* A coin is the height of the block that created it, which is all that    *)
(* an undo record and DisconnectBlock tell apart for one outpoint.  The    *)
(* caches above the database are those of CoinsCache, taken by what they   *)
(* promise: a flush brings to the database every entry that differs.       *)
(***************************************************************************)
EXTENDS BlockTree, Sequences

CONSTANTS
    Outpoint, Pegin,    \* what coins and claimed peg-ins are filed under
    Txs,                \* the transactions of each block, in order
    NoUndo,             \* a block without undo data
    GenesisOutputs,     \* consensus.connect_genesis_outputs
    PruneMode,          \* fPruneMode
    MinBlocksToKeep     \* MIN_BLOCKS_TO_KEEP

NoCoin == -1
Status == {"known", "data", "undo"}     \* in the block index, BLOCK_HAVE_DATA, BLOCK_HAVE_UNDO

Height == [b \in Block |-> Cardinality(Chain[b]) - 1]

Tx == [coinbase : BOOLEAN, vin : SUBSET Outpoint, pegin : SUBSET Pegin, vout : SUBSET Outpoint]

\* CheckBlock has seen to it that the first transaction of a block, and no other, is its
\* coinbase; an outpoint names the transaction that creates it.
ASSUME TxAssumption ==
    /\ Txs \in [Block -> Seq(Tx)]
    /\ \A b \in Block : \A i, j \in DOMAIN Txs[b] :
           /\ Txs[b][i].coinbase <=> i = 1
           /\ i # j => Txs[b][i].vout \cap Txs[b][j].vout = {}
    /\ NoUndo \notin Seq(UNION {[S -> Int] : S \in SUBSET Outpoint})

ASSUME ConfigAssumption ==
    /\ GenesisOutputs \in BOOLEAN
    /\ PruneMode \in BOOLEAN
    /\ MinBlocksToKeep \in Nat

VARIABLES
    mode,       \* "down", "running", "flushing", "replaying", "failed"
    view,       \* coins and claimed peg-ins as the cache over the database sees them
    best,       \* the block they describe: the tip of the active chain
    index,      \* nStatus of every known block, in memory
    rev,        \* the undo data in the rev files
    diskIndex,  \* nStatus as the block index database has it
    db,         \* the coins database: its coins and peg-ins,
    dbBest,     \*   its best block
    dbHeads,    \*   and its head blocks
    pending     \* the keys of the flush in progress that no batch has written yet

coinsDB == <<db, dbBest, dbHeads>>
vars == <<mode, view, best, index, rev, diskIndex, coinsDB, pending>>
memory == <<view, best, index, rev>>

Coin == {NoCoin, 0} \cup {Height[b] : b \in Block}
Utxo == [coins : [Outpoint -> Coin], pegins : SUBSET Pegin]
NoCoins == [coins |-> [o \in Outpoint |-> NoCoin], pegins |-> {}]

\* Every variable has its type: a coin, in memory and in the database, has the height of a block.
TypeOK ==
    /\ mode \in {"down", "running", "flushing", "replaying", "failed"}
    /\ view \in Utxo
    /\ best \in Block \cup {NoBlock}
    /\ index \in [Block -> SUBSET Status]
    /\ diskIndex \in [Block -> SUBSET Status]
    /\ DOMAIN rev = Block
    /\ db \in Utxo
    /\ dbBest \in Block \cup {NoBlock}
    /\ dbHeads \in {<<>>} \cup (Block \X (Block \cup {NoBlock}))
    /\ pending \subseteq Outpoint \cup Pegin

-----------------------------------------------------------------------------
(* Connecting and disconnecting a block.                                   *)

AddCoins(u, S, h) ==
    [coins |-> [o \in Outpoint |-> IF o \in S THEN h ELSE u.coins[o]], pegins |-> u.pegins]

SpendCoins(u, S) ==
    [coins |-> [o \in Outpoint |-> IF o \in S THEN NoCoin ELSE u.coins[o]], pegins |-> u.pegins]

CheckTxInputs(u, tx) ==
    /\ \A o \in tx.vin : u.coins[o] # NoCoin
    /\ tx.pegin \cap u.pegins = {}

UpdateCoins(u, tx, h) ==
    AddCoins([coins |-> SpendCoins(u, tx.vin).coins, pegins |-> u.pegins \cup tx.pegin], tx.vout, h)

\* c collects what the loop over the transactions of a block works on: the
\* view, the undo data, and whether every check passed.
ConnectTx(c, tx, h) ==
    IF tx.coinbase
    THEN [ok |-> c.ok, utxo |-> AddCoins(c.utxo, tx.vout, h), undo |-> c.undo]
    ELSE [ok   |-> c.ok /\ CheckTxInputs(c.utxo, tx),
          utxo |-> UpdateCoins(c.utxo, tx, h),
          undo |-> Append(c.undo, [o \in tx.vin |-> c.utxo.coins[o]])]

\* No output of the block may overwrite an unspent coin (BIP30).
NoOverwrite(b, u) ==
    \A i \in DOMAIN Txs[b] : \A o \in Txs[b][i].vout : u.coins[o] = NoCoin

\* The loop: what the first i transactions leave.
ConnectTxs(b, u) ==
    LET c[i \in 0 .. Len(Txs[b])] ==
            IF i = 0 THEN [ok |-> NoOverwrite(b, u), utxo |-> u, undo |-> <<>>]
            ELSE ConnectTx(c[i - 1], Txs[b][i], Height[b])
    IN  c

\* The genesis block is not validated, and its outputs are connected on some chains only.
ConnectBlock(b, u) ==
    IF b = Genesis
    THEN [ok |-> TRUE, undo |-> <<>>,
          utxo |-> IF GenesisOutputs
                   THEN AddCoins(u, UNION {Txs[b][i].vout : i \in DOMAIN Txs[b]}, 0)
                   ELSE u]
    ELSE ConnectTxs(b, u)[Len(Txs[b])]

\* The outputs must be there as the block made them, the restored coins must
\* not be there yet and the peg-ins must be marked: otherwise "unclean".
ApplyTxInUndo(c, tx, undo) ==
    [clean |-> /\ c.clean
               /\ \A o \in tx.vin : c.utxo.coins[o] = NoCoin
               /\ tx.pegin \subseteq c.utxo.pegins,
     utxo  |-> [coins  |-> [o \in Outpoint |-> IF o \in tx.vin THEN undo[o] ELSE c.utxo.coins[o]],
                pegins |-> c.utxo.pegins \ tx.pegin]]

DisconnectTx(c, tx, h, undo) ==
    LET spent == [clean |-> c.clean /\ \A o \in tx.vout : c.utxo.coins[o] = h,
                  utxo  |-> SpendCoins(c.utxo, tx.vout)]
    IN  IF tx.coinbase THEN spent ELSE ApplyTxInUndo(spent, tx, undo)

\* The loop goes backwards: what is left when the last k transactions are undone.  The
\* first transaction of a block is its coinbase and has no undo record.
DisconnectTxs(b, u, undo) ==
    LET d[k \in 0 .. Len(Txs[b])] ==
            IF k = 0 THEN [clean |-> TRUE, utxo |-> u]
            ELSE LET i == Len(Txs[b]) + 1 - k
                 IN  DisconnectTx(d[k - 1], Txs[b][i], Height[b], IF i = 1 THEN NoUndo ELSE undo[i - 1])
    IN  d

DisconnectBlock(b, u, undo) == DisconnectTxs(b, u, undo)[Len(Txs[b])]

\* RollforwardBlock spends the inputs and adds the outputs without any check.
\* A peg-in input names an output of the parent chain: SpendCoin finds no coin
\* there, and nothing else is done about it.
RollforwardTxs(b, u) ==
    LET v[i \in 0 .. Len(Txs[b])] ==
            IF i = 0 THEN u
            ELSE LET tx == Txs[b][i]
                 IN  AddCoins(IF tx.coinbase THEN v[i - 1] ELSE SpendCoins(v[i - 1], tx.vin),
                              tx.vout, Height[b])
    IN  v

RollforwardBlock(b, u) == RollforwardTxs(b, u)[Len(Txs[b])]

-----------------------------------------------------------------------------
(* The running node.                                                       *)

Init ==
    /\ mode = "down"
    /\ view = NoCoins
    /\ best = NoBlock
    /\ index = [b \in Block |-> {}]
    /\ rev = [b \in Block |-> NoUndo]
    /\ diskIndex = index
    /\ db = NoCoins
    /\ dbBest = NoBlock
    /\ dbHeads = <<>>
    /\ pending = {}

\* AcceptBlock stores a block it does not have.  Blocks arrive in any order,
\* the headers below them before them.
AcceptBlock(b) ==
    /\ mode = "running"
    /\ "data" \notin index[b]
    /\ index' = [a \in Block |-> IF a = b THEN index[a] \cup {"known", "data"}
                              ELSE IF a \in Chain[b] THEN index[a] \cup {"known"}
                              ELSE index[a]]
    /\ UNCHANGED <<mode, view, best, rev, diskIndex, coinsDB, pending>>

\* Mutated form: the undo data is written and its position is not recorded.
WriteUndoDataForBlock_Unrecorded(b, undo) ==
    /\ rev' = [rev EXCEPT ![b] = undo]
    /\ UNCHANGED index

\* Undo data is written only for a block that has none on record.
WriteUndoDataForBlock(b, undo) ==
    IF b = Genesis \/ "undo" \in index[b]
    THEN UNCHANGED <<index, rev>>
    ELSE /\ rev' = [rev EXCEPT ![b] = undo]
         /\ index' = [index EXCEPT ![b] = @ \cup {"undo"}]

ConnectTip(b) ==
    LET c == ConnectBlock(b, view)
    IN  /\ mode = "running"
        /\ best = (IF b = Genesis THEN NoBlock ELSE Parent[b])
        /\ "data" \in index[b]
        /\ c.ok
        /\ WriteUndoDataForBlock(b, c.undo)
        /\ view' = c.utxo
        /\ best' = b
        /\ UNCHANGED <<mode, diskIndex, coinsDB, pending>>

\* DisconnectTip gives up on a block it cannot read or that is not undone cleanly.
DisconnectTip ==
    /\ mode = "running"
    /\ best \notin {NoBlock, Genesis}
    /\ index[best] = Status
    /\ LET d == DisconnectBlock(best, view, rev[best])
       IN  d.clean /\ view' = d.utxo
    /\ best' = Parent[best]
    /\ UNCHANGED <<mode, index, rev, diskIndex, coinsDB, pending>>

\* FindFilesToPrune picks files whose blocks are all deep below the tip, and
\* PruneOneBlockFile takes their blocks off the index.
CanPrune(S) ==
    /\ PruneMode /\ best # NoBlock
    /\ \A b \in S : "data" \in index[b] /\ Height[b] <= Height[best] - MinBlocksToKeep

\* The keys a flush has to write: those whose value in memory is not the one
\* in the database.
Unwritten(u) ==
    {o \in Outpoint : u.coins[o] # db.coins[o]}
        \cup {p \in Pegin : (p \in u.pegins) # (p \in db.pegins)}

\* Mutated form: a full flush leaves the block index to the next periodic write.
FlushStateToDisk_CoinsOnly(full, pruned) ==
    /\ mode = "running"
    /\ pruned # {} => CanPrune(pruned)
    /\ index' = [b \in Block |-> IF b \in pruned THEN {"known"} ELSE index[b]]
    /\ IF (full \/ pruned # {}) /\ best # NoBlock
       THEN mode' = "flushing" /\ pending' = Unwritten(view) /\ UNCHANGED diskIndex
       ELSE diskIndex' = index' /\ UNCHANGED <<mode, pending>>
    /\ UNCHANGED <<view, best, rev, coinsDB>>

\* FlushStateToDisk, up to the write of the coins: it prunes, writes the block
\* index and unlinks the pruned files.  Then it returns, or goes on to flush
\* the coins, which it always does when it pruned.
FlushStateToDisk(full, pruned) ==
    /\ mode = "running"
    /\ pruned # {} => CanPrune(pruned)
    /\ index' = [b \in Block |-> IF b \in pruned THEN {"known"} ELSE index[b]]
    /\ diskIndex' = index'
    /\ IF (full \/ pruned # {}) /\ best # NoBlock
       THEN mode' = "flushing" /\ pending' = Unwritten(view)
       ELSE UNCHANGED <<mode, pending>>
    /\ UNCHANGED <<view, best, rev, coinsDB>>

\* Old tip of the transition a BatchWrite of the coins database marks.
OldTip == IF dbBest = NoBlock /\ dbHeads # <<>> THEN dbHeads[2] ELSE dbBest

WriteKeys(S) ==
    [coins  |-> [o \in Outpoint |-> IF o \in S THEN view.coins[o] ELSE db.coins[o]],
     pegins |-> (db.pegins \ S) \cup (view.pegins \cap S)]

\* Mutated form: the database is not marked as being in transition.
WritePartialBatch_Unmarked(S) ==
    /\ mode \in {"flushing", "replaying"}
    /\ S # {}
    /\ db' = WriteKeys(S)
    /\ pending' = pending \ S
    /\ UNCHANGED <<mode, memory, diskIndex, dbBest, dbHeads>>

\* Mutated form: the two head blocks in the wrong order.
WritePartialBatch_Swapped(S) ==
    /\ mode \in {"flushing", "replaying"}
    /\ S # {}
    /\ db' = WriteKeys(S)
    /\ dbBest' = NoBlock
    /\ dbHeads' = <<OldTip, best>>
    /\ pending' = pending \ S
    /\ UNCHANGED <<mode, memory, diskIndex>>

\* Any non-empty part of the flush may fill a batch; it is written together
\* with the head blocks, which replace the best block.
WritePartialBatch(S) ==
    /\ mode \in {"flushing", "replaying"}
    /\ S # {}
    /\ db' = WriteKeys(S)
    /\ dbBest' = NoBlock
    /\ dbHeads' = <<best, OldTip>>
    /\ pending' = pending \ S
    /\ UNCHANGED <<mode, memory, diskIndex>>

WriteFinalBatch ==
    /\ mode \in {"flushing", "replaying"}
    /\ db' = WriteKeys(pending)
    /\ dbBest' = best
    /\ dbHeads' = <<>>
    /\ pending' = {}
    /\ mode' = "running"
    /\ UNCHANGED <<memory, diskIndex>>

\* The process dies at any moment.  What it wrote stays, what it held is gone.
Crash ==
    /\ mode \in {"running", "flushing", "replaying"}
    /\ mode' = "down"
    /\ view' = NoCoins
    /\ best' = NoBlock
    /\ index' = [b \in Block |-> {}]
    /\ pending' = {}
    /\ UNCHANGED <<rev, diskIndex, coinsDB>>

-----------------------------------------------------------------------------
(* Starting up.                                                            *)

\* The block index comes from disk; LoadGenesisBlock adds the genesis block
\* when it is not there.
LoadBlockIndex == [diskIndex EXCEPT ![Genesis] = IF @ = {} THEN {"known", "data"} ELSE @]

\* Mutated form: start-up goes on without looking at the head blocks.
LoadChainTip_IgnoreHeads ==
    /\ mode = "down"
    /\ index' = LoadBlockIndex
    /\ view' = db
    /\ best' = dbBest
    /\ mode' = IF dbBest # NoBlock /\ diskIndex[dbBest] = {} THEN "failed" ELSE "running"
    /\ UNCHANGED <<rev, diskIndex, coinsDB, pending>>

\* With the coins database consistent, LoadChainTip takes the tip from it.
LoadChainTip ==
    /\ mode = "down"
    /\ dbHeads = <<>>
    /\ index' = LoadBlockIndex
    /\ view' = db
    /\ best' = dbBest
    /\ mode' = IF dbBest # NoBlock /\ diskIndex[dbBest] = {} THEN "failed" ELSE "running"
    /\ UNCHANGED <<rev, diskIndex, coinsDB, pending>>

\* The blocks ReplayBlocks rolls back and rolls forward to go from old to new.
\* With no old tip, rolling forward starts at height 1.
RollbackBlocks(old, new) == IF old = NoBlock THEN {} ELSE Chain[old] \ Chain[new]
RollforwardBlocks(old, new) == Chain[new] \ (IF old = NoBlock THEN {Genesis} ELSE Chain[old])

\* An unknown head, or a block or undo record that cannot be read, ends the
\* replay with an error; an unclean disconnect does not.
CanReplay(old, new) ==
    /\ diskIndex[new] # {}
    /\ old # NoBlock => diskIndex[old] # {}
    /\ \A b \in RollbackBlocks(old, new) : diskIndex[b] = Status
    /\ \A b \in RollforwardBlocks(old, new) : "data" \in diskIndex[b]

\* Along pprev from the old tip: what is left when the blocks above b are undone.
RolledBack(old) ==
    LET u[b \in Chain[old]] ==
            IF b = old THEN db
            ELSE LET c == CHOOSE a \in Chain[old] \ {Genesis} : Parent[a] = b
                 IN  DisconnectBlock(c, u[c], rev[c]).utxo
    IN  u

\* Up the chain of the new tip: what there is when b is applied to start, which is the
\* state at the fork, or at the genesis block.
RolledForward(old, new, start) ==
    LET v[b \in Chain[new]] ==
            IF b \in RollforwardBlocks(old, new) THEN RollforwardBlock(b, v[Parent[b]]) ELSE start
    IN  v

LastCommonAncestor(old, new) ==
    CHOOSE f \in Chain[old] \cap Chain[new] : Chain[old] \cap Chain[new] \subseteq Chain[f]

Replayed(old, new) ==
    LET start == IF old = NoBlock THEN db ELSE RolledBack(old)[LastCommonAncestor(old, new)]
    IN  RolledForward(old, new, start)[new]

\* ReplayBlocks works in a cache of its own, whose Flush brings the result to
\* the database as any flush does.
ReplayBlocks ==
    LET new == dbHeads[1]
        old == dbHeads[2]
    IN  /\ mode = "down"
        /\ dbHeads # <<>>
        /\ index' = LoadBlockIndex
        /\ IF CanReplay(old, new)
           THEN /\ mode' = "replaying"
                /\ view' = Replayed(old, new)
                /\ best' = new
                /\ pending' = Unwritten(view')
           ELSE /\ mode' = "failed"
                /\ UNCHANGED <<view, best, pending>>
        /\ UNCHANGED <<rev, diskIndex, coinsDB>>

Next ==
    \/ \E b \in Block : AcceptBlock(b)
    \/ \E b \in Block : ConnectTip(b)
    \/ DisconnectTip
    \/ \E full \in BOOLEAN, pruned \in SUBSET Block : FlushStateToDisk(full, pruned)
    \/ \E S \in SUBSET pending : WritePartialBatch(S)
    \/ WriteFinalBatch
    \/ Crash
    \/ LoadChainTip
    \/ ReplayBlocks

Spec == Init /\ [][Next]_vars

-----------------------------------------------------------------------------
(* Properties.                                                             *)

\* What the chain up to b leaves, by connecting its blocks one after another.
UtxoOf[b \in Block] ==
    ConnectBlock(b, IF b = Genesis THEN NoCoins ELSE UtxoOf[Parent[b]]).utxo

\* Whenever the node runs, the coins in its view are exactly those the active
\* chain leaves, whatever crashes and replays came before.
CoinsRecovered ==
    mode = "running" =>
        view.coins = (IF best = NoBlock THEN NoCoins ELSE UtxoOf[best]).coins

\* Whenever the node runs, the peg-ins marked spent are those the active chain
\* claims: a peg-in of the chain cannot be claimed a second time.
PeginsRecovered ==
    mode = "running" =>
        view.pegins = (IF best = NoBlock THEN NoCoins ELSE UtxoOf[best]).pegins

\* Whatever the moment of a crash, the next start finds the tip or, between
\* two batches, every block and undo record that the replay reads.
ReplayNeverFails == mode # "failed"

\* The tip can always be disconnected: its undo data is there and undoes it
\* cleanly, also when an earlier run of the node wrote it.
TipDisconnectable ==
    mode = "running" /\ best \notin {NoBlock, Genesis} =>
        /\ index[best] = Status
        /\ DisconnectBlock(best, view, rev[best]).clean

\* BatchWrite's assert(old_heads[0] == hashBlock): while the database is in
\* transition, only the block it is in transition to is ever flushed.
OldHeadsMatch ==
    mode \in {"flushing", "replaying"} /\ dbBest = NoBlock /\ dbHeads # <<>> =>
        dbHeads[1] = best

-----------------------------------------------------------------------------
(* The inductive invariant behind ReplayNeverFails and OldHeadsMatch.      *)

\* The blocks that can be read, undone and found again: all of a chain, since
\* a block gets its undo data only after its parent.
Full(idx) == {b \in Block : /\ {"known", "data"} \subseteq idx[b]
                            /\ b # Genesis => "undo" \in idx[b]}

StatusOK(idx) ==
    \A b \in Block : /\ "data" \in idx[b] => "known" \in idx[b]
                     /\ "undo" \in idx[b] => "data" \in idx[b]

IndexOK ==
    /\ index \in [Block -> SUBSET Status]
    /\ diskIndex \in [Block -> SUBSET Status]
    /\ StatusOK(index) /\ StatusOK(diskIndex)
    /\ ParentClosed(Full(index))
    /\ ParentClosed(Full(diskIndex))
    /\ mode # "down" => \A b \in Block : diskIndex[b] \subseteq index[b]

HeadsOK ==
    /\ best \in Block \cup {NoBlock}
    /\ mode # "down" /\ best # NoBlock => best \in Full(index)
    /\ mode \in {"flushing", "replaying"} => best \in Full(diskIndex)
    /\ dbBest \in Full(diskIndex) \cup {NoBlock}
    /\ dbHeads \in {<<>>} \cup (Full(diskIndex) \X (Full(diskIndex) \cup {NoBlock}))
    /\ dbHeads # <<>> => dbBest = NoBlock
    /\ mode = "running" => dbHeads = <<>>
    /\ mode # "down" /\ dbHeads # <<>> => dbHeads[1] = best

\* Without pruning, what the coins database names is on disk, complete.
ReplayInv ==
    /\ mode \in {"down", "running", "flushing", "replaying"}
    /\ IndexOK
    /\ HeadsOK

-----------------------------------------------------------------------------
(* The inductive invariant behind CoinsRecovered and TipDisconnectable.    *)

CoinsOf(b) == IF b = NoBlock THEN NoCoins.coins ELSE UtxoOf[b].coins

\* The undo data on record for b is what connecting b to its parent's coins gives, and b
\* overwrites none of them.
Undoable(b) ==
    /\ rev[b] = ConnectBlock(b, UtxoOf[Parent[b]]).undo
    /\ NoOverwrite(b, UtxoOf[Parent[b]])

UndoOK ==
    \A b \in Block : "undo" \in index[b] \cup diskIndex[b] => b # Genesis /\ Undoable(b)

\* At rest the coins database holds the coins of its best block; in transition every
\* coin is that of the old head or that of the new one.
DatabaseOK ==
    IF dbHeads = <<>>
    THEN db.coins = CoinsOf(dbBest)
    ELSE /\ dbBest = NoBlock
         /\ \A o \in Outpoint : db.coins[o] \in {CoinsOf(dbHeads[1])[o], CoinsOf(dbHeads[2])[o]}

\* The view holds the coins of its best block, and a flush leaves no difference behind.
ViewOK ==
    /\ mode \in {"running", "flushing", "replaying"} => view.coins = CoinsOf(best)
    /\ mode = "running" => dbHeads = <<>>
    /\ mode \in {"flushing", "replaying"} =>
           /\ best # NoBlock
           /\ dbHeads # <<>> => dbHeads[1] = best
           /\ \A o \in Outpoint \ pending : db.coins[o] = view.coins[o]

CoinsInv == TypeOK /\ UndoOK /\ DatabaseOK /\ ViewOK

===============================================================================
