-------------------------- MODULE ChainRecoveryProofs --------------------------
(***************************************************************************)
(* Proofs about ChainRecovery, for every block tree and all transactions.  *)
(* ReplayInv: without pruning, no crash leaves the node with a coins       *)
(* database that it cannot replay, and the database is only ever flushed   *)
(* to the block it is in transition to.  CoinsInv: the coins of a running  *)
(* node are those of its active chain, because a replay over a database    *)
(* between two blocks ends with the coins of the new one.                  *)
(***************************************************************************)
EXTENDS ChainRecovery, WellFoundedInduction, TLAPS

\* The provers, and their time, for a leaf that names none.
USE ZenonT(20), SMTT(40)

-----------------------------------------------------------------------------
(* Block trees.                                                            *)

\* A chain consists of blocks, and ends with the block itself.
LEMMA ChainType ==
    ASSUME NEW b \in Block
    PROVE  Chain[b] \in SUBSET Block /\ b \in Chain[b]
BY DEF Chain

\* A chain stays inside every set that is closed under Parent.
LEMMA ChainLeast ==
    ASSUME NEW S \in SUBSET Block, ParentClosed(S), NEW b \in S
    PROVE  Chain[b] \subseteq S
BY DEF Chain

\* With a block, a chain has its parent.
LEMMA ChainClosed ==
    ASSUME NEW b \in Block
    PROVE  ParentClosed(Chain[b])
<1> SUFFICES ASSUME NEW a \in Chain[b] \ {Genesis}
               PROVE  Parent[a] \in Chain[b]
    BY DEF ParentClosed
<1>1. a \in Block /\ Parent[a] \in Block
    BY ChainType, TreeAssumption
<1>2. ASSUME NEW S \in SUBSET Block, b \in S, ParentClosed(S)
        PROVE  Parent[a] \in S
    BY <1>2, ChainLeast DEF ParentClosed
<1> QED
    BY <1>1, <1>2 DEF Chain

\* An ancestor of an ancestor is an ancestor.
LEMMA ChainTrans ==
    ASSUME NEW b \in Block, NEW c \in Chain[b]
    PROVE  c \in Block /\ Chain[c] \subseteq Chain[b]
BY ChainType, ChainClosed, ChainLeast

\* A block's chain is the block on top of its parent's chain.
LEMMA ChainStep ==
    ASSUME NEW b \in Block \ {Genesis}
    PROVE  /\ Parent[b] \in Block
           /\ Parent[b] \in Chain[b]
           /\ Chain[b] = {b} \cup Chain[Parent[b]]
<1>1. Parent[b] \in Block /\ Parent[b] \in Chain[b]
    BY TreeAssumption, ChainType, ChainClosed DEF ParentClosed
<1>2. ParentClosed({b} \cup Chain[Parent[b]])
    BY <1>1, ChainType, ChainClosed DEF ParentClosed
<1>3. Chain[b] \subseteq {b} \cup Chain[Parent[b]]
    BY <1>1, <1>2, ChainType, ChainLeast, SMTT(40)
<1>4. {b} \cup Chain[Parent[b]] \subseteq Chain[b]
    BY <1>1, ChainType, ChainTrans
<1> QED
    BY <1>1, <1>3, <1>4

\* The genesis block is alone on its chain.
LEMMA ChainRoot == Chain[Genesis] = {Genesis}
<1>1. ParentClosed({Genesis})
    BY DEF ParentClosed
<1> QED
    BY <1>1, TreeAssumption, ChainType, ChainLeast, SMTT(40)

\* Induction along the tree.
LEMMA TreeInduction ==
    ASSUME NEW S \in SUBSET Block, Genesis \in S,
           \A b \in Block \ {Genesis} : Parent[b] \in S => b \in S
    PROVE  S = Block
<1> SUFFICES ASSUME NEW x \in Block \ S PROVE FALSE
    OBVIOUS
<1>1. ParentClosed(Block \ S)
    BY TreeAssumption DEF ParentClosed
<1>2. Chain[x] \subseteq Block \ S
    BY <1>1, ChainLeast
<1> QED
    BY <1>2, TreeAssumption

\* Two blocks that descend from each other are the same.
LEMMA ChainAntisymmetric ==
    ASSUME NEW b \in Block, NEW c \in Chain[b], b \in Chain[c]
    PROVE  b = c
<1> DEFINE S == {x \in Block : \A y \in Chain[x] : x \in Chain[y] => x = y}
<1>1. Genesis \in S
    BY ChainRoot, TreeAssumption
<1>2. ASSUME NEW x \in Block \ {Genesis}, Parent[x] \in S
        PROVE  x \in S
    <2> SUFFICES ASSUME NEW y \in Chain[x], x \in Chain[y], x # y
                 PROVE  FALSE
      OBVIOUS
    <2>1. y \in Chain[Parent[x]] /\ Parent[x] \in Chain[x]
      BY ChainStep
    <2>2. x \in Chain[Parent[x]]
      BY <2>1, ChainTrans, <1>2
    <2>3. Parent[x] = x
      BY <2>1, <2>2, <1>2
    <2>4. Parent[x] \in Chain[y]
      BY <2>3
    <2> QED
      BY <2>1, <2>3, <2>4, <1>2
<1> HIDE DEF S
<1>3. S = Block
    BY <1>1, <1>2, TreeInduction DEF S
<1> QED
    BY <1>3 DEF S

\* No block is on the chain of its parent.
LEMMA ParentBelow ==
    ASSUME NEW b \in Block \ {Genesis}
    PROVE  b \notin Chain[Parent[b]]
<1> SUFFICES ASSUME b \in Chain[Parent[b]] PROVE FALSE
    OBVIOUS
<1>1. Parent[b] = b
    BY ChainStep, ChainAntisymmetric
<1>2. ParentClosed({b})
    BY <1>1 DEF ParentClosed
<1> QED
    BY <1>2, ChainLeast, TreeAssumption, SMTT(40)

\* Two blocks of one chain are on one line.
LEMMA ChainLinear ==
    ASSUME NEW x \in Block, NEW a \in Chain[x], NEW b \in Chain[x]
    PROVE  a \in Chain[b] \/ b \in Chain[a]
<1> DEFINE S == {y \in Block : \A c, d \in Chain[y] : c \in Chain[d] \/ d \in Chain[c]}
<1>1. Genesis \in S
    BY ChainRoot, TreeAssumption
<1>2. ASSUME NEW y \in Block \ {Genesis}, Parent[y] \in S
        PROVE  y \in S
    BY <1>2, ChainStep, SMTT(40)
<1> HIDE DEF S
<1>3. S = Block
    BY <1>1, <1>2, TreeInduction DEF S
<1> QED
    BY <1>3 DEF S

\* Of the blocks of T on a chain, one is above all others.
LEMMA HighestExists ==
    ASSUME NEW T, NEW x \in Block, T \cap Chain[x] # {}
    PROVE  \E c \in T \cap Chain[x] : T \cap Chain[x] \subseteq Chain[c]
<1> DEFINE S == {y \in Block : T \cap Chain[y] # {} =>
                       \E c \in T \cap Chain[y] : T \cap Chain[y] \subseteq Chain[c]}
<1>1. Genesis \in S
    BY ChainRoot, TreeAssumption
<1>2. ASSUME NEW y \in Block \ {Genesis}, Parent[y] \in S
        PROVE  y \in S
    <2>1. CASE y \in T
      BY <2>1, ChainType
    <2>2. CASE y \notin T
      <3>1. T \cap Chain[y] = T \cap Chain[Parent[y]]
        BY <2>2, ChainStep
      <3> QED
        BY <3>1, <1>2
    <2> QED
      BY <2>1, <2>2
<1> HIDE DEF S
<1>3. S = Block
    BY <1>1, <1>2, TreeInduction DEF S
<1> QED
    BY <1>3 DEF S

\* A block below m has a child on m's chain.
LEMMA ChildExists ==
    ASSUME NEW m \in Block, NEW t \in Chain[m], t # m
    PROVE  \E b \in Chain[m] \ Chain[t] : b # Genesis /\ Parent[b] = t
<1> DEFINE S == {y \in Block : t \in Chain[y] /\ t # y =>
                       \E b \in Chain[y] \ Chain[t] : b # Genesis /\ Parent[b] = t}
<1>1. Genesis \in S
    BY ChainRoot, TreeAssumption
<1>2. ASSUME NEW y \in Block \ {Genesis}, Parent[y] \in S
        PROVE  y \in S
    <2> SUFFICES ASSUME t \in Chain[y], t # y
                 PROVE  \E b \in Chain[y] \ Chain[t] : b # Genesis /\ Parent[b] = t
      OBVIOUS
    <2>1. t \in Chain[Parent[y]]
      BY ChainStep
    <2>2. CASE t = Parent[y]
      BY <2>2, ChainType, ChainStep, ChainAntisymmetric
    <2>3. CASE t # Parent[y]
      BY <2>1, <2>3, <1>2, ChainStep
    <2> QED
      BY <2>2, <2>3
<1> HIDE DEF S
<1>3. S = Block
    BY <1>1, <1>2, TreeInduction DEF S
<1> QED
    BY <1>3 DEF S

-----------------------------------------------------------------------------
(* ReplayInv is inductive.                                                 *)

\* The complete blocks are blocks.
LEMMA FullBlocks ==
    ASSUME NEW idx
    PROVE  Full(idx) \in SUBSET Block
BY DEF Full

\* A closed set stays closed when it grows by the root or by blocks whose
\* parent it has.
LEMMA GrowClosed ==
    ASSUME NEW S, NEW T, S \subseteq T, ParentClosed(S),
           \A b \in T \ S : b = Genesis \/ Parent[b] \in T
    PROVE  ParentClosed(T)
BY DEF ParentClosed

\* HeadsOK only asks that the complete blocks stay complete.
LEMMA HeadsKept ==
    ASSUME HeadsOK, mode' = mode, best' = best, dbBest' = dbBest, dbHeads' = dbHeads,
           Full(index) \subseteq Full(index'), Full(diskIndex) \subseteq Full(diskIndex')
    PROVE  HeadsOK'
BY DEF HeadsOK

-----------------------------------------------------------------------------

\* The node starts with an empty index and an empty database.
LEMMA InitReplayInv == Init => ReplayInv
<1> SUFFICES ASSUME Init PROVE ReplayInv
    OBVIOUS
<1>1. Full(index) = {} /\ Full(diskIndex) = {}
    BY DEF Init, Full
<1>2. IndexOK
    BY <1>1 DEF Init, IndexOK, StatusOK, ParentClosed, Status
<1>3. HeadsOK
    BY <1>1 DEF Init, HeadsOK
<1> QED
    BY <1>2, <1>3 DEF Init, ReplayInv

\* A stored block gets no undo data: only the genesis block can become complete.
LEMMA AcceptBlockKeeps ==
    ASSUME ReplayInv, NEW b \in Block, AcceptBlock(b)
    PROVE  ReplayInv'
<1>1. index' \in [Block -> SUBSET Status]
    BY DEF AcceptBlock, ReplayInv, IndexOK, Status
<1>2. \A a \in Block : index[a] \subseteq index'[a] /\ ("undo" \in index'[a] => "undo" \in index[a])
    BY DEF AcceptBlock, ReplayInv, IndexOK
<1>3. StatusOK(index')
    BY DEF AcceptBlock, ReplayInv, IndexOK, StatusOK
<1>4. Full(index) \subseteq Full(index')
    BY <1>2 DEF Full
<1>5. \A a \in Full(index') \ Full(index) : a = Genesis
    BY <1>2 DEF Full, ReplayInv, IndexOK, StatusOK
<1>6. ParentClosed(Full(index'))
    BY <1>4, <1>5, GrowClosed DEF ReplayInv, IndexOK
<1>7. IndexOK'
    BY <1>1, <1>2, <1>3, <1>6 DEF AcceptBlock, ReplayInv, IndexOK
<1>8. HeadsOK'
    BY <1>4, HeadsKept DEF AcceptBlock, ReplayInv, coinsDB
<1> QED
    BY <1>7, <1>8 DEF AcceptBlock, ReplayInv

\* The block that is connected becomes complete, on top of a complete parent.
LEMMA ConnectTipKeeps ==
    ASSUME ReplayInv, NEW b \in Block, ConnectTip(b)
    PROVE  ReplayInv'
<1>1. PICK undo : WriteUndoDataForBlock(b, undo)
    BY DEF ConnectTip
<1>2. index' = [index EXCEPT ![b] = IF b = Genesis THEN @ ELSE @ \cup {"undo"}]
    BY <1>1 DEF WriteUndoDataForBlock, ReplayInv, IndexOK
<1>3. {"known", "data"} \subseteq index[b]
    BY DEF ConnectTip, ReplayInv, IndexOK, StatusOK
<1>4. index' \in [Block -> SUBSET Status]
    BY <1>2 DEF ReplayInv, IndexOK, Status
<1>5. \A a \in Block : index[a] \subseteq index'[a] /\ (a # b => index'[a] = index[a])
    BY <1>2 DEF ReplayInv, IndexOK
<1>6. StatusOK(index')
    BY <1>3, <1>5 DEF ReplayInv, IndexOK, StatusOK
<1>7. Full(index') = Full(index) \cup {b}
    BY <1>2, <1>3, <1>5 DEF Full, ReplayInv, IndexOK
<1>8. b # Genesis => Parent[b] \in Full(index)
    BY TreeAssumption DEF ConnectTip, ReplayInv, HeadsOK
<1>9. ParentClosed(Full(index'))
    BY <1>7, <1>8, GrowClosed DEF ReplayInv, IndexOK
<1>10. IndexOK'
    BY <1>4, <1>5, <1>6, <1>9 DEF ConnectTip, ReplayInv, IndexOK
<1>11. HeadsOK'
    BY <1>7 DEF ConnectTip, ReplayInv, HeadsOK, coinsDB
<1> QED
    BY <1>10, <1>11 DEF ConnectTip, ReplayInv

\* The parent of a complete block is complete.
LEMMA DisconnectTipKeeps ==
    ASSUME ReplayInv, DisconnectTip
    PROVE  ReplayInv'
<1>1. Parent[best] \in Full(index)
    BY DEF DisconnectTip, ReplayInv, IndexOK, HeadsOK, ParentClosed
<1>2. IndexOK'
    BY DEF DisconnectTip, ReplayInv, IndexOK
<1>3. HeadsOK'
    BY <1>1, FullBlocks DEF DisconnectTip, ReplayInv, HeadsOK, coinsDB
<1> QED
    BY <1>2, <1>3 DEF DisconnectTip, ReplayInv

\* The block index is on disk before the first batch of coins is.
LEMMA FlushKeeps ==
    ASSUME ReplayInv, PruneMode = FALSE, NEW full, NEW pruned, FlushStateToDisk(full, pruned)
    PROVE  ReplayInv'
<1>1. index' = index /\ diskIndex' = index
    BY DEF FlushStateToDisk, CanPrune, ReplayInv, IndexOK
<1>2. Full(diskIndex) \subseteq Full(index)
    BY DEF Full, FlushStateToDisk, ReplayInv, IndexOK
<1>3. IndexOK'
    BY <1>1 DEF FlushStateToDisk, ReplayInv, IndexOK
<1>4. HeadsOK'
    BY <1>1, <1>2 DEF FlushStateToDisk, ReplayInv, HeadsOK, coinsDB
<1> QED
    BY <1>3, <1>4 DEF FlushStateToDisk, ReplayInv

\* The heads a batch writes are the tip, which is on disk, and the old tip.
LEMMA PartialBatchKeeps ==
    ASSUME ReplayInv, NEW S, WritePartialBatch(S)
    PROVE  ReplayInv'
<1>1. OldTip \in Full(diskIndex) \cup {NoBlock}
    BY DEF OldTip, ReplayInv, HeadsOK
<1>2. IndexOK'
    BY DEF WritePartialBatch, ReplayInv, IndexOK, memory
<1>3. HeadsOK'
    BY <1>1 DEF WritePartialBatch, ReplayInv, HeadsOK, memory
<1> QED
    BY <1>2, <1>3 DEF WritePartialBatch, ReplayInv

\* The last batch names the tip and ends the transition.
LEMMA FinalBatchKeeps ==
    ASSUME ReplayInv, WriteFinalBatch
    PROVE  ReplayInv'
<1>1. IndexOK'
    BY DEF WriteFinalBatch, ReplayInv, IndexOK, memory
<1>2. HeadsOK'
    BY DEF WriteFinalBatch, ReplayInv, HeadsOK, memory
<1> QED
    BY <1>1, <1>2 DEF WriteFinalBatch, ReplayInv

\* A crash leaves the disk as it is.
LEMMA CrashKeeps ==
    ASSUME ReplayInv, Crash
    PROVE  ReplayInv'
<1>1. Full(index') = {}
    BY DEF Crash, Full
<1>2. IndexOK'
    BY <1>1 DEF Crash, ReplayInv, IndexOK, StatusOK, ParentClosed, Status
<1>3. HeadsOK'
    BY DEF Crash, ReplayInv, HeadsOK, coinsDB
<1> QED
    BY <1>2, <1>3 DEF Crash, ReplayInv

\* The block index as it is loaded has at least the complete blocks of the disk.
LEMMA LoadedIndex ==
    ASSUME ReplayInv, index' = LoadBlockIndex, diskIndex' = diskIndex
    PROVE  IndexOK' /\ Full(diskIndex) \subseteq Full(index')
<1>1. index' \in [Block -> SUBSET Status]
    BY DEF LoadBlockIndex, ReplayInv, IndexOK, Status
<1>2. \A a \in Block : diskIndex[a] \subseteq index'[a] /\ (a # Genesis => index'[a] = diskIndex[a])
    BY DEF LoadBlockIndex, ReplayInv, IndexOK
<1>3. index'[Genesis] = diskIndex[Genesis] \/ index'[Genesis] = {"known", "data"}
    BY TreeAssumption DEF LoadBlockIndex, ReplayInv, IndexOK
<1>4. StatusOK(index')
    BY <1>2, <1>3 DEF ReplayInv, IndexOK, StatusOK
<1>5. Full(diskIndex) \subseteq Full(index') /\ \A a \in Full(index') \ Full(diskIndex) : a = Genesis
    BY <1>2 DEF Full
<1>6. ParentClosed(Full(index'))
    BY <1>5, GrowClosed DEF ReplayInv, IndexOK
<1> QED
    BY <1>1, <1>2, <1>4, <1>5, <1>6 DEF ReplayInv, IndexOK

\* The best block of the database is on disk, so loading it succeeds.
LEMMA LoadChainTipKeeps ==
    ASSUME ReplayInv, LoadChainTip
    PROVE  ReplayInv'
<1>1. IndexOK' /\ Full(diskIndex) \subseteq Full(index')
    BY LoadedIndex DEF LoadChainTip
<1>2. dbBest # NoBlock => dbBest \in Block /\ diskIndex[dbBest] # {}
    BY DEF ReplayInv, HeadsOK, Full
<1>3. mode' = "running"
    BY <1>2 DEF LoadChainTip
<1>4. HeadsOK'
    BY <1>1, <1>2, <1>3 DEF LoadChainTip, ReplayInv, HeadsOK, coinsDB
<1> QED
    BY <1>1, <1>3, <1>4 DEF ReplayInv

\* Everything ReplayBlocks reads lies on the chains of the two heads.
LEMMA HeadsReplayable ==
    ASSUME ReplayInv, dbHeads # <<>>
    PROVE  CanReplay(dbHeads[2], dbHeads[1])
<1> DEFINE new == dbHeads[1]
           old == dbHeads[2]
<1>1. new \in Full(diskIndex) /\ old \in Full(diskIndex) \cup {NoBlock}
    BY DEF ReplayInv, HeadsOK
<1> HIDE DEF new, old
<1>2. Chain[new] \subseteq Full(diskIndex)
    BY <1>1, ChainLeast, FullBlocks DEF ReplayInv, IndexOK
<1>3. old # NoBlock => Chain[old] \subseteq Full(diskIndex)
    BY <1>1, ChainLeast, FullBlocks DEF ReplayInv, IndexOK
<1>4. Genesis \in Chain[new]
    BY <1>1, FullBlocks, TreeAssumption
<1>5. \A b \in Full(diskIndex) : diskIndex[b] # {} /\ "data" \in diskIndex[b] /\ (b # Genesis => diskIndex[b] = Status)
    BY DEF Full, Status, ReplayInv, IndexOK
<1>6. \A b \in RollbackBlocks(old, new) : b \in Full(diskIndex) /\ b # Genesis
    BY <1>3, <1>4 DEF RollbackBlocks
<1>7. \A b \in RollforwardBlocks(old, new) : b \in Full(diskIndex)
    BY <1>2 DEF RollforwardBlocks
<1>8. CanReplay(old, new)
    BY <1>1, <1>5, <1>6, <1>7 DEF CanReplay
<1> QED
    BY <1>8 DEF new, old

\* The replay succeeds and goes on to the block the database was in transition to.
LEMMA ReplayBlocksKeeps ==
    ASSUME ReplayInv, ReplayBlocks
    PROVE  ReplayInv'
<1>1. IndexOK' /\ Full(diskIndex) \subseteq Full(index')
    BY LoadedIndex DEF ReplayBlocks
<1>2. mode' = "replaying" /\ best' = dbHeads[1]
    BY HeadsReplayable DEF ReplayBlocks
<1>3. HeadsOK'
    BY <1>1, <1>2, FullBlocks DEF ReplayBlocks, ReplayInv, HeadsOK, coinsDB
<1> QED
    BY <1>1, <1>2, <1>3 DEF ReplayInv

\* Every step keeps ReplayInv.
LEMMA NextReplayInv ==
    ASSUME ReplayInv, PruneMode = FALSE, [Next]_vars
    PROVE  ReplayInv'
<1>1. CASE UNCHANGED vars
    BY <1>1 DEF vars, coinsDB, ReplayInv, IndexOK, HeadsOK
<1>2. CASE Next
    BY <1>2, AcceptBlockKeeps, ConnectTipKeeps, DisconnectTipKeeps, FlushKeeps, PartialBatchKeeps,
       FinalBatchKeeps, CrashKeeps, LoadChainTipKeeps, ReplayBlocksKeeps DEF Next
<1> QED
    BY <1>1, <1>2

-----------------------------------------------------------------------------

\* The inductive invariant: every block the coins database names is complete on
\* disk, with all of its chain, and a flush only continues the transition that
\* the database is in.
THEOREM ReplayInvariance ==
    ASSUME PruneMode = FALSE
    PROVE  Spec => []ReplayInv
<1>1. Init => ReplayInv
    BY InitReplayInv
<1>2. ReplayInv /\ [Next]_vars => ReplayInv'
  <2> SUFFICES ASSUME ReplayInv, [Next]_vars PROVE ReplayInv'
      OBVIOUS
  <2> QED
      BY NextReplayInv
<1> QED
    BY <1>1, <1>2, PTL DEF Spec

\* On a node that does not prune, whatever the block tree, no crash at any
\* moment leaves a coins database that start-up cannot load or replay.
THEOREM ReplayAlwaysPossible ==
    ASSUME PruneMode = FALSE
    PROVE  Spec => []ReplayNeverFails
<1>1. ReplayInv => ReplayNeverFails
    BY DEF ReplayInv, ReplayNeverFails
<1> QED
    BY <1>1, ReplayInvariance, PTL

\* The assertion in CCoinsViewDB::BatchWrite never fires on such a node.
THEOREM OldHeadsAssertHolds ==
    ASSUME PruneMode = FALSE
    PROVE  Spec => []OldHeadsMatch
<1>1. ReplayInv => OldHeadsMatch
    BY DEF ReplayInv, HeadsOK, OldHeadsMatch
<1> QED
    BY <1>1, ReplayInvariance, PTL

-----------------------------------------------------------------------------
(* Induction, and the loops over the transactions of a block.              *)

\* A set of natural numbers has a least member.
LEMMA LeastNatural ==
    ASSUME NEW S \in SUBSET Nat, S # {}
    PROVE  \E n \in S : \A k \in S : n <= k
<1> DEFINE Less == {ss \in Nat \X Nat : ss[1] < ss[2]}
<1>1. Less = OpToRel(<, Nat)
    BY DEF OpToRel
<1>2. IsWellFoundedOn(Less, Nat)
    BY <1>1, NatLessThanWellFounded
<1> HIDE DEF Less
<1>3. PICK n \in S : \A k \in S : ~ (<<k, n>> \in Less)
    BY <1>2, WFMin
<1>4. ASSUME NEW k \in S PROVE n <= k
  <2>1. <<k, n>> \notin Less
      BY <1>3
  <2>2. k \in Nat /\ n \in Nat
      OBVIOUS
  <2>3. ~(k < n)
      BY <2>1, <2>2 DEF Less
  <2> QED
      BY <2>2, <2>3, SMTT(40)
<1> QED
    BY <1>4

\* Induction on the iterations of a loop.
LEMMA LoopInduction ==
    ASSUME NEW n \in Nat, NEW S, 0 \in S, \A i \in 1 .. n : i - 1 \in S => i \in S
    PROVE  0 .. n \subseteq S
<1> DEFINE T == (0 .. n) \ S
<1> SUFFICES ASSUME T # {} PROVE FALSE
    OBVIOUS
<1>0. T \in SUBSET Nat
    BY SMTT(40)
<1> HIDE DEF T
<1>1. PICK k \in T : \A j \in T : k <= j
    BY <1>0, LeastNatural
<1> USE DEF T
<1>2. k \in 1 .. n /\ k - 1 \in 0 .. n
    BY <1>1, SMTT(40)
<1> QED
    BY <1>1, <1>2, SMTT(40)

\* What the lemmas on the loops use of TxAssumption.
LEMMA Lengths ==
    ASSUME NEW b \in Block
    PROVE  /\ Len(Txs[b]) \in Nat
           /\ DOMAIN Txs[b] = 1 .. Len(Txs[b])
           /\ \A i \in 1 .. Len(Txs[b]) : Txs[b][i] \in Tx
BY TxAssumption, SMTT(40)

\* c is a run of the loop of ConnectTxs.
ConnectRun(b, u, c) ==
    /\ c[0] = [ok |-> NoOverwrite(b, u), utxo |-> u, undo |-> <<>>]
    /\ \A i \in 1 .. Len(Txs[b]) : c[i] = ConnectTx(c[i - 1], Txs[b][i], Height[b])

\* ConnectTxs is that run.
LEMMA ConnectLoop ==
    ASSUME NEW b \in Block, NEW u
    PROVE  ConnectRun(b, u, ConnectTxs(b, u))
<1> DEFINE n == Len(Txs[b])
           First == [ok |-> NoOverwrite(b, u), utxo |-> u, undo |-> <<>>]
           Step(i, x) == ConnectTx(x, Txs[b][i], Height[b])
           Runs(k, f) == f = [i \in 0 .. k |-> IF i = 0 THEN First ELSE Step(i, f[i - 1])]
           S == {k \in 0 .. n : \E f : Runs(k, f)}
<1>0. n \in Nat
    BY Lengths
<1>1. ConnectTxs(b, u) = CHOOSE f : Runs(n, f)
    BY DEF ConnectTxs
<1> HIDE DEF n, First, Step
<1>2. 0 \in S
  <2>1. Runs(0, [i \in 0 .. 0 |-> First])
      BY SMTT(40)
  <2> HIDE DEF Runs
  <2> QED
      BY <2>1, <1>0, SMTT(40)
<1>3. ASSUME NEW k \in 1 .. n, k - 1 \in S PROVE k \in S
  <2>1. PICK f : Runs(k - 1, f)
      BY <1>3
  <2> DEFINE g == [i \in 0 .. k |-> IF i = k THEN Step(k, f[k - 1]) ELSE f[i]]
  <2>2. Runs(k, g)
      BY <2>1, <1>0, SMTT(40)
  <2> HIDE DEF Runs, g
  <2> QED
      BY <2>2, <1>0, SMTT(40)
<1>4. \E f : Runs(n, f)
  <2> HIDE DEF S
  <2>1. n \in S
      BY <1>0, <1>2, <1>3, LoopInduction, SMTT(40)
  <2> QED
      BY <2>1 DEF S
<1>5. Runs(n, ConnectTxs(b, u))
  <2> HIDE DEF Runs
  <2> QED
      BY <1>1, <1>4
<1>6. ConnectTxs(b, u)[0] = First /\ \A i \in 1 .. n : ConnectTxs(b, u)[i] = Step(i, ConnectTxs(b, u)[i - 1])
    BY <1>0, <1>5, SMTT(40)
<1> QED
    BY <1>6 DEF n, First, Step, ConnectRun

\* The body of the loop of DisconnectTxs, which goes from the last transaction to the first.
UndoLast(b, undo, k, x) ==
    LET i == Len(Txs[b]) + 1 - k
    IN  DisconnectTx(x, Txs[b][i], Height[b], IF i = 1 THEN NoUndo ELSE undo[i - 1])

\* d is a run of that loop.
DisconnectRun(b, u, undo, d) ==
    /\ d[0] = [clean |-> TRUE, utxo |-> u]
    /\ \A k \in 1 .. Len(Txs[b]) : d[k] = UndoLast(b, undo, k, d[k - 1])

\* DisconnectTxs is that run.
LEMMA DisconnectLoop ==
    ASSUME NEW b \in Block, NEW u, NEW undo
    PROVE  DisconnectRun(b, u, undo, DisconnectTxs(b, u, undo))
<1> DEFINE n == Len(Txs[b])
           First == [clean |-> TRUE, utxo |-> u]
           Step(i, x) == UndoLast(b, undo, i, x)
           Runs(k, f) == f = [i \in 0 .. k |-> IF i = 0 THEN First ELSE Step(i, f[i - 1])]
           S == {k \in 0 .. n : \E f : Runs(k, f)}
<1>0. n \in Nat
    BY Lengths
<1>1. DisconnectTxs(b, u, undo) = CHOOSE f : Runs(n, f)
    BY DEF DisconnectTxs, UndoLast
<1> HIDE DEF n, First, Step
<1>2. 0 \in S
  <2>1. Runs(0, [i \in 0 .. 0 |-> First])
      BY SMTT(40)
  <2> HIDE DEF Runs
  <2> QED
      BY <2>1, <1>0, SMTT(40)
<1>3. ASSUME NEW k \in 1 .. n, k - 1 \in S PROVE k \in S
  <2>1. PICK f : Runs(k - 1, f)
      BY <1>3
  <2> DEFINE g == [i \in 0 .. k |-> IF i = k THEN Step(k, f[k - 1]) ELSE f[i]]
  <2>2. Runs(k, g)
      BY <2>1, <1>0, SMTT(40)
  <2> HIDE DEF Runs, g
  <2> QED
      BY <2>2, <1>0, SMTT(40)
<1>4. \E f : Runs(n, f)
  <2> HIDE DEF S
  <2>1. n \in S
      BY <1>0, <1>2, <1>3, LoopInduction, SMTT(40)
  <2> QED
      BY <2>1 DEF S
<1>5. Runs(n, DisconnectTxs(b, u, undo))
  <2> HIDE DEF Runs
  <2> QED
      BY <1>1, <1>4
<1>6. DisconnectTxs(b, u, undo)[0] = First /\ \A i \in 1 .. n : DisconnectTxs(b, u, undo)[i] = Step(i, DisconnectTxs(b, u, undo)[i - 1])
    BY <1>0, <1>5, SMTT(40)
<1> QED
    BY <1>6 DEF n, First, Step, DisconnectRun

\* The body of the loop of RollforwardTxs, and a run of it.
RollTx(b, i, x) ==
    AddCoins(IF Txs[b][i].coinbase THEN x ELSE SpendCoins(x, Txs[b][i].vin), Txs[b][i].vout, Height[b])

RollforwardRun(b, u, v) == v[0] = u /\ \A i \in 1 .. Len(Txs[b]) : v[i] = RollTx(b, i, v[i - 1])

\* RollforwardTxs is that run.
LEMMA RollforwardLoop ==
    ASSUME NEW b \in Block, NEW u
    PROVE  RollforwardRun(b, u, RollforwardTxs(b, u))
<1> DEFINE n == Len(Txs[b])
           First == u
           Step(i, x) == RollTx(b, i, x)
           Runs(k, f) == f = [i \in 0 .. k |-> IF i = 0 THEN First ELSE Step(i, f[i - 1])]
           S == {k \in 0 .. n : \E f : Runs(k, f)}
<1>0. n \in Nat
    BY Lengths
<1>1. RollforwardTxs(b, u) = CHOOSE f : Runs(n, f)
    BY DEF RollforwardTxs, RollTx
<1> HIDE DEF n, First, Step
<1>2. 0 \in S
  <2>1. Runs(0, [i \in 0 .. 0 |-> First])
      BY SMTT(40)
  <2> HIDE DEF Runs
  <2> QED
      BY <2>1, <1>0, SMTT(40)
<1>3. ASSUME NEW k \in 1 .. n, k - 1 \in S PROVE k \in S
  <2>1. PICK f : Runs(k - 1, f)
      BY <1>3
  <2> DEFINE g == [i \in 0 .. k |-> IF i = k THEN Step(k, f[k - 1]) ELSE f[i]]
  <2>2. Runs(k, g)
      BY <2>1, <1>0, SMTT(40)
  <2> HIDE DEF Runs, g
  <2> QED
      BY <2>2, <1>0, SMTT(40)
<1>4. \E f : Runs(n, f)
  <2> HIDE DEF S
  <2>1. n \in S
      BY <1>0, <1>2, <1>3, LoopInduction, SMTT(40)
  <2> QED
      BY <2>1 DEF S
<1>5. Runs(n, RollforwardTxs(b, u))
  <2> HIDE DEF Runs
  <2> QED
      BY <1>1, <1>4
<1>6. RollforwardTxs(b, u)[0] = First /\ \A i \in 1 .. n : RollforwardTxs(b, u)[i] = Step(i, RollforwardTxs(b, u)[i - 1])
    BY <1>0, <1>5, SMTT(40)
<1> QED
    BY <1>6 DEF n, First, Step, RollforwardRun

-----------------------------------------------------------------------------
(* What connecting, undoing and rolling forward a block does to the coins. *)

\* Two runs of the same writes, from u and from v: at every outpoint they agree, or
\* neither has written anything.
Agree(x, y, u, v) == \A o \in Outpoint : x[o] = y[o] \/ (x[o] = u[o] /\ y[o] = v[o])

\* Agreement carries over from one piece of the writes to the next.
LEMMA AgreeTrans ==
    ASSUME NEW u, NEW v, NEW x, NEW y, NEW s, NEW t, Agree(x, y, u, v), Agree(s, t, x, y)
    PROVE  Agree(s, t, u, v)
BY DEF Agree

\* What RollforwardBlock writes does not depend on what it finds.
LEMMA RollforwardAgree ==
    ASSUME NEW b \in Block, NEW u, NEW v
    PROVE  Agree(RollforwardBlock(b, u).coins, RollforwardBlock(b, v).coins, u.coins, v.coins)
<1> DEFINE n == Len(Txs[b])
           f == RollforwardTxs(b, u)
           g == RollforwardTxs(b, v)
           S == {i \in 0 .. n : Agree(f[i].coins, g[i].coins, u.coins, v.coins)}
<1>0. n \in Nat
    BY Lengths
<1>1. RollforwardRun(b, u, f) /\ RollforwardRun(b, v, g)
    BY RollforwardLoop
<1> HIDE DEF f, g
<1>2. ASSUME NEW i \in 1 .. n PROVE Agree(f[i].coins, g[i].coins, f[i - 1].coins, g[i - 1].coins)
  <2>1. f[i] = RollTx(b, i, f[i - 1]) /\ g[i] = RollTx(b, i, g[i - 1])
      BY <1>1 DEF RollforwardRun
  <2>2. ASSUME NEW x, NEW y PROVE Agree(RollTx(b, i, x).coins, RollTx(b, i, y).coins, x.coins, y.coins)
      BY DEF Agree, RollTx, AddCoins, SpendCoins
  <2> QED
      BY <2>1, <2>2
<1> HIDE DEF n
<1>3. 0 \in S
    BY <1>0, <1>1, SMTT(40) DEF Agree, RollforwardRun
<1>4. ASSUME NEW i \in 1 .. n, i - 1 \in S PROVE i \in S
    BY <1>0, <1>2, <1>4, AgreeTrans, SMTT(40)
<1>5. 0 .. n \subseteq S
  <2> HIDE DEF S
  <2> QED
      BY <1>0, <1>3, <1>4, LoopInduction
<1>6. n \in S
    BY <1>0, <1>5, SMTT(40)
<1> QED
    BY <1>6 DEF n, f, g, RollforwardBlock

\* Nor does what DisconnectBlock writes.
LEMMA DisconnectAgree ==
    ASSUME NEW b \in Block, NEW u, NEW v, NEW undo
    PROVE  Agree(DisconnectBlock(b, u, undo).utxo.coins, DisconnectBlock(b, v, undo).utxo.coins,
                 u.coins, v.coins)
<1> DEFINE n == Len(Txs[b])
           f == DisconnectTxs(b, u, undo)
           g == DisconnectTxs(b, v, undo)
           S == {k \in 0 .. n : Agree(f[k].utxo.coins, g[k].utxo.coins, u.coins, v.coins)}
<1>0. n \in Nat
    BY Lengths
<1>1. DisconnectRun(b, u, undo, f) /\ DisconnectRun(b, v, undo, g)
    BY DisconnectLoop
<1> HIDE DEF f, g
<1>2. ASSUME NEW k \in 1 .. n
      PROVE  Agree(f[k].utxo.coins, g[k].utxo.coins, f[k - 1].utxo.coins, g[k - 1].utxo.coins)
  <2>1. f[k] = UndoLast(b, undo, k, f[k - 1]) /\ g[k] = UndoLast(b, undo, k, g[k - 1])
      BY <1>1 DEF DisconnectRun
  <2>2. ASSUME NEW x, NEW y
        PROVE  Agree(UndoLast(b, undo, k, x).utxo.coins, UndoLast(b, undo, k, y).utxo.coins,
                     x.utxo.coins, y.utxo.coins)
      BY DEF Agree, UndoLast, DisconnectTx, ApplyTxInUndo, SpendCoins
  <2> QED
      BY <2>1, <2>2
<1> HIDE DEF n
<1>3. 0 \in S
    BY <1>0, <1>1, SMTT(40) DEF Agree, DisconnectRun
<1>4. ASSUME NEW k \in 1 .. n, k - 1 \in S PROVE k \in S
    BY <1>0, <1>2, <1>4, AgreeTrans, SMTT(40)
<1>5. 0 .. n \subseteq S
  <2> HIDE DEF S
  <2> QED
      BY <1>0, <1>3, <1>4, LoopInduction
<1>6. n \in S
    BY <1>0, <1>5, SMTT(40)
<1> QED
    BY <1>6 DEF n, f, g, DisconnectBlock

\* The coins and the undo data that ConnectBlock makes depend on nothing but coins.
LEMMA ConnectCoinsOnly ==
    ASSUME NEW b \in Block, NEW u, NEW w, u.coins = w.coins
    PROVE  /\ ConnectTxs(b, u)[Len(Txs[b])].utxo.coins = ConnectTxs(b, w)[Len(Txs[b])].utxo.coins
           /\ ConnectTxs(b, u)[Len(Txs[b])].undo = ConnectTxs(b, w)[Len(Txs[b])].undo
<1> DEFINE n == Len(Txs[b])
           f == ConnectTxs(b, u)
           g == ConnectTxs(b, w)
           S == {i \in 0 .. n : f[i].utxo.coins = g[i].utxo.coins /\ f[i].undo = g[i].undo}
<1>0. n \in Nat
    BY Lengths
<1>1. ConnectRun(b, u, f) /\ ConnectRun(b, w, g)
    BY ConnectLoop
<1> HIDE DEF f, g
<1>2. ASSUME NEW i \in 1 .. n, i - 1 \in S PROVE i \in S
  <2>1. f[i] = ConnectTx(f[i - 1], Txs[b][i], Height[b]) /\ g[i] = ConnectTx(g[i - 1], Txs[b][i], Height[b])
      BY <1>1 DEF ConnectRun
  <2>2. f[i - 1].utxo.coins = g[i - 1].utxo.coins /\ f[i - 1].undo = g[i - 1].undo
      BY <1>2
  <2>3. /\ ConnectTx(f[i - 1], Txs[b][i], Height[b]).utxo.coins = ConnectTx(g[i - 1], Txs[b][i], Height[b]).utxo.coins
        /\ ConnectTx(f[i - 1], Txs[b][i], Height[b]).undo = ConnectTx(g[i - 1], Txs[b][i], Height[b]).undo
      BY <2>2 DEF ConnectTx, UpdateCoins, AddCoins, SpendCoins
  <2>4. f[i].utxo.coins = g[i].utxo.coins /\ f[i].undo = g[i].undo
      BY <2>1, <2>3
  <2> QED
      BY <2>4, SMTT(40)
<1> HIDE DEF n
<1>3. 0 \in S
    BY <1>0, <1>1, SMTT(40) DEF ConnectRun
<1>4. 0 .. n \subseteq S
  <2> HIDE DEF S
  <2> QED
      BY <1>0, <1>2, <1>3, LoopInduction
<1> QED
    BY <1>0, <1>4, SMTT(40) DEF n, f, g

\* RollforwardBlock makes the coins that ConnectBlock makes.
LEMMA RollforwardConnects ==
    ASSUME NEW b \in Block, NEW u, NEW w, u.coins = w.coins
    PROVE  RollforwardBlock(b, u).coins = ConnectTxs(b, w)[Len(Txs[b])].utxo.coins
<1> DEFINE n == Len(Txs[b])
           f == RollforwardTxs(b, u)
           g == ConnectTxs(b, w)
           S == {i \in 0 .. n : f[i].coins = g[i].utxo.coins}
<1>0. n \in Nat
    BY Lengths
<1>1. RollforwardRun(b, u, f) /\ ConnectRun(b, w, g)
    BY ConnectLoop, RollforwardLoop
<1> HIDE DEF f, g
<1>2. ASSUME NEW i \in 1 .. n, i - 1 \in S PROVE i \in S
  <2>1. f[i] = RollTx(b, i, f[i - 1]) /\ g[i] = ConnectTx(g[i - 1], Txs[b][i], Height[b])
      BY <1>1 DEF ConnectRun, RollforwardRun
  <2>2. ASSUME NEW x, NEW y, x.coins = y.utxo.coins
        PROVE  RollTx(b, i, x).coins = ConnectTx(y, Txs[b][i], Height[b]).utxo.coins
      BY <2>2 DEF RollTx, ConnectTx, UpdateCoins, AddCoins, SpendCoins
  <2> QED
      BY <1>0, <1>2, <2>1, <2>2, SMTT(40)
<1> HIDE DEF n
<1>3. 0 \in S
    BY <1>0, <1>1, SMTT(40) DEF ConnectRun, RollforwardRun
<1>4. 0 .. n \subseteq S
  <2> HIDE DEF S
  <2> QED
      BY <1>0, <1>2, <1>3, LoopInduction
<1> QED
    BY <1>0, <1>4, SMTT(40) DEF n, f, g, RollforwardBlock

\* ConnectBlock keeps the types, and rejects a block that overwrites a coin.
LEMMA ConnectType ==
    ASSUME NEW b \in Block, NEW u \in Utxo
    PROVE  /\ ConnectBlock(b, u).utxo \in Utxo
           /\ b # Genesis /\ ConnectBlock(b, u).ok => NoOverwrite(b, u)
           /\ \A i \in 0 .. Len(Txs[b]) : ConnectTxs(b, u)[i].utxo \in Utxo
<1> DEFINE n == Len(Txs[b])
           f == ConnectTxs(b, u)
           S == {i \in 0 .. n : f[i].utxo \in Utxo /\ (f[i].ok => NoOverwrite(b, u))}
<1>0. n \in Nat
    BY Lengths
<1>1. ConnectRun(b, u, f)
    BY ConnectLoop
<1> HIDE DEF f
<1>2. Height[b] \in Coin /\ 0 \in Coin /\ NoCoin \in Coin
    BY DEF Coin
<1>3. ASSUME NEW x \in Utxo, NEW T, NEW h \in Coin PROVE AddCoins(x, T, h) \in Utxo /\ SpendCoins(x, T) \in Utxo
    BY <1>2 DEF AddCoins, SpendCoins, Utxo
<1>4. ASSUME NEW i \in 1 .. n, i - 1 \in S PROVE i \in S
  <2> DEFINE x == f[i - 1]
             t == Txs[b][i]
  <2>1. f[i] = ConnectTx(x, t, Height[b])
      BY <1>1 DEF ConnectRun
  <2>2. x.utxo \in Utxo /\ (x.ok => NoOverwrite(b, u)) /\ t \in Tx
      BY <1>0, <1>4, Lengths
  <2> HIDE DEF x, t
  <2>3. [coins |-> SpendCoins(x.utxo, t.vin).coins, pegins |-> x.utxo.pegins \cup t.pegin] \in Utxo
      BY <1>2, <1>3, <2>2 DEF Tx, Utxo
  <2>4. UpdateCoins(x.utxo, t, Height[b]) \in Utxo /\ AddCoins(x.utxo, t.vout, Height[b]) \in Utxo
      BY <1>2, <1>3, <2>2, <2>3 DEF UpdateCoins
  <2>5. f[i].utxo \in Utxo
      BY <2>1, <2>4, SMTT(40) DEF ConnectTx
  <2>6. f[i].ok => x.ok
    <3>1. CASE t.coinbase
        BY <2>1, <3>1, SMTT(40) DEF ConnectTx
    <3>2. CASE ~ t.coinbase
      <4>1. f[i].ok = (x.ok /\ CheckTxInputs(x.utxo, t))
          BY <2>1, <3>2, SMTT(40) DEF ConnectTx
      <4> QED
          BY <4>1
    <3> QED
        BY <3>1, <3>2
  <2> QED
      BY <1>0, <2>2, <2>5, <2>6, SMTT(40)
<1>5. 0 \in S
    BY <1>0, <1>1, SMTT(40) DEF ConnectRun
<1> HIDE DEF n
<1>6. 0 .. n \subseteq S
  <2> HIDE DEF S
  <2> QED
      BY <1>0, <1>4, <1>5, LoopInduction
<1>7. f[n].utxo \in Utxo /\ (f[n].ok => NoOverwrite(b, u)) /\ \A i \in 0 .. n : f[i].utxo \in Utxo
    BY <1>0, <1>6, SMTT(40)
<1>8. CASE b = Genesis
    BY <1>2, <1>3, <1>7, <1>8 DEF ConnectBlock, n, f
<1>9. CASE b # Genesis
    BY <1>7, <1>9 DEF ConnectBlock, n, f
<1> QED
    BY <1>8, <1>9

\* The undo data of a block has, for every transaction but the coinbase, the coins that
\* the transaction spent as they were when it spent them.
LEMMA ConnectUndo ==
    ASSUME NEW b \in Block, NEW p \in Utxo, NEW j \in 2 .. Len(Txs[b])
    PROVE  ConnectTxs(b, p)[Len(Txs[b])].undo[j - 1] =
               [o \in Txs[b][j].vin |-> ConnectTxs(b, p)[j - 1].utxo.coins[o]]
<1> DEFINE n == Len(Txs[b])
           c == ConnectTxs(b, p)
           Spent(i) == [o \in Txs[b][i].vin |-> c[i - 1].utxo.coins[o]]
           D == UNION {[T -> Coin] : T \in SUBSET Outpoint}
           S == {i \in 0 .. n : /\ c[i].undo \in Seq(D)
                                /\ Len(c[i].undo) = IF i = 0 THEN 0 ELSE i - 1
                                /\ \A l \in 2 .. i : c[i].undo[l - 1] = Spent(l)}
<1>0. n \in Nat
    BY Lengths
<1>1. ConnectRun(b, p, c) /\ \A i \in 0 .. n : c[i].utxo \in Utxo
    BY ConnectLoop, ConnectType
<1> HIDE DEF c, n
<1>2. 0 \in S
  <2>1. c[0].undo = << >>
      BY <1>1, SMTT(40) DEF ConnectRun
  <2> HIDE DEF D, Spent
  <2>2. c[0].undo \in Seq(D) /\ Len(c[0].undo) = 0
      BY <2>1, SMTT(40)
  <2>3. 2 .. 0 = {} /\ 0 \in 0 .. n
      BY <1>0, SMTT(40)
  <2> QED
      BY <2>2, <2>3
<1>3. ASSUME NEW i \in 1 .. n, i - 1 \in S PROVE i \in S
  <2> DEFINE s == c[i - 1].undo
  <2>1. c[i] = ConnectTx(c[i - 1], Txs[b][i], Height[b]) /\ (Txs[b][i].coinbase <=> i = 1) /\ Txs[b][i] \in Tx
      BY <1>0, <1>1, Lengths, TxAssumption, SMTT(40) DEF ConnectRun, n
  <2>2. /\ s \in Seq(D)
        /\ Len(s) = IF i = 1 THEN 0 ELSE i - 2
        /\ \A l \in 2 .. i - 1 : s[l - 1] = Spent(l)
    <3>1. /\ s \in Seq(D)
          /\ Len(s) = IF i - 1 = 0 THEN 0 ELSE (i - 1) - 1
          /\ \A l \in 2 .. i - 1 : s[l - 1] = Spent(l)
        BY <1>3
    <3>2. (IF i - 1 = 0 THEN 0 ELSE (i - 1) - 1) = IF i = 1 THEN 0 ELSE i - 2
        BY <1>0, SMTT(40)
    <3> HIDE DEF s, D, Spent
    <3> QED
        BY <3>1, <3>2, SMTT(40)
  <2>3. CASE i = 1
    <3>1. c[i].undo = s
        BY <2>1, <2>3, SMTT(40) DEF ConnectTx
    <3> HIDE DEF s, D, Spent
    <3>2. c[i].undo \in Seq(D) /\ Len(c[i].undo) = 0
        BY <2>2, <2>3, <3>1
    <3>3. 2 .. i = {} /\ i \in 0 .. n /\ i # 0 /\ i - 1 = 0
        BY <1>0, <2>3, SMTT(40)
    <3> QED
        BY <3>2, <3>3
  <2>4. CASE i # 1
    <3>1. c[i].undo = Append(s, Spent(i))
        BY <2>1, <2>4, SMTT(40) DEF ConnectTx
    <3>2. Spent(i) \in D
      <4>1. c[i - 1].utxo \in Utxo
          BY <1>0, <1>1, SMTT(40)
      <4>2. Txs[b][i].vin \in SUBSET Outpoint
          BY <2>1 DEF Tx
      <4>3. Spent(i) \in [Txs[b][i].vin -> Coin]
          BY <4>1, <4>2 DEF Utxo
      <4> QED
          BY <4>2, <4>3
    <3> HIDE DEF s, D, Spent
    <3>3. c[i].undo \in Seq(D) /\ Len(c[i].undo) = i - 1
        BY <1>0, <2>2, <2>4, <3>1, <3>2, SMTT(40)
    <3>4. \A l \in 2 .. i : c[i].undo[l - 1] = Spent(l)
        BY <1>0, <2>2, <2>4, <3>1, <3>2, SMTT(40)
    <3>5. i \in 0 .. n /\ i # 0
        BY <1>0, SMTT(40)
    <3> QED
        BY <3>3, <3>4, <3>5
  <2> QED
      BY <2>3, <2>4
<1>4. 0 .. n \subseteq S
  <2> HIDE DEF S
  <2> QED
      BY <1>0, <1>2, <1>3, LoopInduction
<1>5. c[n].undo[j - 1] = Spent(j)
  <2>1. j \in 2 .. n
      BY DEF n
  <2>2. n \in S
    <3> HIDE DEF S
    <3> QED
        BY <1>0, <1>4, SMTT(40)
  <2> HIDE DEF Spent, D
  <2> QED
      BY <2>1, <2>2
<1> QED
    BY <1>5 DEF c, n

\* What one transaction does to the coins.
LEMMA ConnectTxCoins ==
    ASSUME NEW x, NEW t, NEW h, NEW o \in Outpoint, o \notin t.vout
    PROVE  ConnectTx(x, t, h).utxo.coins[o] \in {NoCoin, x.utxo.coins[o]}
<1>1. CASE t.coinbase
    BY <1>1 DEF ConnectTx, AddCoins
<1>2. CASE ~ t.coinbase
    BY <1>2 DEF ConnectTx, UpdateCoins, AddCoins, SpendCoins
<1> QED
    BY <1>1, <1>2

\* The outputs of a transaction are not there before it is connected.
LEMMA ConnectFresh ==
    ASSUME NEW b \in Block, NEW p \in Utxo, NoOverwrite(b, p),
           NEW i \in 1 .. Len(Txs[b]), NEW o \in Txs[b][i].vout
    PROVE  ConnectTxs(b, p)[i - 1].utxo.coins[o] = NoCoin
<1> DEFINE n == Len(Txs[b])
           c == ConnectTxs(b, p)
           S == {k \in 0 .. n : k < i => c[k].utxo.coins[o] = NoCoin}
<1>0. n \in Nat /\ Txs[b][i] \in Tx /\ DOMAIN Txs[b] = 1 .. n /\ i \in 1 .. n
    BY Lengths
<1>1. ConnectRun(b, p, c)
    BY ConnectLoop
<1> HIDE DEF c
<1>2. o \in Outpoint
    BY <1>0 DEF Tx
<1>3. 0 \in S
    BY <1>0, <1>1, SMTT(40) DEF ConnectRun, NoOverwrite
<1>4. ASSUME NEW k \in 1 .. n, k - 1 \in S PROVE k \in S
  <2> SUFFICES ASSUME k < i PROVE c[k].utxo.coins[o] = NoCoin
      BY <1>0, SMTT(40)
  <2>1. c[k] = ConnectTx(c[k - 1], Txs[b][k], Height[b])
      BY <1>1 DEF ConnectRun
  <2>2. c[k - 1].utxo.coins[o] = NoCoin
      BY <1>0, <1>4, SMTT(40)
  <2>3. o \notin Txs[b][k].vout
      BY <1>0, TxAssumption, SMTT(40)
  <2> QED
      BY <1>2, <2>1, <2>2, <2>3, ConnectTxCoins, SMTT(40)
<1> HIDE DEF n
<1>5. 0 .. n \subseteq S
  <2> HIDE DEF S
  <2> QED
      BY <1>0, <1>3, <1>4, LoopInduction
<1>6. i - 1 \in S
    BY <1>0, <1>5, SMTT(40)
<1> QED
    BY <1>0, <1>6, SMTT(40) DEF c

\* One transaction: what it spent is back, what it created is gone.
LEMMA DisconnectTxUndoes ==
    ASSUME NEW x, x.utxo \in Utxo, NEW y, NEW t \in Tx, NEW h, NEW undo,
           y.utxo.coins = ConnectTx(x, t, h).utxo.coins,
           \A o \in t.vout : x.utxo.coins[o] = NoCoin,
           ~ t.coinbase => undo = [o \in t.vin |-> x.utxo.coins[o]]
    PROVE  /\ DisconnectTx(y, t, h, undo).utxo.coins = x.utxo.coins
           /\ y.clean /\ t.pegin = {} => DisconnectTx(y, t, h, undo).clean
<1> DEFINE X == x.utxo.coins
           Y == y.utxo.coins
           d == DisconnectTx(y, t, h, undo)
<1>1. X \in [Outpoint -> Coin] /\ t.vin \subseteq Outpoint /\ t.vout \subseteq Outpoint
    BY DEF Utxo, Tx
<1>2. CASE t.coinbase
  <2>1. Y = [o \in Outpoint |-> IF o \in t.vout THEN h ELSE X[o]]
      BY <1>2 DEF ConnectTx, AddCoins
  <2>2. d.utxo.coins = [o \in Outpoint |-> IF o \in t.vout THEN NoCoin ELSE Y[o]]
      BY <1>2 DEF DisconnectTx, SpendCoins
  <2>3. d.clean = (y.clean /\ \A o \in t.vout : Y[o] = h)
      BY <1>2 DEF DisconnectTx
  <2> HIDE DEF d, X, Y
  <2>4. d.utxo.coins = X
      BY <1>1, <2>1, <2>2 DEF X
  <2>5. \A o \in t.vout : Y[o] = h
      BY <1>1, <2>1
  <2> QED
      BY <2>3, <2>4, <2>5 DEF d, X
<1>3. CASE ~ t.coinbase
  <2>1. Y = [o \in Outpoint |-> IF o \in t.vout THEN h ELSE IF o \in t.vin THEN NoCoin ELSE X[o]]
      BY <1>3 DEF ConnectTx, UpdateCoins, AddCoins, SpendCoins
  <2> DEFINE Z == [o \in Outpoint |-> IF o \in t.vout THEN NoCoin ELSE Y[o]]
  <2>2. d.utxo.coins = [o \in Outpoint |-> IF o \in t.vin THEN undo[o] ELSE Z[o]]
      BY <1>3 DEF DisconnectTx, ApplyTxInUndo, SpendCoins
  <2>3. d.clean = (/\ y.clean /\ \A o \in t.vout : Y[o] = h
                   /\ \A o \in t.vin : Z[o] = NoCoin
                   /\ t.pegin \subseteq y.utxo.pegins)
      BY <1>3 DEF DisconnectTx, ApplyTxInUndo, SpendCoins
  <2> HIDE DEF d, X, Y
  <2>4. d.utxo.coins = X
      BY <1>1, <1>3, <2>1, <2>2 DEF X
  <2>5. (\A o \in t.vout : Y[o] = h) /\ \A o \in t.vin : Z[o] = NoCoin
      BY <1>1, <2>1
  <2> HIDE DEF Z
  <2>6. y.clean /\ t.pegin = {} => d.clean
      BY <2>3, <2>5
  <2> QED
      BY <2>4, <2>6 DEF d, X
<1> QED
    BY <1>2, <1>3

\* DisconnectBlock brings back the coins below a block from those the block leaves, and
\* finds nothing unclean in a block without peg-ins.
LEMMA DisconnectUndoes ==
    ASSUME NEW b \in Block, NEW p \in Utxo, NoOverwrite(b, p),
           NEW w, w.coins = ConnectTxs(b, p)[Len(Txs[b])].utxo.coins
    PROVE  /\ DisconnectBlock(b, w, ConnectTxs(b, p)[Len(Txs[b])].undo).utxo.coins = p.coins
           /\ (\A i \in DOMAIN Txs[b] : Txs[b][i].pegin = {}) =>
                  DisconnectBlock(b, w, ConnectTxs(b, p)[Len(Txs[b])].undo).clean
<1> DEFINE n == Len(Txs[b])
           c == ConnectTxs(b, p)
           undo == c[n].undo
           d == DisconnectTxs(b, w, undo)
           Plain == \A i \in DOMAIN Txs[b] : Txs[b][i].pegin = {}
           S == {k \in 0 .. n : d[k].utxo.coins = c[n - k].utxo.coins /\ (Plain => d[k].clean)}
<1>0. n \in Nat /\ DOMAIN Txs[b] = 1 .. n
    BY Lengths
<1>1. ConnectRun(b, p, c) /\ \A i \in 0 .. n : c[i].utxo \in Utxo
    BY ConnectLoop, ConnectType
<1>2. DisconnectRun(b, w, undo, d)
    BY DisconnectLoop
<1>3. \A j \in 2 .. n : undo[j - 1] = [o \in Txs[b][j].vin |-> c[j - 1].utxo.coins[o]]
    BY ConnectUndo
<1>4. \A i \in 1 .. n : \A o \in Txs[b][i].vout : c[i - 1].utxo.coins[o] = NoCoin
    BY ConnectFresh
<1>5. w.coins = c[n].utxo.coins
    OBVIOUS
<1> HIDE DEF c, d, n, undo
<1>6. 0 \in S
    BY <1>0, <1>2, <1>5, SMTT(40) DEF DisconnectRun
<1>7. ASSUME NEW k \in 1 .. n, k - 1 \in S PROVE k \in S
  <2> DEFINE i == n + 1 - k
             t == Txs[b][i]
             x == c[i - 1]
             y == d[k - 1]
             ud == IF i = 1 THEN NoUndo ELSE undo[i - 1]
  <2>1. i \in 1 .. n /\ i - 1 \in 0 .. n /\ n - (k - 1) = i /\ n - k = i - 1 /\ k \in 0 .. n
      BY <1>0, SMTT(40)
  <2>2. d[k] = DisconnectTx(y, t, Height[b], ud)
      BY <1>2 DEF DisconnectRun, UndoLast, n
  <2>3. y.utxo.coins = c[i].utxo.coins /\ (Plain => y.clean)
      BY <1>7, <2>1
  <2> HIDE DEF i
  <2>4. c[i] = ConnectTx(x, t, Height[b])
      BY <1>1, <2>1 DEF ConnectRun, n
  <2>5. x.utxo \in Utxo /\ t \in Tx /\ (t.coinbase <=> i = 1) /\ (Plain => t.pegin = {})
      BY <1>0, <1>1, <2>1, Lengths, TxAssumption DEF n
  <2>6. \A o \in t.vout : x.utxo.coins[o] = NoCoin
      BY <1>4, <2>1
  <2>7. ~ t.coinbase => ud = [o \in t.vin |-> x.utxo.coins[o]]
    <3> SUFFICES ASSUME ~ t.coinbase PROVE undo[i - 1] = [o \in t.vin |-> x.utxo.coins[o]] /\ i # 1
        OBVIOUS
    <3>1. i \in 2 .. n
        BY <1>0, <2>1, <2>5, SMTT(40)
    <3> QED
        BY <1>3, <3>1, SMTT(40)
  <2> HIDE DEF x, y, t, ud
  <2>8. /\ DisconnectTx(y, t, Height[b], ud).utxo.coins = x.utxo.coins
        /\ y.clean /\ t.pegin = {} => DisconnectTx(y, t, Height[b], ud).clean
    <3>1. y.utxo.coins = ConnectTx(x, t, Height[b]).utxo.coins
        BY <2>3, <2>4
    <3> QED
        BY <2>5, <2>6, <2>7, <3>1, DisconnectTxUndoes
  <2>9. d[k].utxo.coins = c[n - k].utxo.coins
      BY <2>1, <2>2, <2>8 DEF x
  <2>10. Plain => d[k].clean
      BY <2>2, <2>3, <2>5, <2>8
  <2> QED
      BY <2>1, <2>9, <2>10
<1>8. 0 .. n \subseteq S
  <2> HIDE DEF S
  <2> QED
      BY <1>0, <1>6, <1>7, LoopInduction
<1>9. d[n].utxo.coins = c[0].utxo.coins /\ (Plain => d[n].clean)
  <2>1. n \in S /\ n - n = 0
      BY <1>0, <1>8, SMTT(40)
  <2> QED
      BY <2>1
<1>10. c[0].utxo = p
    BY <1>1, SMTT(40) DEF ConnectRun
<1>11. DisconnectBlock(b, w, ConnectTxs(b, p)[Len(Txs[b])].undo) = d[n]
    BY DEF DisconnectBlock, d, n, undo, c
<1> QED
    BY <1>9, <1>10, <1>11

\* A record of coins and peg-ins, whatever the coins.
Shape(u) ==
    /\ u = [coins |-> u.coins, pegins |-> u.pegins]
    /\ u.coins = [o \in Outpoint |-> u.coins[o]]
    /\ u.pegins \subseteq Pegin

\* With coins of the right type, that is all a Utxo is.
LEMMA ShapeType ==
    ASSUME NEW u
    PROVE  u \in Utxo <=> Shape(u) /\ u.coins \in [Outpoint -> Coin]
BY DEF Shape, Utxo

\* DisconnectBlock makes such a record.
LEMMA DisconnectShape ==
    ASSUME NEW b \in Block, NEW u, NEW undo, Shape(u)
    PROVE  Shape(DisconnectBlock(b, u, undo).utxo)
<1> DEFINE n == Len(Txs[b])
           d == DisconnectTxs(b, u, undo)
           S == {k \in 0 .. n : Shape(d[k].utxo)}
<1>0. n \in Nat
    BY Lengths
<1>1. DisconnectRun(b, u, undo, d)
    BY DisconnectLoop
<1> HIDE DEF d, n
<1>2. 0 \in S
    BY <1>0, <1>1, SMTT(40) DEF DisconnectRun
<1>3. ASSUME NEW k \in 1 .. n, k - 1 \in S PROVE k \in S
  <2>1. d[k] = UndoLast(b, undo, k, d[k - 1])
      BY <1>1 DEF DisconnectRun, n
  <2>2. ASSUME NEW x, Shape(x.utxo) PROVE Shape(UndoLast(b, undo, k, x).utxo)
      BY <2>2 DEF UndoLast, DisconnectTx, ApplyTxInUndo, SpendCoins, Shape
  <2> QED
      BY <1>0, <1>3, <2>1, <2>2, SMTT(40)
<1>4. 0 .. n \subseteq S
  <2> HIDE DEF S
  <2> QED
      BY <1>0, <1>2, <1>3, LoopInduction
<1> QED
    BY <1>0, <1>4, SMTT(40) DEF d, n, DisconnectBlock

\* RollforwardBlock makes such a record.
LEMMA RollforwardShape ==
    ASSUME NEW b \in Block, NEW u, Shape(u)
    PROVE  Shape(RollforwardBlock(b, u))
<1> DEFINE n == Len(Txs[b])
           v == RollforwardTxs(b, u)
           S == {i \in 0 .. n : Shape(v[i])}
<1>0. n \in Nat
    BY Lengths
<1>1. RollforwardRun(b, u, v)
    BY RollforwardLoop
<1> HIDE DEF v, n
<1>2. 0 \in S
    BY <1>0, <1>1, SMTT(40) DEF RollforwardRun
<1>3. ASSUME NEW i \in 1 .. n, i - 1 \in S PROVE i \in S
  <2>1. v[i] = RollTx(b, i, v[i - 1])
      BY <1>1 DEF RollforwardRun, n
  <2>2. ASSUME NEW x, Shape(x) PROVE Shape(RollTx(b, i, x))
      BY <2>2 DEF RollTx, AddCoins, SpendCoins, Shape
  <2> QED
      BY <1>0, <1>3, <2>1, <2>2, SMTT(40)
<1>4. 0 .. n \subseteq S
  <2> HIDE DEF S
  <2> QED
      BY <1>0, <1>2, <1>3, LoopInduction
<1> QED
    BY <1>0, <1>4, SMTT(40) DEF v, n, RollforwardBlock

-----------------------------------------------------------------------------
(* The coins of a chain.                                                   *)

\* UtxoOf is what it says it is: the recursion along the tree is well founded.
LEMMA UtxoStep ==
    /\ UtxoOf[Genesis] = ConnectBlock(Genesis, NoCoins).utxo
    /\ \A b \in Block \ {Genesis} : UtxoOf[b] = ConnectBlock(b, UtxoOf[Parent[b]]).utxo
<1> DEFINE Node(b, x) == ConnectBlock(b, x).utxo
           Below(b, f) == IF b = Genesis THEN NoCoins ELSE f[Parent[b]]
           Along(b, f) == f = [a \in Chain[b] |-> Node(a, Below(a, f))]
           G(b) == CHOOSE f : Along(b, f)
           F == [b \in Block |-> G(b)[b]]
           All(f) == f = [b \in Block |-> Node(b, Below(b, f))]
<1>1. UtxoOf = CHOOSE f : All(f)
    BY DEF UtxoOf
<1> HIDE DEF Node
<1>2. ASSUME NEW b \in Block PROVE \E f : Along(b, f)
  <2> DEFINE S == {x \in Block : \E f : Along(x, f)}
  <2>1. Genesis \in S
    <3>1. Along(Genesis, [a \in {Genesis} |-> Node(Genesis, NoCoins)])
        BY ChainRoot
    <3> HIDE DEF Along
    <3> QED
        BY <3>1, TreeAssumption
  <2>2. ASSUME NEW x \in Block \ {Genesis}, Parent[x] \in S PROVE x \in S
    <3>1. PICK f : Along(Parent[x], f)
        BY <2>2
    <3> DEFINE g == [a \in Chain[x] |-> IF a = x THEN Node(x, f[Parent[x]]) ELSE f[a]]
    <3>2. /\ Chain[x] = {x} \cup Chain[Parent[x]] /\ x \notin Chain[Parent[x]]
          /\ Parent[x] \in Chain[Parent[x]]
          /\ \A a \in Chain[Parent[x]] \ {Genesis} : Parent[a] \in Chain[Parent[x]]
        BY ChainStep, ParentBelow, ChainType, ChainClosed DEF ParentClosed
    <3>3. Along(x, g)
        BY <3>1, <3>2
    <3> HIDE DEF Along, g
    <3> QED
        BY <3>3
  <2> HIDE DEF S
  <2>3. S = Block
      BY <2>1, <2>2, TreeInduction DEF S
  <2> QED
      BY <2>3 DEF S
<1>3. ASSUME NEW b \in Block PROVE Along(b, G(b))
  <2> HIDE DEF Along
  <2> QED
      BY <1>2
<1> HIDE DEF G
<1>4. ASSUME NEW b \in Block, NEW a \in Chain[b] PROVE G(b)[a] = Node(a, Below(a, G(b)))
    BY <1>3
<1> DEFINE S == {a \in Block : \A b \in Block : a \in Chain[b] => G(b)[a] = G(a)[a]}
<1>5. Genesis \in S
    BY <1>4, TreeAssumption, ChainType
<1>6. ASSUME NEW a \in Block \ {Genesis}, Parent[a] \in S PROVE a \in S
  <2> SUFFICES ASSUME NEW b \in Block, a \in Chain[b] PROVE G(b)[a] = G(a)[a]
      OBVIOUS
  <2>1. Parent[a] \in Block /\ Parent[a] \in Chain[b] /\ Parent[a] \in Chain[a] /\ a \in Chain[a]
      BY ChainStep, ChainType, ChainClosed DEF ParentClosed
  <2>2. G(b)[Parent[a]] = G(a)[Parent[a]]
      BY <1>6, <2>1, SMTT(40)
  <2> QED
      BY <1>4, <2>1, <2>2, SMTT(40)
<1>7. S = Block
  <2> HIDE DEF S
  <2> QED
      BY <1>5, <1>6, TreeInduction DEF S
<1>8. All(F)
  <2>1. ASSUME NEW b \in Block PROVE F[b] = Node(b, Below(b, F))
    <3>1. CASE b = Genesis
        BY <1>4, <3>1, ChainType
    <3>2. CASE b # Genesis
      <4>1. Parent[b] \in Block /\ Parent[b] \in Chain[b] /\ b \in Chain[b]
          BY <3>2, ChainStep, ChainType
      <4>2. G(b)[Parent[b]] = G(Parent[b])[Parent[b]]
          BY <1>7, <4>1
      <4> QED
          BY <1>4, <3>2, <4>1, <4>2
    <3> QED
        BY <3>1, <3>2
  <2> HIDE DEF Below
  <2> QED
      BY <2>1
<1>9. All(UtxoOf)
  <2> HIDE DEF All, F
  <2> QED
      BY <1>1, <1>8
<1> QED
    BY <1>9, TreeAssumption DEF Node

\* The coins of a chain have their type.
LEMMA UtxoType == \A b \in Block : UtxoOf[b] \in Utxo
<1> DEFINE S == {b \in Block : UtxoOf[b] \in Utxo}
<1>1. NoCoins \in Utxo
    BY DEF NoCoins, Utxo, Coin
<1>2. Genesis \in S
    BY <1>1, UtxoStep, ConnectType, TreeAssumption
<1>3. ASSUME NEW b \in Block \ {Genesis}, Parent[b] \in S PROVE b \in S
    BY <1>3, UtxoStep, ConnectType
<1> HIDE DEF S
<1>4. S = Block
    BY <1>2, <1>3, TreeInduction DEF S
<1> QED
    BY <1>4 DEF S

-----------------------------------------------------------------------------
(* Replaying.                                                              *)

\* v is a run of the loop that rolls forward.
ForwardRun(old, new, start, v) ==
    \A b \in Chain[new] :
        v[b] = IF b \in RollforwardBlocks(old, new) THEN RollforwardBlock(b, v[Parent[b]]) ELSE start

\* RolledForward is that run.
LEMMA ForwardLoop ==
    ASSUME NEW old \in Block \cup {NoBlock}, NEW new \in Block, NEW start
    PROVE  ForwardRun(old, new, start, RolledForward(old, new, start))
<1> DEFINE R == RollforwardBlocks(old, new)
           Runs(b, v) == v = [a \in Chain[b] |->
                                 IF a \in R THEN RollforwardBlock(a, v[Parent[a]]) ELSE start]
           S == {b \in Block : \E v : Runs(b, v)}
<1>1. RolledForward(old, new, start) = CHOOSE v : Runs(new, v)
    BY DEF RolledForward
<1>2. Genesis \notin R
    BY TreeAssumption DEF RollforwardBlocks
<1> HIDE DEF R
<1>3. Genesis \in S
  <2>1. Runs(Genesis, [a \in {Genesis} |-> start])
      BY <1>2, ChainRoot
  <2> HIDE DEF Runs
  <2> QED
      BY <2>1, TreeAssumption
<1>4. ASSUME NEW x \in Block \ {Genesis}, Parent[x] \in S PROVE x \in S
  <2>1. PICK f : Runs(Parent[x], f)
      BY <1>4
  <2> DEFINE g == [a \in Chain[x] |->
                      IF a # x THEN f[a] ELSE IF x \in R THEN RollforwardBlock(x, f[Parent[x]]) ELSE start]
  <2>2. /\ Chain[x] = {x} \cup Chain[Parent[x]] /\ x \notin Chain[Parent[x]]
        /\ Parent[x] \in Chain[Parent[x]]
        /\ \A a \in Chain[Parent[x]] \ {Genesis} : Parent[a] \in Chain[Parent[x]]
      BY ChainStep, ParentBelow, ChainType, ChainClosed DEF ParentClosed
  <2>3. Runs(x, g)
      BY <1>2, <2>1, <2>2
  <2> HIDE DEF Runs, g
  <2> QED
      BY <2>3
<1>5. \E v : Runs(new, v)
  <2> HIDE DEF S
  <2>1. S = Block
      BY <1>3, <1>4, TreeInduction DEF S
  <2> QED
      BY <2>1 DEF S
<1>6. Runs(new, RolledForward(old, new, start))
  <2> HIDE DEF Runs
  <2> QED
      BY <1>1, <1>5
<1> QED
    BY <1>6 DEF ForwardRun, R

\* u is a run of the loop that rolls back.
BackRun(old, u) ==
    /\ u[old] = db
    /\ \A c \in Chain[old] \ {Genesis} : u[Parent[c]] = DisconnectBlock(c, u[c], rev[c]).utxo

\* RolledBack is that run.
LEMMA BackLoop ==
    ASSUME NEW old \in Block
    PROVE  BackRun(old, RolledBack(old))
<1> DEFINE Child(b) == CHOOSE a \in Chain[old] \ {Genesis} : Parent[a] = b
           Node(c, x) == DisconnectBlock(c, x, rev[c]).utxo
           Runs(T, f) == f = [b \in T |-> IF b = old THEN db ELSE Node(Child(b), f[Child(b)])]
           Up(b) == {a \in Chain[old] : b \in Chain[a]}
           S == {b \in Chain[old] : \E f : Runs(Up(b), f)}
<1>1. RolledBack(old) = CHOOSE f : Runs(Chain[old], f)
    BY DEF RolledBack
<1>2. ASSUME NEW c \in Chain[old] \ {Genesis}
      PROVE  /\ c \in Block /\ Parent[c] \in Chain[old] /\ Parent[c] # old
             /\ \A a \in Chain[old] \ {Genesis} : Parent[a] = Parent[c] => a = c
  <2>1. c \in Block /\ Parent[c] \in Chain[old]
      BY ChainType, ChainClosed DEF ParentClosed
  <2>2. Parent[c] # old
      BY <2>1, ParentBelow
  <2>3. ASSUME NEW a \in Chain[old] \ {Genesis}, Parent[a] = Parent[c] PROVE a = c
    <3>1. a \in Block /\ (a \in Chain[c] \/ c \in Chain[a])
        BY ChainType, ChainLinear
    <3> QED
        BY <2>1, <2>3, <3>1, ChainStep, ParentBelow, SMTT(40)
  <2> QED
      BY <2>1, <2>2, <2>3
<1>3. ASSUME NEW c \in Chain[old] \ {Genesis} PROVE Child(Parent[c]) = c
    BY <1>2
<1>4. ASSUME NEW a \in Chain[old], a # old
      PROVE  Child(a) \in Chain[old] /\ a \in Chain[Child(a)]
  <2>1. PICK c \in Chain[old] \ Chain[a] : c # Genesis /\ Parent[c] = a
      BY <1>4, ChildExists
  <2>2. Child(a) = c
      BY <1>3, <2>1, SMTT(40)
  <2> QED
      BY <1>2, <2>1, <2>2, ChainStep
<1> HIDE DEF Child, Node
<1>5. old \in S
  <2>1. Up(old) = {old} /\ old \in Chain[old]
      BY ChainType, ChainAntisymmetric, SMTT(40)
  <2>2. Runs({old}, [b \in {old} |-> db])
      OBVIOUS
  <2> HIDE DEF Runs, Up
  <2> QED
      BY <2>1, <2>2
<1>6. ASSUME NEW b \in S, b # Genesis PROVE Parent[b] \in S
  <2>1. b \in Chain[old] \ {Genesis}
      BY <1>6
  <2>2. PICK f : Runs(Up(b), f)
      BY <1>6
  <2>3. Up(Parent[b]) = Up(b) \cup {Parent[b]} /\ Parent[b] \notin Up(b) /\ b \in Up(b)
    <3>1. b \in Block /\ Parent[b] \in Block /\ Parent[b] \in Chain[old]
        BY <1>2, <2>1, ChainType
    <3>2. b \notin Chain[Parent[b]] /\ b \in Chain[b] /\ Parent[b] \in Chain[Parent[b]]
        BY <2>1, <3>1, ChainType, ParentBelow
    <3>3. ASSUME NEW a \in Up(b) PROVE a \in Up(Parent[b])
        BY <2>1, <3>1, ChainType, ChainTrans, ChainStep
    <3>4. ASSUME NEW a \in Up(Parent[b]) PROVE a \in Up(b) \/ a = Parent[b]
      <4>1. a \in Block /\ (b \in Chain[a] \/ a \in Chain[b])
          BY <2>1, ChainType, ChainLinear
      <4>2. CASE b \in Chain[a]
          BY <4>2
      <4>3. CASE a \in Chain[b]
          BY <2>1, <3>1, <3>2, <4>1, <4>3, ChainStep, ChainAntisymmetric, SMTT(40)
      <4> QED
          BY <4>1, <4>2, <4>3
    <3> QED
        BY <2>1, <3>1, <3>2, <3>3, <3>4
  <2>4. ASSUME NEW a \in Up(b), a # old PROVE Child(a) \in Up(b)
    <3>1. Child(a) \in Block /\ a \in Chain[Child(a)] /\ Child(a) \in Chain[old]
        BY <1>4, <2>4, ChainType
    <3>2. Chain[a] \subseteq Chain[Child(a)]
        BY <3>1, ChainTrans
    <3> QED
        BY <3>1, <3>2
  <2>5. Child(Parent[b]) = b /\ Parent[b] # old /\ Parent[b] \in Chain[old]
      BY <1>2, <1>3, <2>1
  <2> HIDE DEF Up
  <2> DEFINE g == [a \in Up(Parent[b]) |-> IF a = Parent[b] THEN Node(b, f[b]) ELSE f[a]]
  <2>6. Runs(Up(Parent[b]), g)
      BY <2>2, <2>3, <2>4, <2>5
  <2> HIDE DEF Runs, g
  <2> QED
      BY <2>5, <2>6
<1>7. Chain[old] \subseteq S
  <2>1. S \in SUBSET Block
      BY ChainType
  <2> HIDE DEF S
  <2> QED
      BY <1>5, <1>6, <2>1, ChainLeast DEF ParentClosed
<1>8. \E f : Runs(Chain[old], f)
  <2>1. Genesis \in S
    <3> HIDE DEF S
    <3> QED
        BY <1>7, TreeAssumption
  <2>2. Up(Genesis) = Chain[old]
      BY ChainType, TreeAssumption
  <2> HIDE DEF Runs, Up
  <2> QED
      BY <2>1, <2>2
<1>9. Runs(Chain[old], RolledBack(old))
  <2> HIDE DEF Runs
  <2> QED
      BY <1>1, <1>8
<1> DEFINE u == RolledBack(old)
<1> HIDE DEF u
<1>10. \A b \in Chain[old] : u[b] = IF b = old THEN db ELSE Node(Child(b), u[Child(b)])
    BY <1>9 DEF u
<1>11. u[old] = db
    BY <1>10, ChainType
<1>12. ASSUME NEW c \in Chain[old] \ {Genesis} PROVE u[Parent[c]] = Node(c, u[c])
    BY <1>2, <1>3, <1>10
<1> QED
    BY <1>11, <1>12 DEF BackRun, Node, u

\* Undoing a block takes the coins of its chain to those of its parent's.
LEMMA UndoStep ==
    ASSUME NEW b \in Block \ {Genesis}, Undoable(b), NEW w, w.coins = UtxoOf[b].coins
    PROVE  /\ DisconnectBlock(b, w, rev[b]).utxo.coins = UtxoOf[Parent[b]].coins
           /\ (\A i \in DOMAIN Txs[b] : Txs[b][i].pegin = {}) => DisconnectBlock(b, w, rev[b]).clean
<1> DEFINE p == UtxoOf[Parent[b]]
           c == ConnectTxs(b, p)[Len(Txs[b])]
<1>1. p \in Utxo
    BY UtxoType, ChainStep
<1>2. UtxoOf[b] = c.utxo /\ rev[b] = c.undo /\ NoOverwrite(b, p)
    BY UtxoStep DEF ConnectBlock, Undoable
<1> HIDE DEF p
<1>3. w.coins = c.utxo.coins
    BY <1>2
<1>4. /\ DisconnectBlock(b, w, c.undo).utxo.coins = p.coins
      /\ (\A i \in DOMAIN Txs[b] : Txs[b][i].pegin = {}) => DisconnectBlock(b, w, c.undo).clean
    BY <1>1, <1>2, <1>3, DisconnectUndoes
<1> HIDE DEF c
<1> QED
    BY <1>2, <1>4 DEF p

\* Rolling back from the database reaches, at every outpoint, the coin of the chain, or
\* leaves that of the database where the chain changes nothing.
LEMMA RollbackCoins ==
    ASSUME NEW old \in Block, NEW b \in Chain[old],
           \A a \in Chain[old] \ Chain[b] : Undoable(a)
    PROVE  Agree(RolledBack(old)[b].coins, UtxoOf[b].coins, db.coins, UtxoOf[old].coins)
<1> DEFINE r == RolledBack(old)
           OK(x) == (\A a \in Chain[old] \ Chain[x] : Undoable(a)) =>
                        Agree(r[x].coins, UtxoOf[x].coins, db.coins, UtxoOf[old].coins)
           S == {x \in Chain[old] : OK(x)}
<1>1. BackRun(old, r)
    BY BackLoop
<1> HIDE DEF r
<1>2. old \in S
    BY <1>1, ChainType DEF BackRun, Agree
<1>3. ASSUME NEW x \in S, x # Genesis PROVE Parent[x] \in S
  <2>1. x \in Block \ {Genesis} /\ x \in Chain[old] /\ Parent[x] \in Chain[old]
      BY <1>3, ChainType, ChainClosed DEF ParentClosed
  <2> SUFFICES ASSUME \A a \in Chain[old] \ Chain[Parent[x]] : Undoable(a)
               PROVE  Agree(r[Parent[x]].coins, UtxoOf[Parent[x]].coins, db.coins, UtxoOf[old].coins)
      BY <2>1
  <2>2. Undoable(x) /\ \A a \in Chain[old] \ Chain[x] : Undoable(a)
      BY <2>1, ChainStep, ParentBelow, SMTT(40)
  <2>3. Agree(r[x].coins, UtxoOf[x].coins, db.coins, UtxoOf[old].coins)
      BY <1>3, <2>2
  <2>4. r[Parent[x]] = DisconnectBlock(x, r[x], rev[x]).utxo
      BY <1>1, <2>1 DEF BackRun
  <2>5. DisconnectBlock(x, UtxoOf[x], rev[x]).utxo.coins = UtxoOf[Parent[x]].coins
      BY <2>1, <2>2, UndoStep
  <2>6. Agree(DisconnectBlock(x, r[x], rev[x]).utxo.coins, DisconnectBlock(x, UtxoOf[x], rev[x]).utxo.coins,
              r[x].coins, UtxoOf[x].coins)
      BY <2>1, DisconnectAgree
  <2>7. Agree(r[Parent[x]].coins, UtxoOf[Parent[x]].coins, r[x].coins, UtxoOf[x].coins)
      BY <2>4, <2>5, <2>6
  <2> QED
      BY <2>3, <2>7, AgreeTrans, SMTT(40)
<1>4. Chain[old] \subseteq S
  <2>1. S \in SUBSET Block
      BY ChainType
  <2> HIDE DEF S
  <2> QED
      BY <1>2, <1>3, <2>1, ChainLeast DEF ParentClosed
<1> QED
    BY <1>4 DEF r

\* Rolling forward from a block f of the new chain does the same, all the way up.
LEMMA ForwardCoins ==
    ASSUME NEW old \in Block \cup {NoBlock}, NEW new \in Block, NEW f \in Chain[new],
           RollforwardBlocks(old, new) = Chain[new] \ Chain[f],
           NEW start, NEW u, NEW v, Agree(start.coins, UtxoOf[f].coins, u, v)
    PROVE  Agree(RolledForward(old, new, start)[new].coins, UtxoOf[new].coins, u, v)
<1> DEFINE r == RolledForward(old, new, start)
           S == {b \in Block : b \in Chain[new] /\ f \in Chain[b] => Agree(r[b].coins, UtxoOf[b].coins, u, v)}
<1>1. ForwardRun(old, new, start, r)
    BY ForwardLoop
<1> HIDE DEF r
<1>2. f \in Block
    BY ChainType
<1>3. ASSUME NEW b \in Block, b \in Chain[new], b = f PROVE b \in S
    BY <1>1, <1>2, <1>3, ChainType DEF ForwardRun
<1>4. Genesis \in S
    BY <1>3, ChainRoot, TreeAssumption
<1>5. ASSUME NEW b \in Block \ {Genesis}, Parent[b] \in S PROVE b \in S
  <2> SUFFICES ASSUME b \in Chain[new], f \in Chain[b], b # f
               PROVE  Agree(r[b].coins, UtxoOf[b].coins, u, v)
      BY <1>3
  <2>1. Parent[b] \in Chain[new] /\ f \in Chain[Parent[b]] /\ b \notin Chain[f] /\ Parent[b] \in Block
      BY <1>2, ChainStep, ChainTrans, ChainAntisymmetric, SMTT(40)
  <2>2. Agree(r[Parent[b]].coins, UtxoOf[Parent[b]].coins, u, v)
      BY <1>5, <2>1
  <2>3. r[b] = RollforwardBlock(b, r[Parent[b]])
      BY <1>1, <2>1 DEF ForwardRun
  <2>4. RollforwardBlock(b, UtxoOf[Parent[b]]).coins = UtxoOf[b].coins
    <3>1. UtxoOf[b] = ConnectBlock(b, UtxoOf[Parent[b]]).utxo
        BY UtxoStep
    <3>2. ConnectBlock(b, UtxoOf[Parent[b]]) = ConnectTxs(b, UtxoOf[Parent[b]])[Len(Txs[b])]
        BY DEF ConnectBlock
    <3>3. RollforwardBlock(b, UtxoOf[Parent[b]]).coins = ConnectTxs(b, UtxoOf[Parent[b]])[Len(Txs[b])].utxo.coins
        BY RollforwardConnects
    <3> QED
        BY <3>1, <3>2, <3>3
  <2>5. Agree(RollforwardBlock(b, r[Parent[b]]).coins, RollforwardBlock(b, UtxoOf[Parent[b]]).coins,
              r[Parent[b]].coins, UtxoOf[Parent[b]].coins)
      BY RollforwardAgree
  <2>6. Agree(r[b].coins, UtxoOf[b].coins, r[Parent[b]].coins, UtxoOf[Parent[b]].coins)
      BY <2>3, <2>4, <2>5
  <2> QED
      BY <2>2, <2>6, AgreeTrans, SMTT(40)
<1>6. S = Block
  <2> HIDE DEF S
  <2> QED
      BY <1>4, <1>5, TreeInduction DEF S
<1> QED
    BY <1>6, ChainType DEF r

\* Replaying makes such a record.
LEMMA ReplayedShape ==
    ASSUME NEW old \in Block \cup {NoBlock}, NEW new \in Block, Shape(db)
    PROVE  Shape(Replayed(old, new))
<1>1. ASSUME NEW start, Shape(start) PROVE Shape(RolledForward(old, new, start)[new])
  <2> DEFINE r == RolledForward(old, new, start)
             S == {b \in Block : b \in Chain[new] => Shape(r[b])}
  <2>1. ForwardRun(old, new, start, r)
      BY ForwardLoop
  <2> HIDE DEF r
  <2>2. Genesis \in S
      BY <1>1, <2>1, TreeAssumption DEF ForwardRun, RollforwardBlocks
  <2>3. ASSUME NEW b \in Block \ {Genesis}, Parent[b] \in S PROVE b \in S
    <3> SUFFICES ASSUME b \in Chain[new] PROVE Shape(r[b])
        OBVIOUS
    <3>1. Shape(r[Parent[b]])
        BY <2>3, ChainClosed DEF ParentClosed
    <3>2. r[b] = RollforwardBlock(b, r[Parent[b]]) \/ r[b] = start
        BY <2>1 DEF ForwardRun
    <3> QED
        BY <1>1, <3>1, <3>2, RollforwardShape
  <2>4. S = Block
    <3> HIDE DEF S
    <3> QED
        BY <2>2, <2>3, TreeInduction DEF S
  <2> QED
      BY <2>4, ChainType DEF r
<1>2. ASSUME old # NoBlock, NEW b \in Chain[old] PROVE Shape(RolledBack(old)[b])
  <2> DEFINE r == RolledBack(old)
             S == {x \in Chain[old] : Shape(r[x])}
  <2>0. old \in Block
      BY <1>2
  <2>1. BackRun(old, r)
      BY <2>0, BackLoop
  <2> HIDE DEF r
  <2>2. old \in S
      BY <2>0, <2>1, ChainType DEF BackRun
  <2>3. ASSUME NEW x \in S, x # Genesis PROVE Parent[x] \in S
    <3>1. x \in Block /\ x \in Chain[old] /\ Parent[x] \in Chain[old]
        BY <2>0, <2>3, ChainType, ChainClosed DEF ParentClosed
    <3>2. r[Parent[x]] = DisconnectBlock(x, r[x], rev[x]).utxo
        BY <2>1, <2>3, <3>1 DEF BackRun
    <3> QED
        BY <2>3, <3>1, <3>2, DisconnectShape
  <2>4. Chain[old] \subseteq S
    <3>1. S \in SUBSET Block
        BY <2>0, ChainType
    <3> HIDE DEF S
    <3> QED
        BY <2>2, <2>3, <3>1, ChainLeast DEF ParentClosed
  <2> QED
      BY <2>4 DEF r
<1>3. CASE old = NoBlock
    BY <1>1, <1>3 DEF Replayed
<1>4. CASE old # NoBlock
  <2> DEFINE f == LastCommonAncestor(old, new)
  <2>1. Genesis \in Chain[old] \cap Chain[new]
      BY <1>4, TreeAssumption
  <2>2. \E c \in Chain[old] \cap Chain[new] : Chain[old] \cap Chain[new] \subseteq Chain[c]
      BY <2>1, HighestExists
  <2>3. f \in Chain[old]
      BY <2>2 DEF LastCommonAncestor
  <2> HIDE DEF f
  <2>4. Shape(RolledBack(old)[f])
      BY <1>2, <1>4, <2>3
  <2> QED
      BY <1>1, <1>4, <2>4 DEF Replayed, f
<1> QED
    BY <1>3, <1>4

\* The comment in the rollback loop of ReplayBlocks, "both writing a UTXO and deleting a UTXO are idempotent
\* operations": from a database in transition the replay reaches the coins of the new head.
LEMMA ReplayCoins ==
    ASSUME NEW old \in Block \cup {NoBlock}, NEW new \in Block, GenesisOutputs = FALSE, Shape(db),
           \A a \in RollbackBlocks(old, new) : Undoable(a),
           \A o \in Outpoint : db.coins[o] \in {CoinsOf(new)[o], CoinsOf(old)[o]}
    PROVE  Replayed(old, new) \in Utxo /\ Replayed(old, new).coins = CoinsOf(new)
<1> DEFINE r == Replayed(old, new)
           f == IF old = NoBlock THEN Genesis ELSE LastCommonAncestor(old, new)
           start == IF old = NoBlock THEN db ELSE RolledBack(old)[LastCommonAncestor(old, new)]
<1>1. r = RolledForward(old, new, start)[new]
    BY DEF Replayed
<1>2. /\ f \in Chain[new]
      /\ RollforwardBlocks(old, new) = Chain[new] \ Chain[f]
      /\ Agree(start.coins, UtxoOf[f].coins, db.coins, CoinsOf(old))
  <2>1. CASE old = NoBlock
    <3>1. UtxoOf[Genesis].coins = CoinsOf(old)
        BY <2>1, UtxoStep DEF ConnectBlock, CoinsOf
    <3> QED
        BY <2>1, <3>1, ChainRoot, TreeAssumption DEF RollforwardBlocks, Agree
  <2>2. CASE old # NoBlock
    <3> DEFINE l == LastCommonAncestor(old, new)
    <3>1. Genesis \in Chain[old] \cap Chain[new] /\ old \in Block
        BY <2>2, TreeAssumption
    <3>2. \E c \in Chain[old] \cap Chain[new] : Chain[old] \cap Chain[new] \subseteq Chain[c]
        BY <3>1, HighestExists
    <3>3. l \in Chain[old] \cap Chain[new] /\ Chain[old] \cap Chain[new] \subseteq Chain[l]
        BY <3>2 DEF LastCommonAncestor
    <3> HIDE DEF l
    <3>4. Chain[l] = Chain[old] \cap Chain[new]
        BY <3>1, <3>3, ChainTrans
    <3>5. RollforwardBlocks(old, new) = Chain[new] \ Chain[l] /\ RollbackBlocks(old, new) = Chain[old] \ Chain[l]
        BY <2>2, <3>4 DEF RollforwardBlocks, RollbackBlocks
    <3>6. Agree(RolledBack(old)[l].coins, UtxoOf[l].coins, db.coins, UtxoOf[old].coins)
        BY <3>1, <3>3, <3>5, RollbackCoins
    <3>7. f = l /\ start = RolledBack(old)[l] /\ CoinsOf(old) = UtxoOf[old].coins
        BY <2>2 DEF l, CoinsOf
    <3> HIDE DEF f, start
    <3> QED
        BY <3>3, <3>5, <3>6, <3>7
  <2> QED
      BY <2>1, <2>2
<1> HIDE DEF f, start
<1>3. Agree(r.coins, UtxoOf[new].coins, db.coins, CoinsOf(old))
    BY <1>1, <1>2, ForwardCoins
<1>4. CoinsOf(new) = UtxoOf[new].coins /\ CoinsOf(new) \in [Outpoint -> Coin]
    BY UtxoType, TreeAssumption DEF CoinsOf, Utxo
<1>5. Shape(r)
    BY ReplayedShape
<1> HIDE DEF r
<1>6. ASSUME NEW o \in Outpoint PROVE r.coins[o] = CoinsOf(new)[o]
    BY <1>3, <1>4 DEF Agree
<1>7. r.coins = CoinsOf(new)
    BY <1>4, <1>5, <1>6 DEF Shape
<1> QED
    BY <1>4, <1>5, <1>7, ShapeType DEF r

-----------------------------------------------------------------------------
(* CoinsInv is inductive.                                                  *)

\* UndoOK only asks for the blocks that have undo data on record.
LEMMA UndoKept ==
    ASSUME UndoOK, rev' = rev,
           \A b \in Block : "undo" \in index'[b] \cup diskIndex'[b] => "undo" \in index[b] \cup diskIndex[b]
    PROVE  UndoOK'
BY DEF UndoOK, Undoable

\* The node starts without a block and without coins.
LEMMA InitCoins == Init => CoinsInv
<1> SUFFICES ASSUME Init PROVE CoinsInv
    OBVIOUS
<1>1. NoCoins \in Utxo
    BY DEF NoCoins, Utxo, Coin
<1>2. TypeOK
    BY <1>1 DEF Init, TypeOK
<1>3. UndoOK
    BY DEF Init, UndoOK
<1>4. DatabaseOK /\ ViewOK
    BY DEF Init, DatabaseOK, ViewOK, CoinsOf
<1> QED
    BY <1>2, <1>3, <1>4 DEF CoinsInv

\* A stored block gets no undo data.
LEMMA AcceptBlockCoins ==
    ASSUME CoinsInv, NEW b \in Block, AcceptBlock(b)
    PROVE  CoinsInv'
<1>1. TypeOK'
  <2>1. index' \in [Block -> SUBSET Status]
      BY DEF AcceptBlock, CoinsInv, TypeOK, Status
  <2> QED
      BY <2>1 DEF AcceptBlock, CoinsInv, TypeOK, coinsDB
<1>2. \A a \in Block : "undo" \in index'[a] => "undo" \in index[a]
    BY DEF AcceptBlock
<1>3. UndoOK'
    BY <1>2, UndoKept DEF AcceptBlock, CoinsInv
<1>4. DatabaseOK' /\ ViewOK'
    BY DEF AcceptBlock, CoinsInv, DatabaseOK, ViewOK, coinsDB
<1> QED
    BY <1>1, <1>3, <1>4 DEF CoinsInv

\* The tip and its undo data come from the coins of the chain below it.
LEMMA ConnectTipCoins ==
    ASSUME CoinsInv, GenesisOutputs = FALSE, NEW b \in Block, ConnectTip(b)
    PROVE  CoinsInv'
<1> DEFINE c == ConnectBlock(b, view)
<1>1. view \in Utxo /\ view.coins = CoinsOf(best) /\ index \in [Block -> SUBSET Status] /\ DOMAIN rev = Block
    BY DEF ConnectTip, CoinsInv, TypeOK, ViewOK
<1>2. c.utxo \in Utxo /\ (b # Genesis => NoOverwrite(b, view))
    BY <1>1, ConnectType DEF ConnectTip
<1>3. view' = c.utxo /\ c.utxo.coins = UtxoOf[b].coins
  <2>1. CASE b = Genesis
      BY <1>1, <2>1, UtxoStep DEF ConnectTip, ConnectBlock, CoinsOf
  <2>2. CASE b # Genesis
    <3>1. view.coins = UtxoOf[Parent[b]].coins
        BY <1>1, <2>2, ChainStep, TreeAssumption, SMTT(40) DEF ConnectTip, CoinsOf
    <3>2. c = ConnectTxs(b, view)[Len(Txs[b])] /\ UtxoOf[b] = ConnectTxs(b, UtxoOf[Parent[b]])[Len(Txs[b])].utxo
        BY <2>2, UtxoStep DEF ConnectBlock
    <3> HIDE DEF c
    <3>3. c.utxo.coins = UtxoOf[b].coins
        BY <3>1, <3>2, ConnectCoinsOnly, SMTT(40)
    <3> QED
        BY <3>3 DEF ConnectTip, c
  <2> QED
      BY <2>1, <2>2
<1>4. b # Genesis => NoOverwrite(b, UtxoOf[Parent[b]]) /\ c.undo = ConnectBlock(b, UtxoOf[Parent[b]]).undo
  <2> SUFFICES ASSUME b # Genesis
               PROVE  NoOverwrite(b, UtxoOf[Parent[b]]) /\ c.undo = ConnectBlock(b, UtxoOf[Parent[b]]).undo
      OBVIOUS
  <2>1. view.coins = UtxoOf[Parent[b]].coins
      BY <1>1, ChainStep, TreeAssumption, SMTT(40) DEF ConnectTip, CoinsOf
  <2>2. NoOverwrite(b, UtxoOf[Parent[b]])
      BY <1>2, <2>1 DEF NoOverwrite
  <2>3. ConnectTxs(b, view)[Len(Txs[b])].undo = ConnectTxs(b, UtxoOf[Parent[b]])[Len(Txs[b])].undo
      BY <2>1, ConnectCoinsOnly
  <2> QED
      BY <2>2, <2>3 DEF ConnectBlock
<1>5. WriteUndoDataForBlock(b, c.undo)
    BY DEF ConnectTip
<1> HIDE DEF c
<1>6. /\ index' \in [Block -> SUBSET Status] /\ DOMAIN rev' = Block
      /\ \A a \in Block \ {b} : index'[a] = index[a] /\ rev'[a] = rev[a]
      /\ \/ index'[b] = index[b] /\ rev'[b] = rev[b]
         \/ b # Genesis /\ rev'[b] = c.undo
  <2>1. CASE b = Genesis \/ "undo" \in index[b]
      BY <1>1, <1>5, <2>1 DEF WriteUndoDataForBlock
  <2>2. CASE ~ (b = Genesis \/ "undo" \in index[b])
    <3>1. rev' = [rev EXCEPT ![b] = c.undo] /\ index' = [index EXCEPT ![b] = @ \cup {"undo"}]
        BY <1>5, <2>2 DEF WriteUndoDataForBlock
    <3>2. index' \in [Block -> SUBSET Status]
        BY <1>1, <3>1 DEF Status
    <3> QED
        BY <1>1, <2>2, <3>1, <3>2
  <2> QED
      BY <2>1, <2>2
<1>7. UndoOK'
  <2> SUFFICES ASSUME NEW a \in Block, "undo" \in index'[a] \cup diskIndex'[a]
               PROVE  a # Genesis /\ Undoable(a)'
      BY DEF UndoOK
  <2>1. diskIndex' = diskIndex
      BY DEF ConnectTip
  <2>2. CASE a = b /\ b # Genesis /\ rev'[b] = c.undo
      BY <1>4, <2>2 DEF Undoable
  <2>3. CASE index'[a] = index[a] /\ rev'[a] = rev[a]
      BY <2>1, <2>3 DEF CoinsInv, UndoOK, Undoable
  <2> QED
      BY <1>6, <2>2, <2>3
<1>8. TypeOK'
    BY <1>2, <1>3, <1>6 DEF ConnectTip, CoinsInv, TypeOK, coinsDB
<1>9. DatabaseOK'
    BY DEF ConnectTip, CoinsInv, DatabaseOK, coinsDB
<1>10. view'.coins = CoinsOf(b)
    BY <1>3, TreeAssumption DEF CoinsOf
<1>11. ViewOK'
    BY <1>10 DEF ConnectTip, CoinsInv, ViewOK, coinsDB
<1> QED
    BY <1>7, <1>8, <1>9, <1>11 DEF CoinsInv

\* The undo data takes the view back to the coins of the parent.
LEMMA DisconnectTipCoins ==
    ASSUME CoinsInv, DisconnectTip
    PROVE  CoinsInv'
<1> DEFINE d == DisconnectBlock(best, view, rev[best])
<1>1. best \in Block \ {Genesis} /\ Undoable(best)
    BY DEF DisconnectTip, CoinsInv, TypeOK, UndoOK, Status
<1>2. view \in Utxo /\ view.coins = UtxoOf[best].coins
    BY <1>1, TreeAssumption DEF DisconnectTip, CoinsInv, TypeOK, ViewOK, CoinsOf
<1>3. d.utxo.coins = UtxoOf[Parent[best]].coins /\ Parent[best] \in Block
    BY <1>1, <1>2, UndoStep, ChainStep
<1>4. Shape(d.utxo)
    BY <1>1, <1>2, DisconnectShape, ShapeType
<1>5. view' = d.utxo
    BY DEF DisconnectTip
<1> HIDE DEF d
<1>6. d.utxo.coins \in [Outpoint -> Coin]
    BY <1>3, UtxoType DEF Utxo
<1>7. view' \in Utxo
    BY <1>4, <1>5, <1>6, ShapeType
<1>8. TypeOK'
    BY <1>3, <1>7 DEF DisconnectTip, CoinsInv, TypeOK, coinsDB
<1>9. UndoOK'
    BY UndoKept DEF DisconnectTip, CoinsInv
<1>10. DatabaseOK'
    BY DEF DisconnectTip, CoinsInv, DatabaseOK, coinsDB
<1>11. view'.coins = CoinsOf(Parent[best])
    BY <1>3, <1>5, TreeAssumption DEF CoinsOf
<1>12. ViewOK'
    BY <1>11 DEF DisconnectTip, CoinsInv, ViewOK, coinsDB
<1> QED
    BY <1>8, <1>9, <1>10, <1>12 DEF CoinsInv

\* A flush has to write exactly the keys in which the database differs from the view.
LEMMA FlushCoins ==
    ASSUME CoinsInv, NEW full, NEW pruned, FlushStateToDisk(full, pruned)
    PROVE  CoinsInv'
<1>1. /\ index' \in [Block -> SUBSET Status] /\ diskIndex' = index'
      /\ \A a \in Block : "undo" \in index'[a] => "undo" \in index[a]
    BY DEF FlushStateToDisk, CoinsInv, TypeOK, Status
<1>2. /\ mode = "running" /\ mode' \in {"running", "flushing"}
      /\ pending' = pending \/ (mode' = "flushing" /\ pending' = Unwritten(view) /\ best # NoBlock)
      /\ mode' = "flushing" => pending' = Unwritten(view) /\ best # NoBlock
      /\ UNCHANGED <<view, best, rev, db, dbBest, dbHeads>>
    BY DEF FlushStateToDisk, coinsDB
<1>3. Unwritten(view) \subseteq Outpoint \cup Pegin /\ \A o \in Outpoint \ Unwritten(view) : db.coins[o] = view.coins[o]
    BY DEF Unwritten
<1>4. TypeOK'
    BY <1>1, <1>2, <1>3 DEF CoinsInv, TypeOK
<1>5. UndoOK'
    BY <1>1, <1>2, UndoKept DEF CoinsInv
<1>6. DatabaseOK'
    BY <1>2 DEF CoinsInv, DatabaseOK
<1>7. ViewOK'
    BY <1>2, <1>3 DEF CoinsInv, ViewOK
<1> QED
    BY <1>4, <1>5, <1>6, <1>7 DEF CoinsInv

\* Every coin of the database is one of the two it was, or is replaced by the view's.
LEMMA WriteKeysCoins ==
    ASSUME TypeOK, NEW S
    PROVE  /\ WriteKeys(S) \in Utxo
           /\ \A o \in Outpoint : WriteKeys(S).coins[o] = IF o \in S THEN view.coins[o] ELSE db.coins[o]
BY DEF TypeOK, WriteKeys, Utxo

\* A batch replaces coins of the old head by coins of the tip.
LEMMA PartialBatchCoins ==
    ASSUME CoinsInv, NEW S \in SUBSET pending, WritePartialBatch(S)
    PROVE  CoinsInv'
<1>1. /\ mode \in {"flushing", "replaying"} /\ mode' = mode
      /\ db' = WriteKeys(S) /\ dbBest' = NoBlock /\ dbHeads' = <<best, OldTip>> /\ pending' = pending \ S
      /\ UNCHANGED <<view, best, index, rev, diskIndex>>
    BY DEF WritePartialBatch, memory
<1>2. /\ TypeOK /\ view.coins = CoinsOf(best) /\ best \in Block
      /\ dbHeads # <<>> => dbHeads[1] = best
      /\ \A o \in Outpoint \ pending : db.coins[o] = view.coins[o]
    BY <1>1 DEF CoinsInv, TypeOK, ViewOK
<1>3. OldTip \in Block \cup {NoBlock}
    BY <1>2 DEF OldTip, TypeOK
<1>4. \A o \in Outpoint : db.coins[o] \in {CoinsOf(best)[o], CoinsOf(OldTip)[o]}
  <2>1. CASE dbHeads = <<>>
      BY <2>1 DEF OldTip, CoinsInv, DatabaseOK
  <2>2. CASE dbHeads # <<>>
      BY <1>2, <2>2 DEF OldTip, CoinsInv, DatabaseOK
  <2> QED
      BY <2>1, <2>2
<1>5. TypeOK'
    BY <1>1, <1>2, <1>3, WriteKeysCoins DEF TypeOK
<1>6. UndoOK'
    BY <1>1, UndoKept DEF CoinsInv
<1>7. DatabaseOK'
  <2>1. dbHeads' # <<>> /\ dbHeads'[1] = best /\ dbHeads'[2] = OldTip
      BY <1>1
  <2>2. ASSUME NEW o \in Outpoint PROVE db'.coins[o] \in {CoinsOf(best)[o], CoinsOf(OldTip)[o]}
    <3>1. WriteKeys(S).coins[o] = IF o \in S THEN view.coins[o] ELSE db.coins[o]
        BY <1>2, WriteKeysCoins
    <3>2. db'.coins[o] = IF o \in S THEN view.coins[o] ELSE db.coins[o]
        BY <1>1, <3>1
    <3> QED
        BY <1>2, <1>4, <3>2
  <2> QED
      BY <1>1, <2>1, <2>2 DEF DatabaseOK
<1>8. ViewOK'
  <2>1. ASSUME NEW o \in Outpoint \ pending' PROVE db'.coins[o] = view'.coins[o]
      BY <1>1, <1>2, WriteKeysCoins
  <2> QED
      BY <1>1, <1>2, <2>1, TreeAssumption DEF ViewOK
<1> QED
    BY <1>5, <1>6, <1>7, <1>8 DEF CoinsInv

\* With the last batch the database is equal to the view.
LEMMA FinalBatchCoins ==
    ASSUME CoinsInv, WriteFinalBatch
    PROVE  CoinsInv'
<1>1. /\ mode \in {"flushing", "replaying"} /\ mode' = "running"
      /\ db' = WriteKeys(pending) /\ dbBest' = best /\ dbHeads' = <<>> /\ pending' = {}
      /\ UNCHANGED <<view, best, index, rev, diskIndex>>
    BY DEF WriteFinalBatch, memory
<1>2. /\ TypeOK /\ view.coins = CoinsOf(best)
      /\ \A o \in Outpoint \ pending : db.coins[o] = view.coins[o]
    BY <1>1 DEF CoinsInv, ViewOK
<1>3. db' \in Utxo /\ view \in Utxo /\ \A o \in Outpoint : db'.coins[o] = view.coins[o]
    BY <1>1, <1>2, WriteKeysCoins, SMTT(40) DEF TypeOK
<1>4. db'.coins = view.coins
    BY <1>3, SMTT(40) DEF Utxo
<1>5. TypeOK'
    BY <1>1, <1>2, <1>3 DEF TypeOK
<1>6. UndoOK'
    BY <1>1, UndoKept DEF CoinsInv
<1>7. DatabaseOK' /\ ViewOK'
    BY <1>1, <1>2, <1>4 DEF DatabaseOK, ViewOK
<1> QED
    BY <1>5, <1>6, <1>7 DEF CoinsInv

\* A crash leaves the database and the undo data as they are.
LEMMA CrashCoins ==
    ASSUME CoinsInv, Crash
    PROVE  CoinsInv'
<1>1. NoCoins \in Utxo
    BY DEF NoCoins, Utxo, Coin
<1>2. TypeOK'
    BY <1>1 DEF Crash, CoinsInv, TypeOK, coinsDB
<1>3. UndoOK'
    BY UndoKept DEF Crash, CoinsInv
<1>4. DatabaseOK' /\ ViewOK'
    BY DEF Crash, CoinsInv, DatabaseOK, ViewOK, coinsDB
<1> QED
    BY <1>2, <1>3, <1>4 DEF CoinsInv

\* Loading the block index brings no undo data that the disk does not have.
LEMMA LoadedCoins ==
    ASSUME CoinsInv, index' = LoadBlockIndex, diskIndex' = diskIndex, rev' = rev
    PROVE  index' \in [Block -> SUBSET Status] /\ UndoOK'
<1>1. index' \in [Block -> SUBSET Status]
    BY TreeAssumption DEF CoinsInv, TypeOK, LoadBlockIndex, Status
<1>2. \A b \in Block : "undo" \in index'[b] => "undo" \in diskIndex[b]
    BY TreeAssumption DEF CoinsInv, TypeOK, LoadBlockIndex
<1> QED
    BY <1>1, <1>2, UndoKept DEF CoinsInv

\* At rest, the database is the view of its best block.
LEMMA LoadChainTipCoins ==
    ASSUME CoinsInv, LoadChainTip
    PROVE  CoinsInv'
<1>1. index' \in [Block -> SUBSET Status] /\ UndoOK'
    BY LoadedCoins DEF LoadChainTip
<1>2. /\ mode' \in {"running", "failed"} /\ view' = db /\ best' = dbBest /\ dbHeads = <<>>
      /\ UNCHANGED <<rev, diskIndex, db, dbBest, dbHeads, pending>>
    BY DEF LoadChainTip, coinsDB
<1>3. TypeOK'
    BY <1>1, <1>2 DEF CoinsInv, TypeOK
<1>4. DatabaseOK' /\ ViewOK'
    BY <1>2 DEF CoinsInv, DatabaseOK, ViewOK
<1> QED
    BY <1>1, <1>3, <1>4 DEF CoinsInv

\* From a database in transition the replay makes the view of the new head.
LEMMA ReplayBlocksCoins ==
    ASSUME CoinsInv, GenesisOutputs = FALSE, ReplayBlocks
    PROVE  CoinsInv'
<1> DEFINE new == dbHeads[1]
           old == dbHeads[2]
<1>1. index' \in [Block -> SUBSET Status] /\ UndoOK'
    BY LoadedCoins DEF ReplayBlocks
<1>2. dbHeads # <<>> /\ UNCHANGED <<rev, diskIndex, db, dbBest, dbHeads>>
    BY DEF ReplayBlocks, coinsDB
<1>3. new \in Block /\ old \in Block \cup {NoBlock}
    BY <1>2 DEF CoinsInv, TypeOK
<1>4. CASE ~ CanReplay(old, new)
  <2>1. mode' = "failed" /\ UNCHANGED <<view, best, pending>>
      BY <1>4 DEF ReplayBlocks
  <2> QED
      BY <1>1, <1>2, <2>1 DEF CoinsInv, TypeOK, DatabaseOK, ViewOK
<1>5. CASE CanReplay(old, new)
  <2>1. mode' = "replaying" /\ view' = Replayed(old, new) /\ best' = new /\ pending' = Unwritten(view')
      BY <1>5 DEF ReplayBlocks
  <2>2. \A o \in Outpoint : db.coins[o] \in {CoinsOf(new)[o], CoinsOf(old)[o]}
      BY <1>2 DEF CoinsInv, DatabaseOK
  <2> HIDE DEF new, old
  <2>3. ASSUME NEW a \in RollbackBlocks(old, new) PROVE Undoable(a)
    <3>1. a \in Block /\ "undo" \in diskIndex[a]
        BY <1>3, <1>5, <2>3, ChainType DEF RollbackBlocks, CanReplay, Status
    <3> QED
        BY <3>1 DEF CoinsInv, UndoOK
  <2>4. Shape(db)
      BY ShapeType DEF CoinsInv, TypeOK
  <2>5. view' \in Utxo /\ view'.coins = CoinsOf(new)
      BY <1>3, <2>1, <2>2, <2>3, <2>4, ReplayCoins
  <2>6. pending' \subseteq Outpoint \cup Pegin /\ \A o \in Outpoint \ pending' : db.coins[o] = view'.coins[o]
      BY <2>1 DEF Unwritten
  <2>7. TypeOK'
      BY <1>1, <1>2, <1>3, <2>1, <2>5, <2>6 DEF CoinsInv, TypeOK
  <2>8. DatabaseOK'
      BY <1>2 DEF CoinsInv, DatabaseOK
  <2>9. ViewOK'
      BY <1>2, <1>3, <2>1, <2>5, <2>6, TreeAssumption DEF ViewOK, new
  <2> QED
      BY <1>1, <2>7, <2>8, <2>9 DEF CoinsInv
<1> QED
    BY <1>4, <1>5

\* Every step keeps CoinsInv.
LEMMA NextCoins ==
    ASSUME CoinsInv, GenesisOutputs = FALSE, [Next]_vars
    PROVE  CoinsInv'
<1>1. CASE UNCHANGED vars
    BY <1>1 DEF vars, coinsDB, CoinsInv, TypeOK, UndoOK, Undoable, DatabaseOK, ViewOK
<1>2. CASE Next
    BY <1>2, AcceptBlockCoins, ConnectTipCoins, DisconnectTipCoins, FlushCoins, PartialBatchCoins,
       FinalBatchCoins, CrashCoins, LoadChainTipCoins, ReplayBlocksCoins DEF Next
<1> QED
    BY <1>1, <1>2

-----------------------------------------------------------------------------

\* The inductive invariant: undo data is that of the chain below its block, the coins
\* database holds the coins of one block or, outpoint by outpoint, those of one of its two
\* heads, and the view in memory holds the coins of its best block.
THEOREM CoinsInvariance ==
    ASSUME GenesisOutputs = FALSE
    PROVE  Spec => []CoinsInv
<1>1. Init => CoinsInv
    BY InitCoins
<1>2. CoinsInv /\ [Next]_vars => CoinsInv'
  <2> SUFFICES ASSUME CoinsInv, [Next]_vars PROVE CoinsInv'
      OBVIOUS
  <2> QED
      BY NextCoins
<1> QED
    BY <1>1, <1>2, PTL DEF Spec

\* Every variable keeps its type.
THEOREM RecoveryTypes ==
    ASSUME GenesisOutputs = FALSE
    PROVE  Spec => []TypeOK
<1>1. CoinsInv => TypeOK
    BY DEF CoinsInv
<1> QED
    BY <1>1, CoinsInvariance, PTL

\* Whatever the block tree, its transactions and the moments of the crashes, with pruning or
\* without: when the node runs, its coins are those that the active chain leaves, where
\* ReplayBlocks went over a database that crashes left between two blocks included.
THEOREM CoinsAlwaysRecovered ==
    ASSUME GenesisOutputs = FALSE
    PROVE  Spec => []CoinsRecovered
<1>1. CoinsInv => CoinsRecovered
    BY DEF CoinsInv, ViewOK, CoinsOf, CoinsRecovered
<1> QED
    BY <1>1, CoinsInvariance, PTL

\* On a node that does not prune and a chain without peg-ins, DisconnectTip can always undo
\* the tip: its undo data is on record and DisconnectBlock finds nothing unclean.
THEOREM TipAlwaysDisconnectable ==
    ASSUME GenesisOutputs = FALSE, PruneMode = FALSE,
           \A b \in Block : \A i \in DOMAIN Txs[b] : Txs[b][i].pegin = {}
    PROVE  Spec => []TipDisconnectable
<1>1. CoinsInv /\ ReplayInv => TipDisconnectable
  <2> SUFFICES ASSUME CoinsInv, ReplayInv, mode = "running", best \notin {NoBlock, Genesis}
               PROVE  index[best] = Status /\ DisconnectBlock(best, view, rev[best]).clean
      BY DEF TipDisconnectable
  <2>1. best \in Block \ {Genesis} /\ index[best] = Status
      BY SMTT(40) DEF ReplayInv, IndexOK, HeadsOK, Full, Status
  <2>2. Undoable(best)
      BY <2>1 DEF CoinsInv, UndoOK, Status
  <2>3. view.coins = UtxoOf[best].coins
      BY DEF CoinsInv, ViewOK, CoinsOf
  <2> QED
      BY <2>1, <2>2, <2>3, UndoStep
<1> QED
    BY <1>1, CoinsInvariance, ReplayInvariance, PTL

===============================================================================
