---------------------------- MODULE BestChainProofs ----------------------------
(***************************************************************************)
(* Proofs about BestChain for every finite tree of blocks.  First, for all *)
(* inputs and all commands: facts about trees and about the order of the   *)
(* candidates, the invariant IInv, and that the active chain never holds a *)
(* failed block, that m_failed_blocks agrees with the flags, and that the  *)
(* candidates are sound.  Then, without reconsiderblock: failure flags     *)
(* have a cause and sound chains are linked (FlagsInv), the index is exact *)
(* (ExactInv), and ActivateBestChain makes the best chain the active one   *)
(* and never gives up a better tip (SelectInv).                            *)
(***************************************************************************)
EXTENDS BestChain, FiniteSetTheorems, WellFoundedInduction, TLAPS

\* The provers, and their time, for a leaf that names none.
USE ZenonT(20), SMTT(40)

-------------------------------------------------------------------------------
(* Block trees.                                                            *)

\* A chain consists of blocks, and ends with the block itself.
LEMMA ChainType ==
    ASSUME NEW b \in Block
    PROVE  Chain[b] \in SUBSET Block /\ b \in Chain[b]
  BY DEF Chain

\* A chain stays inside every set that is closed under Parent.
LEMMA ChainLeast ==
    ASSUME NEW S \in SUBSET Block, ParentClosed(S), NEW b \in S
    PROVE  Chain[b] \subseteq S
  BY DEF Chain

\* With a block, a chain has its parent.
LEMMA ChainClosed ==
    ASSUME NEW b \in Block
    PROVE  ParentClosed(Chain[b])
  <1> SUFFICES ASSUME NEW a \in Chain[b] \ {Genesis}
               PROVE  Parent[a] \in Chain[b]
    BY DEF ParentClosed
  <1>1. a \in Block /\ Parent[a] \in Block
    BY ChainType, TreeAssumption
  <1>2. ASSUME NEW S \in SUBSET Block, b \in S, ParentClosed(S)
        PROVE  Parent[a] \in S
    BY <1>2, ChainLeast DEF ParentClosed
  <1> QED
    BY <1>1, <1>2 DEF Chain

\* An ancestor of an ancestor is an ancestor.
LEMMA ChainTrans ==
    ASSUME NEW b \in Block, NEW c \in Chain[b]
    PROVE  c \in Block /\ Chain[c] \subseteq Chain[b]
  BY ChainType, ChainClosed, ChainLeast

\* A block's chain is the block on top of its parent's chain.
LEMMA ChainStep ==
    ASSUME NEW b \in Block \ {Genesis}
    PROVE  /\ Parent[b] \in Block
           /\ Parent[b] \in Chain[b]
           /\ Chain[b] = {b} \cup Chain[Parent[b]]
  <1>1. Parent[b] \in Block /\ Parent[b] \in Chain[b]
    BY TreeAssumption, ChainType, ChainClosed DEF ParentClosed
  <1>2. ParentClosed({b} \cup Chain[Parent[b]])
    BY <1>1, ChainType, ChainClosed DEF ParentClosed
  <1>3. Chain[b] \subseteq {b} \cup Chain[Parent[b]]
    BY <1>1, <1>2, ChainType, ChainLeast, SMTT(40)
  <1>4. {b} \cup Chain[Parent[b]] \subseteq Chain[b]
    BY <1>1, ChainType, ChainTrans
  <1> QED
    BY <1>1, <1>3, <1>4

\* The genesis block is alone on its chain.
LEMMA ChainRoot == Chain[Genesis] = {Genesis}
  <1>1. ParentClosed({Genesis})
    BY DEF ParentClosed
  <1> QED
    BY <1>1, TreeAssumption, ChainType, ChainLeast, SMTT(40)

\* Induction along the tree.
LEMMA TreeInduction ==
    ASSUME NEW S \in SUBSET Block, Genesis \in S,
           \A b \in Block \ {Genesis} : Parent[b] \in S => b \in S
    PROVE  S = Block
  <1> SUFFICES ASSUME NEW x \in Block \ S PROVE FALSE
    OBVIOUS
  <1>1. ParentClosed(Block \ S)
    BY TreeAssumption DEF ParentClosed
  <1>2. Chain[x] \subseteq Block \ S
    BY <1>1, ChainLeast
  <1> QED
    BY <1>2, TreeAssumption

\* Two blocks that descend from each other are the same.
LEMMA ChainAntisymmetric ==
    ASSUME NEW b \in Block, NEW c \in Chain[b], b \in Chain[c]
    PROVE  b = c
  <1> DEFINE S == {x \in Block : \A y \in Chain[x] : x \in Chain[y] => x = y}
  <1>1. Genesis \in S
    BY ChainRoot, TreeAssumption
  <1>2. ASSUME NEW x \in Block \ {Genesis}, Parent[x] \in S
        PROVE  x \in S
    <2> SUFFICES ASSUME NEW y \in Chain[x], x \in Chain[y], x # y
                 PROVE  FALSE
      OBVIOUS
    <2>1. y \in Chain[Parent[x]] /\ Parent[x] \in Chain[x]
      BY ChainStep
    <2>2. x \in Chain[Parent[x]]
      BY <2>1, ChainTrans, <1>2
    <2>3. Parent[x] = x
      BY <2>1, <2>2, <1>2
    <2>4. Parent[x] \in Chain[y]
      BY <2>3
    <2> QED
      BY <2>1, <2>3, <2>4, <1>2
  <1> HIDE DEF S
  <1>3. S = Block
    BY <1>1, <1>2, TreeInduction DEF S
  <1> QED
    BY <1>3 DEF S

\* No block is on the chain of its parent.
LEMMA ParentBelow ==
    ASSUME NEW b \in Block \ {Genesis}
    PROVE  b \notin Chain[Parent[b]]
  <1> SUFFICES ASSUME b \in Chain[Parent[b]] PROVE FALSE
    OBVIOUS
  <1>1. Parent[b] = b
    BY ChainStep, ChainAntisymmetric
  <1>2. ParentClosed({b})
    BY <1>1 DEF ParentClosed
  <1> QED
    BY <1>2, ChainLeast, TreeAssumption, SMTT(40)

\* Two blocks of one chain are on one line.
LEMMA ChainLinear ==
    ASSUME NEW x \in Block, NEW a \in Chain[x], NEW b \in Chain[x]
    PROVE  a \in Chain[b] \/ b \in Chain[a]
  <1> DEFINE S == {y \in Block : \A c, d \in Chain[y] : c \in Chain[d] \/ d \in Chain[c]}
  <1>1. Genesis \in S
    BY ChainRoot, TreeAssumption
  <1>2. ASSUME NEW y \in Block \ {Genesis}, Parent[y] \in S
        PROVE  y \in S
    BY <1>2, ChainStep, SMTT(40)
  <1> HIDE DEF S
  <1>3. S = Block
    BY <1>1, <1>2, TreeInduction DEF S
  <1> QED
    BY <1>3 DEF S

\* Of the blocks of T on a chain, one is above all others.
LEMMA HighestExists ==
    ASSUME NEW T, NEW x \in Block, T \cap Chain[x] # {}
    PROVE  \E c \in T \cap Chain[x] : T \cap Chain[x] \subseteq Chain[c]
  <1> DEFINE S == {y \in Block : T \cap Chain[y] # {} =>
                       \E c \in T \cap Chain[y] : T \cap Chain[y] \subseteq Chain[c]}
  <1>1. Genesis \in S
    BY ChainRoot, TreeAssumption
  <1>2. ASSUME NEW y \in Block \ {Genesis}, Parent[y] \in S
        PROVE  y \in S
    <2>1. CASE y \in T
      BY <2>1, ChainType
    <2>2. CASE y \notin T
      <3>1. T \cap Chain[y] = T \cap Chain[Parent[y]]
        BY <2>2, ChainStep
      <3> QED
        BY <3>1, <1>2
    <2> QED
      BY <2>1, <2>2
  <1> HIDE DEF S
  <1>3. S = Block
    BY <1>1, <1>2, TreeInduction DEF S
  <1> QED
    BY <1>3 DEF S

\* One is below all others.
LEMMA LowestExists ==
    ASSUME NEW T, NEW x \in Block, T \cap Chain[x] # {}
    PROVE  \E c \in T \cap Chain[x] : c = Genesis \/ Parent[c] \notin T
  <1> DEFINE S == {y \in Block : T \cap Chain[y] # {} =>
                       \E c \in T \cap Chain[y] : c = Genesis \/ Parent[c] \notin T}
  <1>1. Genesis \in S
    BY ChainRoot, TreeAssumption
  <1>2. ASSUME NEW y \in Block \ {Genesis}, Parent[y] \in S
        PROVE  y \in S
    <2>1. CASE T \cap Chain[Parent[y]] # {}
      BY <2>1, <1>2, ChainStep
    <2>2. CASE T \cap Chain[Parent[y]] = {}
      BY <2>2, ChainStep, ChainType, SMTT(40)
    <2> QED
      BY <2>1, <2>2
  <1> HIDE DEF S
  <1>3. S = Block
    BY <1>1, <1>2, TreeInduction DEF S
  <1> QED
    BY <1>3 DEF S

\* A block below m has a child on m's chain.
LEMMA ChildExists ==
    ASSUME NEW m \in Block, NEW t \in Chain[m], t # m
    PROVE  \E b \in Chain[m] \ Chain[t] : b # Genesis /\ Parent[b] = t
  <1> DEFINE S == {y \in Block : t \in Chain[y] /\ t # y =>
                       \E b \in Chain[y] \ Chain[t] : b # Genesis /\ Parent[b] = t}
  <1>1. Genesis \in S
    BY ChainRoot, TreeAssumption
  <1>2. ASSUME NEW y \in Block \ {Genesis}, Parent[y] \in S
        PROVE  y \in S
    <2> SUFFICES ASSUME t \in Chain[y], t # y
                 PROVE  \E b \in Chain[y] \ Chain[t] : b # Genesis /\ Parent[b] = t
      OBVIOUS
    <2>1. t \in Chain[Parent[y]]
      BY ChainStep
    <2>2. CASE t = Parent[y]
      BY <2>2, ChainType, ChainStep, ChainAntisymmetric
    <2>3. CASE t # Parent[y]
      BY <2>1, <2>3, <1>2, ChainStep
    <2> QED
      BY <2>2, <2>3
  <1> HIDE DEF S
  <1>3. S = Block
    BY <1>1, <1>2, TreeInduction DEF S
  <1> QED
    BY <1>3 DEF S

\* The part of a chain above one of its blocks f lies above f, block by block.
LEMMA AboveFork ==
    ASSUME NEW x \in Block, NEW f \in Chain[x], NEW y \in Chain[x] \ Chain[f]
    PROVE  f \in Chain[y]
  BY ChainLinear

-------------------------------------------------------------------------------
(* The order of the candidates.                                            *)

\* A set of natural numbers has a least member.
LEMMA LeastNatural ==
    ASSUME NEW S \in SUBSET Nat, S # {}
    PROVE  \E n \in S : \A k \in S : n <= k
  <1> DEFINE Less == {ss \in Nat \X Nat : ss[1] < ss[2]}
  <1>1. Less = OpToRel(<, Nat)
    BY DEF OpToRel
  <1>2. IsWellFoundedOn(Less, Nat)
    BY <1>1, NatLessThanWellFounded
  <1> HIDE DEF Less
  <1>3. PICK n \in S : \A k \in S : ~ (<<k, n>> \in Less)
    BY <1>2, WFMin
  <1>4. ASSUME NEW k \in S PROVE n <= k
    <2>1. <<k, n>> \notin Less
      BY <1>3
    <2>2. k \in Nat /\ n \in Nat
      OBVIOUS
    <2>3. ~(k < n)
      BY <2>1, <2>2 DEF Less
    <2> QED BY <2>2, <2>3, SMTT(40)
  <1> QED BY <1>4

\* A set that lacks a member has fewer.
LEMMA FewerMembers ==
    ASSUME NEW S, IsFiniteSet(S), NEW T \in SUBSET S, NEW x \in S \ T
    PROVE  Cardinality(T) < Cardinality(S)
  <1>1. IsFiniteSet(T) /\ Cardinality(T) <= Cardinality(S) /\ Cardinality(S) # Cardinality(T)
    BY FS_Subset
  <1>2. Cardinality(S) \in Nat /\ Cardinality(T) \in Nat
    BY <1>1, FS_CardinalityType
  <1> QED
    BY <1>1, <1>2, SMTT(40)

\* Chains are finite, hence their work is a number.
LEMMA ChainFinite ==
    ASSUME NEW b \in Block
    PROVE  IsFiniteSet(Chain[b]) /\ nChainWork[b] \in Nat
  <1>1. IsFiniteSet(Chain[b])
    BY ChainType, TreeAssumption, FS_Subset
  <1> QED
    BY <1>1, FS_CardinalityType DEF nChainWork

\* A block has more work than those below it.
LEMMA WorkGrows ==
    ASSUME NEW b \in Block, NEW c \in Chain[b], c # b
    PROVE  nChainWork[c] < nChainWork[b]
  <1>1. c \in Block /\ Chain[c] \subseteq Chain[b] /\ b \notin Chain[c] /\ b \in Chain[b]
    BY ChainType, ChainTrans, ChainAntisymmetric
  <1>2. Cardinality(Chain[c]) < Cardinality(Chain[b])
    BY <1>1, ChainFinite, FewerMembers
  <1> QED
    BY <1>1, <1>2 DEF nChainWork

\* CBlockIndexWorkComparator is a strict total order.
LEMMA WorseOrder ==
    ASSUME NEW sq \in [Block -> Int]
    PROVE  /\ \A a \in Block : ~WorseBy(sq, a, a)
           /\ \A a, b \in Block : WorseBy(sq, a, b) => ~WorseBy(sq, b, a)
           /\ \A a, b \in Block : a # b /\ ~WorseBy(sq, a, b) => WorseBy(sq, b, a)
           /\ \A a, b, c \in Block : WorseBy(sq, a, b) /\ WorseBy(sq, b, c) => WorseBy(sq, a, c)
  <1>1. \A a \in Block : nChainWork[a] \in Int /\ sq[a] \in Int /\ Address[a] \in Int
    BY ChainFinite, AddressAssumption, SMTT(40)
  <1>2. \A a, b \in Block : a # b => Address[a] # Address[b]
    BY AddressAssumption
  <1> QED
    BY <1>1, <1>2, SMTT(40) DEF WorseBy

\* It sorts a block after those below it.
LEMMA BelowWorse ==
    ASSUME NEW sq \in [Block -> Int], NEW b \in Block, NEW c \in Chain[b], c # b
    PROVE  WorseBy(sq, c, b)
  BY WorkGrows DEF WorseBy

\* Best finds the last block of a set.
LEMMA BestExists ==
    ASSUME NEW S \in SUBSET Block, S # {}, seq \in [Block -> Int]
    PROVE  Best(S) \in S /\ \A c \in S \ {Best(S)} : Worse(c, Best(S))
  <1> DEFINE Above(b) == {c \in S : Worse(b, c)}
             Ranks == {Cardinality(Above(b)) : b \in S}
  <1>1. ASSUME NEW b \in S
        PROVE  IsFiniteSet(Above(b)) /\ Cardinality(Above(b)) \in Nat
    BY TreeAssumption, FS_Subset, FS_CardinalityType
  <1>2. Ranks \in SUBSET Nat /\ Ranks # {}
    BY <1>1
  <1>3. PICK b \in S : \A c \in S : Cardinality(Above(b)) <= Cardinality(Above(c))
    <2> HIDE DEF Above
    <2>1. PICK n \in Ranks : \A k \in Ranks : n <= k
      BY <1>2, LeastNatural
    <2> QED
      BY <2>1
  <1>4. ASSUME NEW c \in S \ {b} PROVE Worse(c, b)
    <2> SUFFICES ASSUME ~Worse(c, b) PROVE FALSE
      OBVIOUS
    <2>1. Worse(b, c)
      BY WorseOrder DEF Worse
    <2>2. Above(c) \subseteq Above(b) /\ c \in Above(b) /\ c \notin Above(c)
      BY <2>1, WorseOrder DEF Worse
    <2> HIDE DEF Above
    <2>3. Cardinality(Above(c)) < Cardinality(Above(b))
      BY <2>2, <1>1, FewerMembers
    <2> QED
      BY <2>3, <1>1, <1>3, SMTT(40)
  <1> QED
    BY <1>4 DEF Best

-------------------------------------------------------------------------------
(* The inductive invariant, for all inputs and every command.              *)

TypeOK ==
    /\ known \in SUBSET Block /\ data \in SUBSET Block /\ linked \in SUBSET Block
    /\ scripts \in SUBSET Block
    /\ failedValid \in SUBSET Block /\ failedChild \in SUBSET Block
    /\ failedBlocks \in SUBSET Block
    /\ unlinked \in SUBSET Block /\ candidates \in SUBSET Block /\ byWork \in SUBSET Block
    /\ seq \in [Block -> Int] /\ nextSeq \in Nat /\ reverseSeq \in Int
    /\ tip \in Block
    /\ pc \in {"idle", "activate", "find", "connect", "invalidate", "mark"}
    /\ pc \in {"find", "connect"} => startTip \in Block
    /\ pc \in {"invalidate", "mark"} => target \in Block \ {Genesis} /\ toMark \in Block

\* The data of the blocks: linked blocks have all of it below them, and unlinked ones
\* wait for a parent that is not linked.
IndexOK ==
    /\ ParentClosed(known) /\ data \subseteq known /\ data \cap Malformed = {}
    /\ linked \subseteq data /\ Genesis \in linked /\ ParentClosed(linked)
    /\ unlinked \subseteq data \ linked
    /\ \A b \in unlinked : Parent[b] \notin linked
    /\ \A b \in Block \ linked : seq[b] <= 0
    /\ reverseSeq <= -1
    /\ candidates \subseteq linked /\ byWork \subseteq linked /\ tip \in linked

FlagsOK == FailedBlocksMarked /\ TipNotFailed

\* No candidate is worse than the tip, even while cs_main is held.
OrderOK == \A c \in candidates : ~Worse(c, tip)

\* A target is complete and not failed, and it is above the tip once it has been
\* worked on.
TargetOK ==
    /\ pc \notin {"activate", "find", "connect"} => mostWork = NoBlock
    /\ mostWork # NoBlock =>
         /\ mostWork \in linked
         /\ Chain[mostWork] \cap Failed = {}
         /\ tip \in Chain[mostWork]
    /\ pc = "connect" => mostWork # NoBlock /\ tip # mostWork

IInv == TypeOK /\ IndexOK /\ FlagsOK /\ OrderOK /\ TargetOK

-------------------------------------------------------------------------------
(* Every action preserves it.                                              *)

\* The whole chain of a linked block is linked.
LEMMA LinkedChain ==
    ASSUME IInv, NEW b \in linked
    PROVE  b \in Block /\ Chain[b] \subseteq linked /\ Chain[b] \subseteq data
  BY ChainLeast DEF IInv, TypeOK, IndexOK

\* What is marked above a block f that a chain lacks is not on that chain.
LEMMA MarksAbove ==
    ASSUME NEW x \in Block, NEW f \in Chain[x], NEW t \in Block, f \notin Chain[t]
    PROVE  (Chain[x] \ Chain[f]) \cap Chain[t] = {}
  BY AboveFork, ChainTrans

\* The invariant holds when the node has only the genesis block.
LEMMA InitIInv == Init => IInv
  <1> SUFFICES ASSUME Init PROVE IInv
    OBVIOUS
  <1>1. TypeOK
    <2>1. seq \in [Block -> Int]
      BY SMTT(40) DEF Init
    <2> QED
      BY <2>1, TreeAssumption, SMTT(40) DEF Init, TypeOK
  <1>2. IndexOK
    BY TreeAssumption, InputAssumption, SMTT(40) DEF Init, IndexOK, ParentClosed
  <1>3. FlagsOK
    BY ChainRoot, InputAssumption DEF Init, FlagsOK, FailedBlocksMarked, TipNotFailed, Failed
  <1>4. OrderOK
    BY <1>1, WorseOrder, TreeAssumption, SMTT(40) DEF Init, OrderOK, Worse, TypeOK
  <1>5. TargetOK
    BY DEF Init, TargetOK
  <1> QED
    BY <1>1, <1>2, <1>3, <1>4, <1>5 DEF IInv

\* A header adds a known block or flags, neither of them on the active chain.
LEMMA AcceptBlockHeaderKeeps ==
    ASSUME IInv, NEW b \in Block \ {Genesis}, AcceptBlockHeader(b)
    PROVE  IInv'
  <1>1. TypeOK'
    BY ChainStep, ChainType DEF AcceptBlockHeader, IInv, TypeOK, ids, activation, invalidation
  <1>2. IndexOK'
    BY DEF AcceptBlockHeader, IInv, IndexOK, ids, activation, invalidation, ParentClosed
  <1>3. ASSUME NEW t \in Block, Chain[t] \cap Failed = {}
        PROVE  Chain[t] \cap Failed' = {}
    <2>1. CASE UNCHANGED failedChild
      BY <2>1, <1>3 DEF AcceptBlockHeader, Failed
    <2>2. ASSUME NEW f \in FailedAncestors(b),
                 failedChild' = failedChild \cup (Chain[Parent[b]] \ Chain[f])
          PROVE  Chain[t] \cap Failed' = {}
      <3>1. f \in failedBlocks /\ f \in Chain[Parent[b]]
        BY <2>2 DEF FailedAncestors
      <3>2. f \notin Chain[t]
        BY <3>1, <1>3 DEF IInv, FlagsOK, FailedBlocksMarked, Failed
      <3>3. (Chain[Parent[b]] \ Chain[f]) \cap Chain[t] = {}
        BY <3>1, <3>2, MarksAbove, ChainStep
      <3> QED
        BY <3>3, <2>2, <1>3 DEF AcceptBlockHeader, Failed
    <2> QED
      BY <2>1, <2>2 DEF AcceptBlockHeader
  <1>4. FlagsOK'
    BY <1>3 DEF AcceptBlockHeader, IInv, TypeOK, FlagsOK, FailedBlocksMarked, TipNotFailed
  <1>5. OrderOK'
    BY DEF AcceptBlockHeader, IInv, OrderOK, Worse, ids
  <1>6. TargetOK'
    BY <1>3 DEF AcceptBlockHeader, IInv, TypeOK, IndexOK, TargetOK, activation
  <1> QED
    BY <1>1, <1>2, <1>4, <1>5, <1>6 DEF IInv

\* The blocks that become linked with b: none was linked, all have data, and the
\* linked blocks stay closed under Parent, the unlinked ones behind unlinked ones.
LEMMA NewlyLinkedOK ==
    ASSUME IInv, NEW b \in Block \ {Genesis}, b \notin data, Parent[b] \in linked
    PROVE  /\ NewlyLinked(b) \subseteq unlinked \cup {b}
           /\ NewlyLinked(b) \in SUBSET Block
           /\ NewlyLinked(b) \cap linked = {}
           /\ ParentClosed(linked \cup NewlyLinked(b))
           /\ \A c \in unlinked \ NewlyLinked(b) : Parent[c] \notin linked \cup NewlyLinked(b)
  <1> DEFINE L == NewlyLinked(b)
  <1>1. L \subseteq unlinked \cup {b} /\ L \in SUBSET Block /\ L \cap linked = {}
    BY DEF NewlyLinked, IInv, TypeOK, IndexOK
  <1>2. ASSUME NEW c \in L, c # b PROVE Parent[c] \in L
    <2>1. c \in unlinked /\ b \in Chain[c] /\ Chain[c] \ Chain[b] \subseteq unlinked
      BY <1>2 DEF NewlyLinked
    <2>2. c \in Block \ {Genesis}
      BY <2>1 DEF IInv, TypeOK, IndexOK
    <2>3. b \in Chain[Parent[c]] /\ Parent[c] \in Chain[c] /\ Parent[c] \in Block
      BY <2>1, <2>2, <1>2, ChainStep
    <2>4. CASE Parent[c] \in Chain[b]
      <3>1. Parent[c] = b
        BY <2>3, <2>4, ChainAntisymmetric
      <3> QED
        BY <3>1 DEF NewlyLinked
    <2>5. CASE Parent[c] \notin Chain[b]
      <3>1. Parent[c] \in unlinked
        BY <2>1, <2>3, <2>5
      <3>2. Chain[Parent[c]] \ Chain[b] \subseteq unlinked
        BY <2>1, <2>2, ChainStep, SMTT(40)
      <3> QED
        BY <3>1, <3>2, <2>3 DEF NewlyLinked
    <2> QED
      BY <2>4, <2>5
  <1>3. ParentClosed(linked \cup L)
    BY <1>2 DEF ParentClosed, IInv, IndexOK
  <1>4. ASSUME NEW c \in unlinked \ L PROVE Parent[c] \notin linked \cup L
    <2>1. c \in Block \ {Genesis} /\ Parent[c] \notin linked
      BY DEF IInv, TypeOK, IndexOK
    <2>2. SUFFICES ASSUME Parent[c] \in L PROVE FALSE
      BY <2>1
    <2>3. Chain[c] = {c} \cup Chain[Parent[c]] /\ Parent[c] \in Block
      BY <2>1, ChainStep
    <2>4. b \in Chain[Parent[c]] /\ Chain[Parent[c]] \ Chain[b] \subseteq unlinked
      BY <2>2, <2>3, ChainType DEF NewlyLinked
    <2> QED
      BY <2>3, <2>4 DEF NewlyLinked
  <1> QED
    BY <1>1, <1>3, <1>4

\* ReceivedBlockTransactions keeps the index in order and gives sequence ids to newly
\* linked blocks only.
LEMMA ReceivedOK ==
    ASSUME IInv, NEW b \in Block \ {Genesis}, b \notin data, b \in known, b \notin Malformed,
           ReceivedBlockTransactions(b), UNCHANGED <<known, tip, byWork>>
    PROVE  /\ seq' \in [Block -> Int] /\ nextSeq' \in Nat
           /\ linked \subseteq linked' /\ linked' \in SUBSET Block /\ unlinked' \in SUBSET Block
           /\ candidates' \in SUBSET Block
           /\ \A c \in linked : seq'[c] = seq[c]
           /\ \A c \in linked' \ linked : c \in candidates' <=> ~WorseBy(seq', c, tip)
           /\ candidates' \cap linked = candidates
           /\ \A c \in Block : seq'[c] = seq[c] \/ seq'[c] >= 0
           /\ IndexOK'
  <1>1. CASE Parent[b] \in linked
    <2> DEFINE L == NewlyLinked(b)
    <2>1. PICK q \in QueueOrders(b, L) :
             /\ linked' = linked \cup L
             /\ seq' = [c \in Block |-> IF c \in L THEN nextSeq + q[c] ELSE seq[c]]
             /\ nextSeq' = nextSeq + Cardinality(L)
             /\ candidates' = candidates \cup {c \in L : ~WorseBy(seq', c, tip)}
             /\ unlinked' = unlinked \ L
      BY <1>1, SMTT(40) DEF ReceivedBlockTransactions
    <2>2. /\ L \subseteq unlinked \cup {b} /\ L \in SUBSET Block /\ L \cap linked = {}
          /\ ParentClosed(linked \cup L)
          /\ \A c \in unlinked \ L : Parent[c] \notin linked \cup L
      BY <1>1, NewlyLinkedOK
    <2> HIDE DEF L
    <2>3. IsFiniteSet(L) /\ Cardinality(L) \in Nat
      BY <2>2, TreeAssumption, FS_Subset, FS_CardinalityType
    <2>4. \A c \in L : q[c] \in Nat
      BY <2>1, <2>3, SMTT(40) DEF QueueOrders
    <2>5. seq' \in [Block -> Int] /\ nextSeq' \in Nat
      BY <2>1, <2>3, <2>4, SMTT(40) DEF IInv, TypeOK
    <2>6. \A c \in Block \ L : seq'[c] = seq[c]
      BY <2>1
    <2>7. candidates' \cap linked = candidates /\ candidates' \subseteq linked'
      BY <2>1, <2>2 DEF IInv, IndexOK
    <2>8. IndexOK'
      <3>1. data' = data \cup {b}
        BY DEF ReceivedBlockTransactions
      <3>2. /\ data' \subseteq known' /\ data' \cap Malformed = {}
            /\ linked' \subseteq data' /\ Genesis \in linked' /\ ParentClosed(linked')
            /\ unlinked' \subseteq data' \ linked'
        BY <2>1, <2>2, <3>1 DEF IInv, IndexOK
      <3>3. \A c \in unlinked' : Parent[c] \notin linked'
        BY <2>1, <2>2
      <3>4. \A c \in Block \ linked' : seq'[c] <= 0
        BY <2>1, <2>6 DEF IInv, IndexOK
      <3>5. reverseSeq' <= -1 /\ byWork' \subseteq linked' /\ tip' \in linked'
        BY <2>1 DEF IInv, IndexOK, ReceivedBlockTransactions
      <3> QED
        BY <3>2, <3>3, <3>4, <3>5, <2>7 DEF IInv, IndexOK
    <2>9. \A c \in linked' \ linked : c \in candidates' <=> ~WorseBy(seq', c, tip)
      BY <2>1, <2>2 DEF IInv, IndexOK
    <2>10. \A c \in linked : seq'[c] = seq[c]
      BY <2>2, <2>6 DEF IInv, TypeOK
    <2>11. \A c \in Block : seq'[c] = seq[c] \/ seq'[c] >= 0
      BY <2>1, <2>4, <2>6, SMTT(40) DEF IInv, TypeOK
    <2> QED
      BY <2>1, <2>2, <2>5, <2>7, <2>8, <2>9, <2>10, <2>11 DEF IInv, TypeOK
  <1>2. CASE Parent[b] \notin linked
    <2>1. /\ unlinked' \subseteq unlinked \cup {b} /\ data' = data \cup {b}
          /\ UNCHANGED <<linked, seq, nextSeq, candidates, reverseSeq>>
      BY <1>2 DEF ReceivedBlockTransactions
    <2>2. IndexOK'
      <3>1. b \notin linked
        BY DEF IInv, IndexOK
      <3>2. /\ data' \subseteq known' /\ data' \cap Malformed = {}
            /\ linked' \subseteq data' /\ unlinked' \subseteq data' \ linked'
        BY <2>1, <3>1 DEF IInv, IndexOK
      <3>3. \A c \in unlinked' : Parent[c] \notin linked'
        BY <1>2, <2>1 DEF IInv, IndexOK
      <3> QED
        BY <2>1, <3>2, <3>3 DEF IInv, IndexOK
    <2> QED
      BY <2>1, <2>2 DEF IInv, TypeOK, IndexOK
  <1> QED
    BY <1>1, <1>2

\* Data adds linked or waiting blocks; candidates are compared with the tip.
LEMMA AcceptBlockKeeps ==
    ASSUME IInv, NEW b \in Block \ {Genesis}, AcceptBlock(b)
    PROVE  IInv'
  <1>1. CASE b \in Malformed
    <2>1. /\ failedValid' = failedValid \cup {b}
          /\ UNCHANGED <<known, data, linked, scripts, failedChild, failedBlocks, unlinked, seq,
                         nextSeq, reverseSeq, candidates, tip, pc, mostWork, startTip, target,
                         toMark, byWork>>
      BY <1>1 DEF AcceptBlock, ids, activation, invalidation
    <2>2. ASSUME NEW t \in linked, Chain[t] \cap Failed = {} PROVE Chain[t] \cap Failed' = {}
      BY <2>1, <2>2, LinkedChain DEF AcceptBlock, Failed
    <2>3. TypeOK'
      BY <2>1 DEF IInv, TypeOK
    <2>4. IndexOK'
      BY <2>1 DEF IInv, IndexOK
    <2>5. FlagsOK'
      BY <2>1, <2>2 DEF IInv, IndexOK, FlagsOK, FailedBlocksMarked, TipNotFailed
    <2>6. OrderOK'
      BY <2>1 DEF IInv, OrderOK, Worse
    <2>7. TargetOK'
      BY <2>1, <2>2 DEF IInv, TargetOK
    <2> QED
      BY <2>3, <2>4, <2>5, <2>6, <2>7 DEF IInv
  <1>2. CASE b \notin Malformed
    <2>1. /\ ReceivedBlockTransactions(b) /\ b \in known /\ b \notin data
          /\ UNCHANGED <<known, scripts, failedValid, failedChild, failedBlocks, tip, pc,
                         mostWork, startTip, target, toMark, byWork>>
      BY <1>2 DEF AcceptBlock, activation, invalidation
    <2>2. /\ seq' \in [Block -> Int] /\ nextSeq' \in Nat
          /\ linked \subseteq linked' /\ linked' \in SUBSET Block /\ unlinked' \in SUBSET Block
          /\ candidates' \in SUBSET Block
          /\ \A c \in linked : seq'[c] = seq[c]
          /\ \A c \in linked' \ linked : c \in candidates' <=> ~WorseBy(seq', c, tip)
          /\ candidates' \cap linked = candidates
          /\ IndexOK'
      BY <1>2, <2>1, ReceivedOK
    <2>3. TypeOK'
      BY <2>1, <2>2 DEF IInv, TypeOK, ReceivedBlockTransactions
    <2>4. FlagsOK'
      BY <2>1 DEF IInv, FlagsOK, FailedBlocksMarked, TipNotFailed, Failed
    <2>5. OrderOK'
      <3> SUFFICES ASSUME NEW c \in candidates' PROVE ~WorseBy(seq', c, tip)
        BY <2>1 DEF OrderOK, Worse
      <3>1. CASE c \in linked
        <4>1. c \in candidates /\ seq'[c] = seq[c] /\ seq'[tip] = seq[tip]
          BY <3>1, <2>2 DEF IInv, IndexOK
        <4> QED
          BY <4>1 DEF IInv, OrderOK, Worse, WorseBy
      <3>2. CASE c \notin linked
        BY <3>2, <2>2 DEF IndexOK
      <3> QED
        BY <3>1, <3>2
    <2>6. TargetOK'
      BY <2>1, <2>2 DEF IInv, TargetOK, Failed
    <2> QED
      BY <2>2, <2>3, <2>4, <2>5, <2>6 DEF IInv
  <1> QED
    BY <1>1, <1>2

\* The call begins.
LEMMA ActivateBestChainKeeps ==
    ASSUME IInv, ActivateBestChain
    PROVE  IInv'
  <1>1. TypeOK' /\ IndexOK'
    BY DEF ActivateBestChain, IInv, TypeOK, IndexOK, index, failures, ids, invalidation
  <1>2. FlagsOK' /\ OrderOK' /\ TargetOK'
    BY DEF ActivateBestChain, IInv, FlagsOK, FailedBlocksMarked, TipNotFailed, Failed, OrderOK,
           Worse, TargetOK, failures, ids
  <1> QED
    BY <1>1, <1>2 DEF IInv

\* cs_main is taken.
LEMMA LockMainKeeps ==
    ASSUME IInv, LockMain
    PROVE  IInv'
  <1>1. TypeOK' /\ IndexOK'
    BY DEF LockMain, IInv, TypeOK, IndexOK, index, failures, ids, invalidation
  <1>2. FlagsOK' /\ OrderOK' /\ TargetOK'
    BY DEF LockMain, IInv, FlagsOK, FailedBlocksMarked, TipNotFailed, Failed, OrderOK,
           Worse, TargetOK, failures, ids, index
  <1> QED
    BY <1>1, <1>2 DEF IInv

\* The block that DiscardFailedCandidate finds: failed, and not in the active chain.
LEMMA WorstOnPath ==
    ASSUME IInv, NEW new \in Block, BadOnPath(new) # {}
    PROVE  LET bad == CHOOSE c \in BadOnPath(new) :
                          \A d \in BadOnPath(new) : nChainWork[d] <= nChainWork[c]
           IN bad \in Chain[new] /\ bad \in Failed /\ bad \notin Chain[tip]
  <1> DEFINE bad == CHOOSE c \in BadOnPath(new) :
                        \A d \in BadOnPath(new) : nChainWork[d] <= nChainWork[c]
  <1>1. BadOnPath(new) = (Failed \ Chain[tip]) \cap Chain[new]
    BY DEF BadOnPath, NewPath
  <1>2. PICK c \in BadOnPath(new) : BadOnPath(new) \subseteq Chain[c]
    BY <1>1, HighestExists, SMTT(40)
  <1>3. c \in Block
    BY <1>1, ChainType
  <1>4. \A d \in BadOnPath(new) : nChainWork[d] <= nChainWork[c]
    <2> TAKE d \in BadOnPath(new)
    <2>1. d \in Block /\ d \in Chain[c]
      BY <1>1, <1>2, ChainType
    <2> QED
      BY <2>1, <1>3, WorkGrows, ChainFinite, SMTT(40)
  <1>5. bad \in BadOnPath(new)
    BY <1>4
  <1> QED
    BY <1>1, <1>5

\* Marking the part of a chain above a failed block that the active chain lacks does
\* not touch the active chain.
LEMMA DiscardFailedCandidateKeeps ==
    ASSUME IInv, DiscardFailedCandidate
    PROVE  IInv'
  <1> DEFINE new == Best(candidates)
             bad == CHOOSE c \in BadOnPath(new) :
                        \A d \in BadOnPath(new) : nChainWork[d] <= nChainWork[c]
  <1>1. /\ failedChild' = failedChild \cup (Chain[new] \ Chain[bad])
        /\ candidates' = candidates \ ((Chain[new] \ Chain[bad]) \cup {bad})
        /\ UNCHANGED <<known, data, linked, scripts, failedValid, failedBlocks, unlinked, seq,
                       nextSeq, reverseSeq, tip, pc, mostWork, startTip, target, toMark, byWork>>
        /\ BadOnPath(new) # {} /\ candidates # {} /\ pc = "find" /\ mostWork = NoBlock
    BY DEF DiscardFailedCandidate, index, ids, activation, invalidation
  <1>2. new \in Block
    BY <1>1, BestExists DEF IInv, TypeOK
  <1>3. bad \in Chain[new] /\ bad \notin Chain[tip]
    BY <1>1, <1>2, WorstOnPath
  <1> HIDE DEF new, bad
  <1>4. (Chain[new] \ Chain[bad]) \cap Chain[tip] = {}
    BY <1>2, <1>3, MarksAbove DEF IInv, TypeOK
  <1>5. TypeOK'
    BY <1>1, <1>2, ChainType DEF IInv, TypeOK
  <1>6. IndexOK'
    BY <1>1 DEF IInv, IndexOK
  <1>7. FlagsOK'
    BY <1>1, <1>4 DEF IInv, FlagsOK, FailedBlocksMarked, TipNotFailed, Failed
  <1>8. OrderOK'
    BY <1>1 DEF IInv, OrderOK, Worse
  <1>9. TargetOK'
    BY <1>1 DEF IInv, TargetOK
  <1> QED
    BY <1>5, <1>6, <1>7, <1>8, <1>9 DEF IInv

\* The call ends.
LEMMA NothingToActivateKeeps ==
    ASSUME IInv, NothingToActivate
    PROVE  IInv'
  <1>1. /\ UNCHANGED <<known, data, linked, scripts, failedValid, failedChild, failedBlocks,
                       unlinked, seq, nextSeq, reverseSeq, candidates, tip, target, toMark,
                       byWork>>
        /\ pc' \in {"idle", "activate"}
        /\ pc' = "idle" => mostWork' = NoBlock
        /\ pc' = "activate" => tip # FindMostWorkChain /\ mostWork' = FindMostWorkChain
        /\ FindMostWorkChain \in {NoBlock, tip}
    BY DEF NothingToActivate, Leave, index, failures, ids, invalidation
  <1>2. mostWork' = NoBlock
    BY <1>1
  <1>3. TypeOK' /\ IndexOK'
    BY <1>1 DEF IInv, TypeOK, IndexOK
  <1>4. FlagsOK' /\ OrderOK' /\ TargetOK'
    BY <1>1, <1>2 DEF IInv, FlagsOK, FailedBlocksMarked, TipNotFailed, Failed, OrderOK, Worse,
                      TargetOK
  <1> QED
    BY <1>3, <1>4 DEF IInv

\* The target of ActivateBestChainStep: complete, not failed, and not in the active chain.
LEMMA TargetChosen ==
    ASSUME IInv, Settled, FindMostWorkChain \notin {NoBlock, tip}
    PROVE  /\ FindMostWorkChain \in linked
           /\ Chain[FindMostWorkChain] \cap Failed = {}
           /\ FindMostWorkChain \notin Chain[tip]
  <1>1. CASE mostWork # NoBlock
    <2>1. FindMostWorkChain = mostWork
      BY <1>1 DEF FindMostWorkChain
    <2>2. mostWork \in linked /\ Chain[mostWork] \cap Failed = {} /\ tip \in Chain[mostWork]
      BY <1>1 DEF IInv, TargetOK
    <2> QED
      BY <2>1, <2>2, ChainAntisymmetric DEF IInv, TypeOK
  <1>2. CASE mostWork = NoBlock
    <2> DEFINE m == Best(candidates)
    <2>1. FindMostWorkChain = m /\ candidates # {}
      BY <1>2 DEF FindMostWorkChain
    <2>2. m \in candidates
      BY <2>1, BestExists DEF IInv, TypeOK
    <2> HIDE DEF m
    <2>3. m \in linked /\ m \in Block /\ tip \in Block
      BY <2>2 DEF IInv, TypeOK, IndexOK
    <2>4. (Chain[m] \ Chain[tip]) \cap Failed = {}
      BY <1>2, <2>1 DEF Settled, BadOnPath, NewPath, m
    <2>5. Chain[m] \cap Failed = {}
      BY <2>4 DEF IInv, FlagsOK, TipNotFailed
    <2>6. m \notin Chain[tip]
      BY <2>1, <2>2, <2>3, BelowWorse DEF IInv, TypeOK, OrderOK, Worse
    <2> QED
      BY <2>1, <2>3, <2>5, <2>6
  <1> QED
    BY <1>1, <1>2

\* The fork: a common block, not the target itself.
LEMMA ForkOK ==
    ASSUME IInv, NEW m \in Block, m \notin Chain[tip]
    PROVE  LET f == CHOOSE x \in Chain[tip] \cap Chain[m] : Chain[tip] \cap Chain[m] \subseteq Chain[x]
           IN f \in Chain[tip] /\ f \in Chain[m] /\ f # m
  <1>1. Genesis \in Chain[tip] \cap Chain[m]
    BY TreeAssumption DEF IInv, TypeOK
  <1>2. \E x \in Chain[tip] \cap Chain[m] : Chain[tip] \cap Chain[m] \subseteq Chain[x]
    BY <1>1, HighestExists
  <1> QED
    BY <1>2

\* The tip moves down to the fork, below every candidate and the target.
LEMMA DisconnectToForkKeeps ==
    ASSUME IInv, DisconnectToFork
    PROVE  IInv'
  <1> DEFINE m == FindMostWorkChain
  <1>1. /\ m \notin {NoBlock, tip} /\ Settled /\ mostWork' = m /\ pc = "find" /\ pc' = "connect"
        /\ tip' = CHOOSE x \in Chain[tip] \cap Chain[m] : Chain[tip] \cap Chain[m] \subseteq Chain[x]
        /\ UNCHANGED <<known, data, linked, scripts, failedValid, failedChild, failedBlocks,
                       unlinked, seq, nextSeq, reverseSeq, candidates, startTip, target, toMark,
                       byWork>>
    BY DEF DisconnectToFork, index, failures, ids, invalidation
  <1>2. m \in linked /\ m \in Block /\ Chain[m] \cap Failed = {} /\ m \notin Chain[tip]
    BY <1>1, TargetChosen DEF IInv, TypeOK
  <1> HIDE DEF m
  <1>3. tip' \in Chain[tip] /\ tip' \in Chain[m] /\ tip' # m
    BY <1>1, <1>2, ForkOK
  <1>4. tip' \in Block /\ tip' \in linked /\ Chain[tip'] \subseteq Chain[tip]
    BY <1>3, ChainTrans, LinkedChain DEF IInv, TypeOK, IndexOK
  <1>5. TypeOK' /\ IndexOK'
    BY <1>1, <1>4 DEF IInv, TypeOK, IndexOK
  <1>6. FlagsOK'
    BY <1>1, <1>4 DEF IInv, FlagsOK, FailedBlocksMarked, TipNotFailed, Failed
  <1>7. OrderOK'
    <2> SUFFICES ASSUME NEW c \in candidates PROVE ~WorseBy(seq, c, tip')
      BY <1>1 DEF OrderOK, Worse
    <2>1. tip' = tip \/ WorseBy(seq, tip', tip)
      BY <1>3, BelowWorse DEF IInv, TypeOK
    <2> QED
      BY <2>1, <1>4, WorseOrder, SMTT(40) DEF IInv, TypeOK, OrderOK, Worse
  <1>8. TargetOK'
    BY <1>1, <1>2, <1>3 DEF TargetOK, Failed
  <1> QED
    BY <1>5, <1>6, <1>7, <1>8 DEF IInv

\* The next block to connect: a child of the tip on the target's chain.
LEMMA NextOK ==
    ASSUME IInv, pc = "connect"
    PROVE  /\ NextToConnect \in Block \ {Genesis} /\ NextToConnect \in Chain[mostWork]
           /\ Parent[NextToConnect] = tip
           /\ Chain[NextToConnect] = {NextToConnect} \cup Chain[tip]
           /\ mostWork \in linked /\ mostWork \in Block /\ NextToConnect \notin Chain[tip]
  <1>1. mostWork \in linked /\ tip \in Chain[mostWork] /\ tip # mostWork
    BY DEF IInv, TargetOK
  <1>2. mostWork \in Block /\ Genesis \in Chain[tip]
    BY <1>1, TreeAssumption DEF IInv, TypeOK
  <1>3. \E b \in NewPath(mostWork) : Parent[b] = tip
    BY <1>1, <1>2, ChildExists DEF NewPath
  <1>4. NextToConnect \in NewPath(mostWork) /\ Parent[NextToConnect] = tip
    BY <1>3 DEF NextToConnect
  <1>5. NextToConnect \in Block \ {Genesis} /\ NextToConnect \in Chain[mostWork]
    BY <1>2, <1>4, ChainType DEF NewPath
  <1> QED
    BY <1>1, <1>2, <1>4, <1>5, ChainStep DEF NewPath

\* The tip moves one block towards the target, and candidates worse than it are pruned.
LEMMA ConnectTipKeeps ==
    ASSUME IInv, ConnectTip
    PROVE  IInv'
  <1> DEFINE b == NextToConnect
  <1>1. /\ pc = "connect" /\ b \notin Unconnectable /\ tip' = b /\ scripts' = scripts \cup {b}
        /\ candidates' = {c \in candidates : ~WorseBy(seq, c, b)}
        /\ UNCHANGED <<known, data, linked, failedValid, failedChild, failedBlocks, unlinked,
                       seq, nextSeq, reverseSeq, target, toMark, byWork>>
    BY DEF ConnectTip, failures, ids, invalidation, PruneBlockIndexCandidates
  <1>2. /\ b \in Block \ {Genesis} /\ b \in Chain[mostWork] /\ Chain[b] = {b} \cup Chain[tip]
        /\ mostWork \in linked /\ mostWork \in Block
    BY <1>1, NextOK
  <1>3. \/ pc' = "find" /\ mostWork' = mostWork /\ startTip' = startTip
        \/ pc' = "activate" /\ mostWork' = mostWork
        \/ pc' = "idle" /\ mostWork' = NoBlock
        \/ pc' = "connect" /\ mostWork' = mostWork /\ startTip' = startTip /\ b # mostWork
    BY <1>1 DEF ConnectTip, activation, LoopOrLeave, Leave
  <1> HIDE DEF b
  <1>4. b \in linked /\ b \in data /\ b \notin Failed
    BY <1>1, <1>2, LinkedChain DEF IInv, TargetOK
  <1>5. TypeOK'
    BY <1>1, <1>2, <1>3 DEF IInv, TypeOK
  <1>6. IndexOK'
    BY <1>1, <1>4 DEF IInv, IndexOK
  <1>7. FlagsOK'
    <2>1. b \notin Malformed
      BY <1>4 DEF IInv, IndexOK
    <2> QED
      BY <1>1, <1>2, <1>4, <2>1 DEF IInv, FlagsOK, FailedBlocksMarked, TipNotFailed, Failed
  <1>8. OrderOK'
    BY <1>1 DEF OrderOK, Worse
  <1>9. TargetOK'
    BY <1>1, <1>2, <1>3 DEF IInv, TargetOK, Failed
  <1> QED
    BY <1>5, <1>6, <1>7, <1>8, <1>9 DEF IInv

\* The rejected block is above the tip, and the target is dropped.
LEMMA ConnectInvalidKeeps ==
    ASSUME IInv, ConnectInvalid
    PROVE  IInv'
  <1> DEFINE b == NextToConnect
  <1>1. /\ pc = "connect" /\ failedValid' = failedValid \cup {b}
        /\ failedBlocks' = failedBlocks \cup {b} /\ candidates' = candidates \ {b}
        /\ UNCHANGED <<known, data, linked, scripts, failedChild, unlinked, seq, nextSeq,
                       reverseSeq, tip, target, toMark, byWork>>
    BY DEF ConnectInvalid, index, ids, invalidation
  <1>2. b \in Block /\ b \notin Chain[tip]
    BY <1>1, NextOK
  <1> HIDE DEF b
  <1>3. \/ pc' = "find" /\ mostWork' = NoBlock /\ startTip' = startTip
        \/ pc' \in {"idle", "activate"} /\ mostWork' = NoBlock
    BY DEF ConnectInvalid, LoopOrLeave, Leave
  <1>4. TypeOK'
    BY <1>1, <1>2, <1>3 DEF IInv, TypeOK
  <1>5. IndexOK'
    BY <1>1 DEF IInv, IndexOK
  <1>6. FlagsOK'
    BY <1>1, <1>2 DEF IInv, FlagsOK, FailedBlocksMarked, TipNotFailed, Failed
  <1>7. OrderOK' /\ TargetOK'
    BY <1>1, <1>3 DEF IInv, OrderOK, Worse, TargetOK
  <1> QED
    BY <1>4, <1>5, <1>6, <1>7 DEF IInv

\* The target is dropped.
LEMMA ConnectStallKeeps ==
    ASSUME IInv, ConnectStall
    PROVE  IInv'
  <1>1. pc' = "idle" /\ mostWork' = NoBlock
    BY DEF ConnectStall, Leave
  <1>2. TypeOK' /\ IndexOK'
    BY <1>1 DEF ConnectStall, IInv, TypeOK, IndexOK, index, failures, ids, invalidation
  <1>3. FlagsOK' /\ OrderOK' /\ TargetOK'
    BY <1>1 DEF ConnectStall, IInv, FlagsOK, FailedBlocksMarked, TipNotFailed, Failed, OrderOK,
                Worse, TargetOK, failures, ids
  <1> QED
    BY <1>2, <1>3 DEF IInv

\* InvalidateBlock begins.
LEMMA InvalidateBlockKeeps ==
    ASSUME IInv, NEW b \in Invalidatable, InvalidateBlock(b)
    PROVE  IInv'
  <1>1. /\ pc = "idle" /\ pc' = "invalidate" /\ target' = b /\ toMark' = b /\ byWork' \subseteq linked
        /\ UNCHANGED <<known, data, linked, scripts, failedValid, failedChild, failedBlocks,
                       unlinked, seq, nextSeq, reverseSeq, candidates, tip, mostWork>>
    BY DEF InvalidateBlock, index, failures, ids, activation
  <1>2. TypeOK' /\ IndexOK'
    BY <1>1, InputAssumption DEF IInv, TypeOK, IndexOK
  <1>3. FlagsOK' /\ OrderOK' /\ TargetOK'
    BY <1>1 DEF IInv, FlagsOK, FailedBlocksMarked, TipNotFailed, Failed, OrderOK, Worse, TargetOK
  <1> QED
    BY <1>2, <1>3 DEF IInv

\* InvalidateBlock never turns BLOCK_FAILED_VALID into BLOCK_FAILED_CHILD: the block
\* it would have to relabel is in the active chain.
LEMMA NoRelabel ==
    ASSUME IInv, InvalidateTip
    PROVE  /\ tip # Genesis /\ Parent[tip] \in Block /\ Parent[tip] \in Chain[tip]
           /\ Chain[tip] = {tip} \cup Chain[Parent[tip]]
           /\ Parent[tip] \notin failedValid
           /\ failedValid' = failedValid \cup {tip} /\ failedChild' = failedChild
  <1>1. tip \in Block \ {Genesis}
    BY ChainRoot DEF InvalidateTip, IInv, TypeOK
  <1>2. /\ Parent[tip] \in Block /\ Parent[tip] \in Chain[tip]
        /\ Chain[tip] = {tip} \cup Chain[Parent[tip]]
    BY <1>1, ChainStep
  <1>3. Parent[tip] \notin failedValid
    BY <1>2 DEF IInv, FlagsOK, TipNotFailed, Failed
  <1> QED
    BY <1>1, <1>2, <1>3 DEF InvalidateTip

\* The tip moves to its parent, below every candidate.
LEMMA InvalidateTipKeeps ==
    ASSUME IInv, InvalidateTip
    PROVE  IInv'
  <1> DEFINE p == Parent[tip]
             fit == {c \in byWork : ~Worse(c, p)}
  <1>1. /\ tip # Genesis /\ p \in Block /\ p \in Chain[tip] /\ Chain[tip] = {tip} \cup Chain[p]
        /\ failedValid' = failedValid \cup {tip} /\ failedChild' = failedChild
    BY NoRelabel
  <1>2. /\ pc = "invalidate" /\ tip' = p /\ toMark' = tip
        /\ candidates' = (candidates \ {tip}) \cup {p} \cup fit /\ byWork' = byWork \ fit
        /\ UNCHANGED <<known, data, linked, scripts, failedBlocks, unlinked, seq, nextSeq,
                       reverseSeq, pc, mostWork, target>>
    BY DEF InvalidateTip, index, ids, activation
  <1>3. fit \subseteq byWork /\ \A c \in fit : ~Worse(c, p)
    OBVIOUS
  <1>4. tip \in Block /\ p # tip /\ tip \notin Chain[p]
    BY <1>1, ParentBelow, ChainType DEF IInv, TypeOK
  <1> HIDE DEF fit
  <1>5. p \in linked
    BY <1>1, LinkedChain DEF IInv, IndexOK
  <1>6. TypeOK'
    BY <1>1, <1>2, <1>3, <1>4 DEF IInv, TypeOK
  <1>7. IndexOK'
    BY <1>2, <1>3, <1>5 DEF IInv, IndexOK
  <1>8. FlagsOK'
    BY <1>1, <1>2, <1>4 DEF IInv, FlagsOK, FailedBlocksMarked, TipNotFailed, Failed
  <1>9. OrderOK'
    <2> SUFFICES ASSUME NEW c \in candidates' PROVE ~WorseBy(seq, c, p)
      BY <1>2 DEF OrderOK, Worse
    <2>1. WorseBy(seq, p, tip)
      BY <1>1, <1>4, BelowWorse DEF IInv, TypeOK
    <2>2. CASE c \in candidates
      BY <2>1, <2>2, <1>1, <1>4, WorseOrder DEF IInv, TypeOK, OrderOK, Worse
    <2>3. CASE c = p
      BY <2>3, <1>1, WorseOrder DEF IInv, TypeOK
    <2>4. CASE c \in fit
      BY <2>4, <1>3 DEF Worse
    <2> QED
      BY <2>2, <2>3, <2>4, <1>2
  <1>10. TargetOK'
    BY <1>2 DEF IInv, TargetOK
  <1> QED
    BY <1>6, <1>7, <1>8, <1>9, <1>10 DEF IInv

\* The target is no longer on the active chain.
LEMMA InvalidateLoopEndsKeeps ==
    ASSUME IInv, InvalidateLoopEnds
    PROVE  IInv'
  <1>1. TypeOK' /\ IndexOK'
    BY DEF InvalidateLoopEnds, IInv, TypeOK, IndexOK, index, failures, ids, invalidation
  <1>2. FlagsOK' /\ OrderOK' /\ TargetOK'
    BY DEF InvalidateLoopEnds, IInv, FlagsOK, FailedBlocksMarked, TipNotFailed, Failed, OrderOK,
           Worse, TargetOK, failures, ids, activation
  <1> QED
    BY <1>1, <1>2 DEF IInv

\* The block marked is not on the active chain.
LEMMA MarkInvalidKeeps ==
    ASSUME IInv, MarkInvalid
    PROVE  IInv'
  <1>1. /\ pc = "mark" /\ toMark \notin Chain[tip] /\ pc' = "idle" /\ byWork' = {}
        /\ failedValid' = failedValid \cup {toMark}
        /\ failedBlocks' = failedBlocks \cup {toMark}
        /\ candidates' \subseteq candidates \cup {c \in linked : ~Worse(c, tip)}
        /\ UNCHANGED <<known, data, linked, scripts, failedChild, unlinked, seq, nextSeq,
                       reverseSeq, tip, mostWork>>
    BY DEF MarkInvalid, index, ids, activation
  <1>2. TypeOK'
    BY <1>1 DEF IInv, TypeOK
  <1>3. IndexOK'
    BY <1>1 DEF IInv, IndexOK
  <1>4. FlagsOK'
    BY <1>1 DEF IInv, FlagsOK, FailedBlocksMarked, TipNotFailed, Failed
  <1>5. OrderOK' /\ TargetOK'
    BY <1>1 DEF IInv, OrderOK, Worse, TargetOK
  <1> QED
    BY <1>2, <1>3, <1>4, <1>5 DEF IInv

\* Flags and entries of m_failed_blocks go together.
LEMMA ResetBlockFailureFlagsKeeps ==
    ASSUME IInv, NEW b \in Reconsiderable, ResetBlockFailureFlags(b)
    PROVE  IInv'
  <1> DEFINE below == Descendants(b) \cap Failed
             cleared == below \cup Chain[b]
  <1>1. /\ failedValid' = failedValid \ cleared /\ failedChild' = failedChild \ cleared
        /\ failedBlocks' = failedBlocks \ (below \cup (Chain[b] \cap Failed))
        /\ candidates' = candidates \cup {c \in below \cap linked : Worse(tip, c)}
        /\ UNCHANGED <<known, data, linked, scripts, unlinked, seq, nextSeq, reverseSeq, tip, pc,
                       mostWork, startTip, target, toMark, byWork>>
    BY DEF ResetBlockFailureFlags, index, ids, activation, invalidation
  <1> HIDE DEF below
  <1>2. TypeOK'
    BY <1>1 DEF IInv, TypeOK
  <1>3. IndexOK'
    BY <1>1 DEF IInv, IndexOK
  <1>4. Failed' \subseteq Failed
    BY <1>1 DEF Failed
  <1>5. FlagsOK'
    <2>1. FailedBlocksMarked'
      BY <1>1 DEF IInv, FlagsOK, FailedBlocksMarked, Failed
    <2> QED
      BY <1>1, <1>4, <2>1 DEF IInv, FlagsOK, TipNotFailed
  <1>6. OrderOK'
    <2> SUFFICES ASSUME NEW c \in candidates' PROVE ~WorseBy(seq, c, tip)
      BY <1>1 DEF OrderOK, Worse
    <2>1. CASE c \in candidates
      BY <2>1 DEF IInv, OrderOK, Worse
    <2>2. CASE c \in linked /\ Worse(tip, c)
      BY <2>2, WorseOrder DEF IInv, TypeOK, Worse
    <2> QED
      BY <2>1, <2>2, <1>1
  <1>7. TargetOK'
    BY <1>1, <1>4 DEF IInv, TargetOK
  <1> QED
    BY <1>2, <1>3, <1>5, <1>6, <1>7 DEF IInv

\* What preciousblock does to the ids.
LEMMA PreciousIds ==
    ASSUME IInv, NEW b \in Preciousable, PreciousBlock(b)
    PROVE  /\ b \in Block
           /\ \E rev \in Int : /\ -MaxPrecious <= rev /\ rev <= -1
                               /\ seq' = [seq EXCEPT ![b] = rev] /\ reverseSeq' = rev - 1
  <1>1. b \in Block
    BY InputAssumption
  <1> DEFINE rev == IF nChainWork[tip] > lastPrecious THEN -1 ELSE reverseSeq
  <1>2. rev \in Int /\ rev <= -1
    <2>1. reverseSeq \in Int /\ reverseSeq <= -1
      BY DEF IInv, TypeOK, IndexOK
    <2> QED BY <2>1, SMTT(40)
  <1>3. rev >= -MaxPrecious /\ seq' = [seq EXCEPT ![b] = rev] /\ reverseSeq' = rev - 1
    BY DEF PreciousBlock
  <1> HIDE DEF rev
  <1> QED
    BY <1>1, <1>2, <1>3, InputAssumption

\* One sequence id is lowered, and the candidates are pruned with the new one.
LEMMA PreciousBlockKeeps ==
    ASSUME IInv, NEW b \in Preciousable, PreciousBlock(b)
    PROVE  IInv'
  <1>1. PICK rev \in Int : /\ rev <= -1 /\ seq' = [seq EXCEPT ![b] = rev]
                           /\ reverseSeq' = rev - 1
    BY PreciousIds
  <1>2. b \in Block
    BY InputAssumption
  <1>3. /\ candidates' = IF IsValid(b) /\ b \in linked
                         THEN {c \in candidates \cup {b} : ~WorseBy(seq', c, tip)}
                         ELSE candidates \ {b}
        /\ UNCHANGED <<known, data, linked, scripts, failedValid, failedChild, failedBlocks,
                       unlinked, nextSeq, tip, pc, mostWork, startTip, target, toMark, byWork>>
    BY DEF PreciousBlock, index, failures, activation, invalidation, PruneBlockIndexCandidates
  <1>4. /\ seq' \in [Block -> Int] /\ seq'[b] = rev
        /\ \A c \in Block \ {b} : seq'[c] = seq[c]
    BY <1>1, <1>2 DEF IInv, TypeOK
  <1>5. TypeOK'
    BY <1>1, <1>2, <1>3, <1>4, SMTT(40) DEF IInv, TypeOK
  <1>6. IndexOK'
    <2>0. linked' = linked /\ \A c \in Block \ linked : seq[c] <= 0
      BY <1>3 DEF IInv, IndexOK
    <2>1. \A c \in Block \ linked' : seq'[c] <= 0
      BY <1>1, <1>4, <2>0, SMTT(40)
    <2>2. candidates' \subseteq linked'
      BY <1>3 DEF IInv, IndexOK
    <2>3. reverseSeq' <= -1
      BY <1>1, SMTT(40)
    <2> QED
      BY <2>1, <2>2, <2>3, <1>3 DEF IInv, IndexOK
  <1>7. FlagsOK' /\ TargetOK'
    BY <1>3 DEF IInv, FlagsOK, FailedBlocksMarked, TipNotFailed, Failed, TargetOK
  <1>8. OrderOK'
    <2> SUFFICES ASSUME NEW c \in candidates' PROVE ~WorseBy(seq', c, tip)
      BY <1>3 DEF OrderOK, Worse
    <2>1. CASE IsValid(b) /\ b \in linked
      BY <2>1, <1>3
    <2>2. CASE ~(IsValid(b) /\ b \in linked)
      <3>1. tip # b
        BY <2>2, ChainType DEF IInv, TypeOK, IndexOK, FlagsOK, TipNotFailed, IsValid
      <3>2. c \in candidates /\ c # b /\ c \in Block /\ tip \in Block
        BY <2>2, <1>3 DEF IInv, TypeOK
      <3>3. seq'[c] = seq[c] /\ seq'[tip] = seq[tip]
        BY <3>1, <3>2, <1>4
      <3>4. ~WorseBy(seq, c, tip)
        BY <3>2 DEF IInv, OrderOK, Worse
      <3> QED
        BY <3>3, <3>4 DEF WorseBy
    <2> QED
      BY <2>1, <2>2
  <1> QED
    BY <1>5, <1>6, <1>7, <1>8 DEF IInv

\* Start-up marks descendants of failed blocks, none of them on the active chain.
LEMMA RestartKeeps ==
    ASSUME IInv, Restart
    PROVE  IInv'
  <1>1. /\ pc = "idle" /\ linked' = {b \in data : Chain[b] \subseteq data}
        /\ unlinked' = data \ linked' /\ failedBlocks' = {}
        /\ failedChild' = failedChild \cup {b \in known \ Failed : Chain[b] \cap Failed # {}}
        /\ candidates' = {c \in linked' \ (failedValid \cup failedChild') : ~WorseBy(seq', c, tip)}
        /\ UNCHANGED <<known, data, scripts, failedValid, tip, pc, mostWork, startTip, target,
                       toMark, byWork>>
    BY DEF Restart, activation, invalidation, PruneBlockIndexCandidates
  <1>2. linked \subseteq linked' /\ linked' \subseteq data
    BY <1>1, LinkedChain DEF IInv, IndexOK
  <1>0. seq' = [b \in Block |-> 0] /\ nextSeq' = 1 /\ reverseSeq' = -1
    BY DEF Restart
  <1>3. TypeOK'
    <2>1. seq' \in [Block -> Int] /\ nextSeq' \in Nat /\ reverseSeq' \in Int
      BY <1>0, SMTT(40)
    <2> QED
      BY <1>1, <1>2, <2>1 DEF IInv, TypeOK
  <1>4. IndexOK'
    <2>1. \A b \in linked' \ {Genesis} : Parent[b] \in linked'
      <3> TAKE b \in linked' \ {Genesis}
      <3>1. b \in Block \ {Genesis} /\ Chain[b] \subseteq data
        BY <1>1, <1>2 DEF IInv, TypeOK
      <3> QED
        BY <3>1, <1>1, ChainStep, ChainTrans
    <2>2. \A b \in unlinked' : Parent[b] \notin linked'
      <3> TAKE b \in unlinked'
      <3>1. b \in data \ linked' /\ b \in Block \ {Genesis}
        BY <1>1, <1>2 DEF IInv, TypeOK, IndexOK
      <3> QED
        BY <3>1, <1>1, ChainStep
    <2>3. (\A b \in Block \ linked' : seq'[b] <= 0) /\ reverseSeq' <= -1
      BY <1>0, SMTT(40)
    <2> QED
      BY <2>1, <2>2, <2>3, <1>1, <1>2 DEF IInv, IndexOK, ParentClosed
  <1>5. FlagsOK'
    <2>1. \A b \in Chain[tip] : Chain[b] \subseteq Chain[tip]
      BY ChainTrans DEF IInv, TypeOK
    <2>2. Chain[tip] \cap Failed' = {}
      BY <1>1, <2>1 DEF IInv, FlagsOK, TipNotFailed, Failed
    <2> QED
      BY <1>1, <2>2 DEF IInv, FlagsOK, FailedBlocksMarked, TipNotFailed
  <1>6. OrderOK' /\ TargetOK'
    BY <1>1 DEF IInv, OrderOK, Worse, TargetOK
  <1> QED
    BY <1>3, <1>4, <1>5, <1>6 DEF IInv

\* A step that changes nothing.
LEMMA StutterKeeps ==
    ASSUME IInv, UNCHANGED vars
    PROVE  IInv'
  <1>1. TypeOK' /\ IndexOK'
    BY DEF vars, IInv, TypeOK, IndexOK, index, failures, ids, activation, invalidation
  <1>2. FlagsOK' /\ OrderOK' /\ TargetOK'
    BY DEF vars, IInv, FlagsOK, FailedBlocksMarked, TipNotFailed, Failed, OrderOK, Worse,
           TargetOK, index, failures, ids, activation
  <1> QED
    BY <1>1, <1>2 DEF IInv

\* Every step preserves the invariant.
LEMMA NextKeeps == IInv /\ [Next]_vars => IInv'
  <1> SUFFICES ASSUME IInv, [Next]_vars PROVE IInv'
    OBVIOUS
  <1>1. CASE UNCHANGED vars
    BY <1>1, StutterKeeps
  <1>2. CASE Activation
    BY <1>2, LockMainKeeps, DiscardFailedCandidateKeeps, NothingToActivateKeeps,
       DisconnectToForkKeeps, ConnectTipKeeps, ConnectInvalidKeeps, ConnectStallKeeps,
       ZenonT(20) DEF Activation
  <1>3. CASE Invalidation
    BY <1>3, InvalidateTipKeeps, InvalidateLoopEndsKeeps, MarkInvalidKeeps,
       ZenonT(20) DEF Invalidation
  <1> QED
    BY <1>1, <1>2, <1>3, AcceptBlockHeaderKeeps, AcceptBlockKeeps, ActivateBestChainKeeps,
       InvalidateBlockKeeps, ResetBlockFailureFlagsKeeps, PreciousBlockKeeps, RestartKeeps,
       ZenonT(20) DEF Next

\* IInv is an invariant, whatever the operator does.
THEOREM Invariance == Spec => []IInv
  BY InitIInv, NextKeeps, PTL DEF Spec

-------------------------------------------------------------------------------
(* What follows for every input.                                           *)

\* FailedBlocksMarked: every member of m_failed_blocks bears BLOCK_FAILED_VALID, so the
\* assertion of AcceptBlockHeader holds.
THEOREM FailedBlocksAlwaysMarked == Spec => []FailedBlocksMarked
  <1>1. IInv => FailedBlocksMarked
    BY DEF IInv, FlagsOK
  <1> QED
    BY <1>1, Invariance, PTL

\* TipNotFailed: ActivateBestChain never connects a block that is marked as failed, that
\* ConnectBlock rejects or that ContextualCheckBlock rejects, and no flag is set on a
\* block of the active chain.
THEOREM TipNeverFailed == Spec => []TipNotFailed
  <1>1. IInv => TipNotFailed
    BY DEF IInv, FlagsOK
  <1> QED
    BY <1>1, Invariance, PTL

\* CandidatesSound: setBlockIndexCandidates holds no block that is worse than the tip or
\* lacks data, as CheckBlockIndex asserts.
THEOREM CandidatesAlwaysSound == Spec => []CandidatesSound
  <1>1. IInv => CandidatesSound
    <2> SUFFICES ASSUME IInv, NEW b \in candidates
                 PROVE  ~Worse(b, tip) /\ Chain[b] \subseteq data
      BY DEF CandidatesSound
    <2> QED
      BY LinkedChain DEF IInv, IndexOK, OrderOK
  <1> QED
    BY <1>1, Invariance, PTL

\* The branch of InvalidateBlock that turns BLOCK_FAILED_VALID into BLOCK_FAILED_CHILD is
\* never taken: every block that InvalidateBlock disconnects keeps BLOCK_FAILED_VALID.
THEOREM NeverRelabelled ==
    Spec => [][InvalidateTip => failedValid' = failedValid \cup {tip} /\ failedChild' = failedChild]_vars
  <1>1. IInv /\ [Next]_vars =>
            [InvalidateTip => failedValid' = failedValid \cup {tip} /\ failedChild' = failedChild]_vars
    BY NoRelabel
  <1> QED
    BY <1>1, Invariance, PTL DEF Spec

-------------------------------------------------------------------------------
(* Without reconsiderblock flags are only ever added, and with a cause.    *)

\* A block with BLOCK_FAILED_CHILD descends from one with BLOCK_FAILED_VALID.
CauseOK == \A b \in Failed : ~Sound(b)

\* A block with data that is not linked waits, unless an ancestor is invalid.
WaitOK == {b \in data \ linked : Sound(b)} \subseteq unlinked

FlagsInv == IInv /\ CauseOK /\ WaitOK

\* How a step may set flags: BLOCK_FAILED_CHILD only above a failed block, and then on
\* everything in between.
FlagsGrow ==
    /\ failedValid \subseteq failedValid' /\ failedChild \subseteq failedChild'
    /\ \A x \in failedChild' \ failedChild :
          \E y \in Chain[x] \cap Failed : Chain[x] \ Chain[y] \subseteq Failed'

\* AcceptBlockHeader marks what lies between the known parent and an entry of m_failed_blocks.
LEMMA HeaderGrows ==
    ASSUME IInv, NEW b \in Block \ {Genesis}, AcceptBlockHeader(b)
    PROVE  FlagsGrow
  <1>1. UNCHANGED failedValid
    BY DEF AcceptBlockHeader
  <1>2. CASE UNCHANGED failedChild
    BY <1>1, <1>2 DEF FlagsGrow
  <1>3. ASSUME NEW f \in FailedAncestors(b),
               failedChild' = failedChild \cup (Chain[Parent[b]] \ Chain[f])
        PROVE  FlagsGrow
    <2>1. f \in Failed /\ f \in Chain[Parent[b]] /\ Parent[b] \in Block
      BY <1>3, ChainStep DEF FailedAncestors, IInv, FlagsOK, FailedBlocksMarked, Failed
    <2>2. \A x \in Chain[Parent[b]] \ Chain[f] :
              f \in Chain[x] /\ Chain[x] \ Chain[f] \subseteq Failed'
      BY <1>3, <2>1, AboveFork, ChainTrans DEF Failed
    <2> QED
      BY <1>1, <1>3, <2>1, <2>2 DEF FlagsGrow
  <1> QED
    BY <1>2, <1>3 DEF AcceptBlockHeader

\* FindMostWorkChain marks what lies above the highest failed block of the path.
LEMMA DiscardGrows ==
    ASSUME IInv, DiscardFailedCandidate
    PROVE  FlagsGrow
  <1> DEFINE new == Best(candidates)
             bad == CHOOSE c \in BadOnPath(new) :
                        \A d \in BadOnPath(new) : nChainWork[d] <= nChainWork[c]
  <1>1. /\ failedChild' = failedChild \cup (Chain[new] \ Chain[bad])
        /\ UNCHANGED failedValid
        /\ BadOnPath(new) # {} /\ candidates # {}
    BY DEF DiscardFailedCandidate
  <1>2. new \in Block
    BY <1>1, BestExists DEF IInv, TypeOK
  <1>3. bad \in Chain[new] /\ bad \in Failed
    BY <1>1, <1>2, WorstOnPath
  <1> HIDE DEF new, bad
  <1>4. \A x \in Chain[new] \ Chain[bad] : bad \in Chain[x] /\ Chain[x] \ Chain[bad] \subseteq Failed'
    BY <1>1, <1>2, <1>3, AboveFork, ChainTrans DEF Failed
  <1> QED
    BY <1>1, <1>3, <1>4 DEF FlagsGrow

\* LoadBlockIndex marks every block that has a failed ancestor.
LEMMA RestartGrows ==
    ASSUME IInv, Restart
    PROVE  FlagsGrow
  <1>1. /\ failedChild' = failedChild \cup {b \in known \ Failed : Chain[b] \cap Failed # {}}
        /\ UNCHANGED failedValid
    BY DEF Restart
  <1>2. ASSUME NEW x \in known, NEW y \in Chain[x] \cap Failed, NEW z \in Chain[x] \ Chain[y]
        PROVE  z \in Failed'
    <2>1. x \in Block /\ Chain[x] \subseteq known
      BY ChainLeast DEF IInv, TypeOK, IndexOK
    <2>2. y \in Chain[z] /\ z \in known
      BY <2>1, AboveFork
    <2> QED
      BY <1>1, <2>2 DEF Failed
  <1> QED
    BY <1>1, <1>2 DEF FlagsGrow

\* Every step but reconsiderblock sets flags in this way.
LEMMA NextGrows ==
    ASSUME Reconsiderable = {}, IInv, [Next]_vars
    PROVE  FlagsGrow
  <1>1. CASE UNCHANGED <<failedValid, failedChild>>
    BY <1>1 DEF FlagsGrow
  <1>2. CASE UNCHANGED vars
    BY <1>1, <1>2 DEF vars, failures
  <1>3. ASSUME NEW b \in Block \ {Genesis}, AcceptBlock(b) PROVE FlagsGrow
    BY <1>3 DEF AcceptBlock, FlagsGrow
  <1>4. CASE ActivateBestChain
    BY <1>1, <1>4 DEF ActivateBestChain, failures
  <1>5. CASE Activation
    <2>1. CASE LockMain
      BY <1>1, <2>1 DEF LockMain, failures
    <2>2. CASE NothingToActivate
      BY <1>1, <2>2 DEF NothingToActivate, failures
    <2>3. CASE DisconnectToFork
      BY <1>1, <2>3 DEF DisconnectToFork, failures
    <2>4. CASE ConnectTip
      BY <1>1, <2>4 DEF ConnectTip, failures
    <2>5. CASE ConnectInvalid
      BY <2>5 DEF ConnectInvalid, FlagsGrow
    <2>6. CASE ConnectStall
      BY <1>1, <2>6 DEF ConnectStall, failures
    <2> QED
      BY <1>5, <2>1, <2>2, <2>3, <2>4, <2>5, <2>6, DiscardGrows DEF Activation
  <1>6. ASSUME NEW b \in Invalidatable, InvalidateBlock(b) PROVE FlagsGrow
    BY <1>1, <1>6 DEF InvalidateBlock, failures
  <1>7. CASE Invalidation
    <2>1. CASE InvalidateTip
      BY <2>1, NoRelabel DEF FlagsGrow
    <2>2. CASE InvalidateLoopEnds
      BY <1>1, <2>2 DEF InvalidateLoopEnds, failures
    <2>3. CASE MarkInvalid
      BY <2>3 DEF MarkInvalid, FlagsGrow
    <2> QED
      BY <1>7, <2>1, <2>2, <2>3 DEF Invalidation
  <1>8. ASSUME NEW b \in Preciousable, PreciousBlock(b) PROVE FlagsGrow
    BY <1>1, <1>8 DEF PreciousBlock, failures
  <1>9. \A b \in Reconsiderable : FALSE
    OBVIOUS
  <1> QED
    BY <1>2, <1>3, <1>4, <1>5, <1>6, <1>7, <1>8, <1>9, HeaderGrows, RestartGrows DEF Next

\* Hence no flag is without a cause.
LEMMA CauseKept ==
    ASSUME IInv, IInv', CauseOK, FlagsGrow
    PROVE  CauseOK'
  <1> SUFFICES ASSUME NEW x \in Failed' PROVE Chain[x] \cap failedValid' # {}
    BY DEF CauseOK, Sound
  <1>1. x \in Block
    BY DEF IInv, TypeOK, Failed
  <1>2. CASE x \in failedValid'
    BY <1>1, <1>2, ChainType
  <1>3. CASE x \in Failed
    BY <1>3 DEF CauseOK, Sound, FlagsGrow
  <1>4. CASE x \in failedChild' \ failedChild
    <2>1. PICK y \in Chain[x] : y \in Failed
      BY <1>4 DEF FlagsGrow
    <2>2. Chain[y] \cap failedValid # {} /\ Chain[y] \subseteq Chain[x]
      BY <1>1, <2>1, ChainTrans DEF CauseOK, Sound
    <2> QED
      BY <2>2 DEF FlagsGrow
  <1> QED
    BY <1>2, <1>3, <1>4 DEF Failed

\* Only AcceptBlock and a restart link blocks.
LEMMA DataSteps ==
    ASSUME [Next]_vars
    PROVE  \/ UNCHANGED <<data, linked, unlinked>>
           \/ \E b \in Block \ {Genesis} : AcceptBlock(b)
           \/ Restart
  <1> DEFINE Same == UNCHANGED <<data, linked, unlinked>>
  <1>1. UNCHANGED vars \/ ActivateBestChain => Same
    BY DEF vars, ActivateBestChain, index
  <1>2. \A b \in Block \ {Genesis} : AcceptBlockHeader(b) => Same
    BY DEF AcceptBlockHeader
  <1>3. LockMain \/ DiscardFailedCandidate \/ NothingToActivate => Same
    BY DEF LockMain, DiscardFailedCandidate, NothingToActivate, index
  <1>4. DisconnectToFork \/ ConnectTip \/ ConnectInvalid \/ ConnectStall => Same
    BY DEF DisconnectToFork, ConnectTip, ConnectInvalid, ConnectStall, index
  <1>5. Invalidation => Same
    BY DEF Invalidation, InvalidateTip, InvalidateLoopEnds, MarkInvalid, index
  <1>6. \A b \in Invalidatable : InvalidateBlock(b) => Same
    BY DEF InvalidateBlock, index
  <1>7. \A b \in Reconsiderable : ResetBlockFailureFlags(b) => Same
    BY DEF ResetBlockFailureFlags, index
  <1>8. \A b \in Preciousable : PreciousBlock(b) => Same
    BY DEF PreciousBlock, index
  <1> HIDE DEF Same
  <1>9. Activation => Same
    BY <1>3, <1>4 DEF Activation
  <1>10. Same \/ (\E b \in Block \ {Genesis} : AcceptBlock(b)) \/ Restart
    BY <1>1, <1>2, <1>5, <1>6, <1>7, <1>8, <1>9 DEF Next
  <1> QED
    BY <1>10 DEF Same

\* No step but reconsiderblock makes a sound block with data stop waiting without being linked.
LEMMA WaitKept ==
    ASSUME IInv, CauseOK, WaitOK, FlagsGrow, [Next]_vars
    PROVE  WaitOK'
  <1>1. CASE UNCHANGED <<data, linked, unlinked>>
    BY <1>1 DEF WaitOK, Sound, FlagsGrow
  <1>2. ASSUME NEW b \in Block \ {Genesis}, AcceptBlock(b) PROVE WaitOK'
    <2>1. CASE b \in Malformed
      BY <1>1, <1>2, <2>1 DEF AcceptBlock
    <2>2. CASE b \notin Malformed /\ Parent[b] \in linked
      <3>1. /\ failedValid' = failedValid /\ data' = data \cup {b}
            /\ linked' = linked \cup NewlyLinked(b) /\ unlinked' = unlinked \ NewlyLinked(b)
        BY <1>2, <2>2 DEF AcceptBlock, ReceivedBlockTransactions
      <3>2. b \in NewlyLinked(b)
        BY DEF NewlyLinked
      <3> QED
        BY <3>1, <3>2 DEF WaitOK, Sound
    <2>3. CASE b \notin Malformed /\ Parent[b] \notin linked
      <3>1. /\ failedValid' = failedValid /\ data' = data \cup {b} /\ linked' = linked
            /\ unlinked' = IF IsValid(Parent[b]) THEN unlinked \cup {b} ELSE unlinked
        BY <1>2, <2>3 DEF AcceptBlock, ReceivedBlockTransactions
      <3>2. Sound(b) => IsValid(Parent[b])
        BY ChainStep DEF CauseOK, Sound, IsValid
      <3> QED
        BY <3>1, <3>2 DEF WaitOK, Sound
    <2> QED
      BY <2>1, <2>2, <2>3
  <1>3. CASE Restart
    BY <1>3 DEF Restart, WaitOK
  <1> QED
    BY <1>1, <1>2, <1>3, DataSteps

\* The node starts with no flags and nothing waiting.
LEMMA InitFlagsInv == Init => FlagsInv
  BY InitIInv DEF Init, FlagsInv, CauseOK, WaitOK, Failed

\* FlagsInv is an invariant of nodes whose operator does not use reconsiderblock.
THEOREM FlagsInvariance ==
    ASSUME Reconsiderable = {}
    PROVE  Spec => []FlagsInv
  <1>1. FlagsInv /\ [Next]_vars => FlagsInv'
    <2> SUFFICES ASSUME FlagsInv, [Next]_vars PROVE FlagsInv'
      OBVIOUS
    <2>1. IInv /\ IInv' /\ CauseOK /\ WaitOK
      BY NextKeeps DEF FlagsInv
    <2>2. FlagsGrow
      BY <2>1, NextGrows
    <2> QED
      BY <2>1, <2>2, CauseKept, WaitKept DEF FlagsInv
  <1> QED
    BY <1>1, InitFlagsInv, PTL DEF Spec

\* FailureHasCause: without reconsiderblock, a failure flag is only found on blocks with an
\* ancestor that was itself found invalid, as CheckBlockIndex asserts.
THEOREM FailuresAlwaysCaused ==
    ASSUME Reconsiderable = {}
    PROVE  Spec => []FailureHasCause
  <1>1. FlagsInv => FailureHasCause
    BY DEF FlagsInv, CauseOK, FailureHasCause
  <1> QED
    BY <1>1, FlagsInvariance, PTL

\* Without reconsiderblock, a block whose whole chain has arrived and was not found invalid
\* is linked, and until then each block with data on it waits in m_blocks_unlinked.
THEOREM SoundChainsLinked ==
    ASSUME Reconsiderable = {}
    PROVE  Spec => [](/\ {b \in known : Chain[b] \subseteq data /\ Sound(b)} \subseteq linked
                      /\ {b \in data \ linked : Sound(b)} \subseteq unlinked)
  <1> DEFINE Linked == /\ {b \in known : Chain[b] \subseteq data /\ Sound(b)} \subseteq linked
                       /\ {b \in data \ linked : Sound(b)} \subseteq unlinked
  <1>1. FlagsInv => Linked
    <2> SUFFICES ASSUME FlagsInv, NEW b \in known, Chain[b] \subseteq data, Sound(b), b \notin linked
                 PROVE  FALSE
      BY DEF FlagsInv, WaitOK
    <2>1. b \in Block
      BY DEF FlagsInv, IInv, TypeOK
    <2>2. (Block \ linked) \cap Chain[b] # {}
      BY <2>1, ChainType
    <2>3. PICK c \in (Block \ linked) \cap Chain[b] : c = Genesis \/ Parent[c] \notin Block \ linked
      BY <2>1, <2>2, LowestExists
    <2>4. c \in Block \ {Genesis} /\ Parent[c] \in linked
      BY <2>3, ChainStep DEF FlagsInv, IInv, IndexOK
    <2>5. Chain[c] \subseteq Chain[b]
      BY <2>1, <2>3, ChainTrans
    <2>6. c \in unlinked
      BY <2>3, <2>5 DEF FlagsInv, WaitOK, Sound
    <2> QED
      BY <2>4, <2>6 DEF FlagsInv, IInv, IndexOK
  <1> QED
    BY <1>1, FlagsInvariance, PTL

-------------------------------------------------------------------------------
(* Without invalidateblock and reconsiderblock the index is exact, also    *)
(* for blocks that descend from an invalid one.                            *)

\* Between a failed block and the invalid block that is the cause all blocks are failed.
ContiguousOK ==
    \A d \in Failed : \E v \in Chain[d] \cap failedValid : Chain[d] \ Chain[v] \subseteq Failed

\* A block that neither is linked nor waits came after its parent had failed.
LostOK == \A d \in (data \ linked) \ unlinked : Parent[d] \in Failed

\* A block with data was only found invalid when it could be connected.
FoundOK == failedValid \cap data \subseteq linked

ReadyOK == \A d \in data \ {Genesis} : Parent[d] \in linked => d \in linked

ExactInv ==
    /\ FlagsInv /\ ContiguousOK /\ LostOK /\ FoundOK /\ ReadyOK
    /\ pc \notin {"invalidate", "mark"}

\* Without the operator's calls only AcceptBlock and ConnectInvalid find a block invalid.
LEMMA ExactSteps ==
    ASSUME Invalidatable = {}, Reconsiderable = {}, pc \notin {"invalidate", "mark"}, [Next]_vars
    PROVE  /\ pc' \notin {"invalidate", "mark"}
           /\ \/ UNCHANGED failedValid
              \/ \E b \in Block \ {Genesis} : AcceptBlock(b)
              \/ ConnectInvalid
  <1> DEFINE Calm == pc' \notin {"invalidate", "mark"}
             Same == Calm /\ UNCHANGED failedValid
  <1>1. UNCHANGED vars \/ ActivateBestChain \/ Restart => Same
    BY DEF vars, ActivateBestChain, Restart, failures
  <1>2. \A b \in Block \ {Genesis} : AcceptBlockHeader(b) => Same
    BY DEF AcceptBlockHeader
  <1>3. \A b \in Block \ {Genesis} : AcceptBlock(b) => Calm
    BY DEF AcceptBlock
  <1>4. LockMain \/ DiscardFailedCandidate \/ NothingToActivate \/ DisconnectToFork \/ ConnectStall => Same
    BY DEF LockMain, DiscardFailedCandidate, NothingToActivate, DisconnectToFork, ConnectStall,
           Leave, failures
  <1>5. ConnectTip => Same
    BY DEF ConnectTip, LoopOrLeave, Leave, failures
  <1>6. ConnectInvalid => Calm
    BY DEF ConnectInvalid, LoopOrLeave, Leave
  <1>7. ~Invalidation
    BY DEF Invalidation, InvalidateTip, InvalidateLoopEnds, MarkInvalid
  <1>8. \A b \in Preciousable : PreciousBlock(b) => Same
    BY DEF PreciousBlock, failures
  <1>9. (\A b \in Invalidatable : FALSE) /\ (\A b \in Reconsiderable : FALSE)
    OBVIOUS
  <1> HIDE DEF Same, Calm
  <1>10. Same => Calm
    BY DEF Same
  <1>11. Activation => Same \/ (Calm /\ ConnectInvalid)
    BY <1>4, <1>5, <1>6 DEF Activation
  <1>12. Calm /\ (Same \/ (\E b \in Block \ {Genesis} : AcceptBlock(b)) \/ ConnectInvalid)
    BY <1>1, <1>2, <1>3, <1>7, <1>8, <1>9, <1>10, <1>11 DEF Next
  <1> QED
    BY <1>12 DEF Same, Calm

\* No block between a failed one and its cause stays without a flag.
LEMMA ContiguousKept ==
    ASSUME IInv, IInv', ContiguousOK, FlagsGrow
    PROVE  ContiguousOK'
  <1> SUFFICES ASSUME NEW d \in Failed'
               PROVE  \E v \in Chain[d] \cap failedValid' : Chain[d] \ Chain[v] \subseteq Failed'
    BY DEF ContiguousOK
  <1>1. d \in Block
    BY DEF IInv, TypeOK, Failed
  <1>2. failedValid \subseteq failedValid' /\ Failed \subseteq Failed'
    BY DEF FlagsGrow, Failed
  <1>3. CASE d \in failedValid'
    BY <1>1, <1>3, ChainType
  <1>4. CASE d \in Failed
    BY <1>2, <1>4 DEF ContiguousOK
  <1>5. CASE d \in failedChild' \ failedChild
    <2>1. PICK y \in Chain[d] \cap Failed : Chain[d] \ Chain[y] \subseteq Failed'
      BY <1>5 DEF FlagsGrow
    <2>2. PICK v \in Chain[y] \cap failedValid : Chain[y] \ Chain[v] \subseteq Failed
      BY <2>1 DEF ContiguousOK
    <2>3. v \in Chain[d] /\ Chain[d] \ Chain[v] \subseteq Failed'
      BY <1>1, <1>2, <2>1, <2>2, ChainTrans
    <2> QED
      BY <1>2, <2>2, <2>3
  <1> QED
    BY <1>3, <1>4, <1>5 DEF Failed

\* When the data of b arrives, every block that has only waited for it waits in
\* m_blocks_unlinked: one that came after its parent had failed is above a failed block
\* that waits itself, or above b as a failed block.
LEMMA NoneLost ==
    ASSUME ExactInv, NEW b \in Block \ {Genesis}, b \notin Failed, b \notin data,
           Parent[b] \in linked, NEW c \in data \ {Genesis}, Parent[c] \in NewlyLinked(b)
    PROVE  c \in unlinked \cup linked
  <1> SUFFICES ASSUME c \notin unlinked, c \notin linked PROVE FALSE
    OBVIOUS
  <1>1. IInv
    BY DEF ExactInv, FlagsInv
  <1> DEFINE d == Parent[c]
  <1>2. d \in Failed /\ d # b
    BY DEF ExactInv, LostOK
  <1>3. d \in unlinked /\ b \in Chain[d] /\ Chain[d] \ Chain[b] \subseteq unlinked
    BY <1>2 DEF NewlyLinked
  <1> HIDE DEF d
  <1>4. d \in Block
    BY <1>1, <1>3 DEF IInv, TypeOK
  <1>5. PICK v \in Chain[d] \cap failedValid : Chain[d] \ Chain[v] \subseteq Failed
    BY <1>2 DEF ExactInv, ContiguousOK
  <1>6. b \in Chain[v] /\ v \in Block
    BY <1>3, <1>4, <1>5, ChainTrans
  <1>7. v \notin Chain[b]
    BY <1>5, <1>6, ChainAntisymmetric DEF Failed
  <1>8. v \in unlinked
    BY <1>3, <1>5, <1>7
  <1> QED
    BY <1>1, <1>5, <1>8 DEF IInv, IndexOK, ExactInv, FoundOK

\* AcceptBlock links the block and all that waited for it.
LEMMA ExactAccept ==
    ASSUME ExactInv, NEW b \in Block \ {Genesis}, AcceptBlock(b), FlagsGrow
    PROVE  LostOK' /\ FoundOK' /\ ReadyOK'
  <1>1. b \notin Failed /\ b \notin data /\ IInv /\ failedValid \subseteq Failed
    BY DEF AcceptBlock, IsValid, ExactInv, FlagsInv, Failed
  <1>2. Failed \subseteq Failed'
    BY DEF FlagsGrow, Failed
  <1>3. CASE b \in Malformed
    <2>1. failedValid' = failedValid \cup {b} /\ UNCHANGED <<data, linked, unlinked>>
      BY <1>3 DEF AcceptBlock
    <2> QED
      BY <1>1, <1>2, <2>1 DEF ExactInv, LostOK, FoundOK, ReadyOK
  <1>4. CASE b \notin Malformed /\ Parent[b] \in linked
    <2>1. /\ failedValid' = failedValid /\ data' = data \cup {b}
          /\ linked' = linked \cup NewlyLinked(b) /\ unlinked' = unlinked \ NewlyLinked(b)
      BY <1>4 DEF AcceptBlock, ReceivedBlockTransactions
    <2>2. b \in NewlyLinked(b)
      BY DEF NewlyLinked
    <2>3. LostOK' /\ FoundOK'
      BY <1>1, <1>2, <2>1, <2>2 DEF ExactInv, LostOK, FoundOK
    <2>4. ASSUME NEW d \in data' \ {Genesis}, Parent[d] \in linked' PROVE d \in linked'
      <3>1. CASE d = b
        BY <2>1, <2>2, <3>1
      <3>2. CASE d # b /\ Parent[d] \in linked
        BY <2>1, <3>2 DEF ExactInv, ReadyOK
      <3>3. CASE d # b /\ Parent[d] \in NewlyLinked(b)
        <4>1. d \in unlinked \cup linked
          BY <1>1, <1>4, <2>1, <3>3, NoneLost
        <4>2. d \in unlinked \ NewlyLinked(b) => FALSE
          BY <1>1, <1>4, <3>3, NewlyLinkedOK
        <4> QED
          BY <4>1, <4>2, <2>1
      <3> QED
        BY <2>1, <2>4, <3>1, <3>2, <3>3
    <2> QED
      BY <2>3, <2>4 DEF ReadyOK
  <1>5. CASE b \notin Malformed /\ Parent[b] \notin linked
    <2>1. /\ failedValid' = failedValid /\ data' = data \cup {b} /\ linked' = linked
          /\ unlinked' = IF Parent[b] \notin Failed THEN unlinked \cup {b} ELSE unlinked
      BY <1>1, <1>5 DEF AcceptBlock, ReceivedBlockTransactions, IsValid
    <2> QED
      BY <1>1, <1>2, <1>5, <2>1, SMTT(40) DEF ExactInv, LostOK, FoundOK, ReadyOK
  <1> QED
    BY <1>3, <1>4, <1>5

\* LoadBlockIndex finds what is linked and what waits anew.
LEMMA ExactRestart ==
    ASSUME ExactInv, Restart
    PROVE  LostOK' /\ FoundOK' /\ ReadyOK'
  <1>1. /\ linked' = {b \in data : Chain[b] \subseteq data}
        /\ unlinked' = data \ linked' /\ UNCHANGED <<data, failedValid>>
    BY DEF Restart
  <1>2. IInv /\ linked \subseteq data
    BY DEF ExactInv, FlagsInv, IInv, IndexOK
  <1>3. LostOK' /\ FoundOK'
    BY <1>1, <1>2, LinkedChain DEF ExactInv, LostOK, FoundOK
  <1>4. ASSUME NEW d \in data \ {Genesis}, Parent[d] \in linked' PROVE d \in linked'
    <2>1. d \in Block \ {Genesis}
      BY <1>2 DEF IInv, TypeOK
    <2> QED
      BY <1>1, <1>4, <2>1, ChainStep
  <1> QED
    BY <1>1, <1>3, <1>4 DEF ReadyOK

\* ExactInv is an invariant of nodes whose operator uses neither invalidateblock nor
\* reconsiderblock.
THEOREM ExactInvariance ==
    ASSUME Invalidatable = {}, Reconsiderable = {}
    PROVE  Spec => []ExactInv
  <1>1. Init => ExactInv
    BY InitFlagsInv DEF Init, ExactInv, ContiguousOK, LostOK, FoundOK, ReadyOK, Failed
  <1>2. ExactInv /\ [Next]_vars => ExactInv'
    <2> SUFFICES ASSUME ExactInv, [Next]_vars PROVE ExactInv'
      OBVIOUS
    <2>1. FlagsInv /\ IInv /\ IInv' /\ CauseOK /\ WaitOK
      BY NextKeeps DEF ExactInv, FlagsInv
    <2>2. FlagsGrow
      BY <2>1, NextGrows
    <2>3. FlagsInv'
      BY <2>1, <2>2, CauseKept, WaitKept DEF FlagsInv
    <2>4. ContiguousOK'
      BY <2>1, <2>2, ContiguousKept DEF ExactInv
    <2>5. pc' \notin {"invalidate", "mark"}
      BY ExactSteps DEF ExactInv
    <2>6. LostOK' /\ FoundOK' /\ ReadyOK'
      <3>1. CASE UNCHANGED <<data, linked, unlinked>>
        <4>1. Failed \subseteq Failed'
          BY <2>2 DEF FlagsGrow, Failed
        <4>2. LostOK' /\ ReadyOK'
          BY <3>1, <4>1 DEF ExactInv, LostOK, ReadyOK
        <4>3. CASE UNCHANGED failedValid
          BY <3>1, <4>2, <4>3 DEF ExactInv, FoundOK
        <4>4. CASE ConnectInvalid
          <5>1. NextToConnect \in linked /\ failedValid' = failedValid \cup {NextToConnect}
            BY <4>4, <2>1, NextOK, LinkedChain DEF ConnectInvalid
          <5> QED
            BY <3>1, <4>2, <5>1 DEF ExactInv, FoundOK
        <4> QED
          BY <2>2, <4>3, <4>4, ExactSteps, ExactAccept DEF ExactInv
      <3> QED
        BY <2>2, <3>1, DataSteps, ExactAccept, ExactRestart
    <2> QED
      BY <2>3, <2>4, <2>5, <2>6 DEF ExactInv
  <1> QED
    BY <1>1, <1>2, PTL DEF Spec

\* UnlinkedExact: while no operator overrides a verdict, nChainTx tells exactly which blocks
\* have all data below them, whatever the order of arrival and whichever blocks are invalid,
\* and m_blocks_unlinked holds the others, as CheckBlockIndex asserts.
THEOREM UnlinkedAlwaysExact ==
    ASSUME Invalidatable = {}, Reconsiderable = {}
    PROVE  Spec => []UnlinkedExact
  <1>1. ExactInv => UnlinkedExact
    <2> SUFFICES ASSUME ExactInv PROVE UnlinkedExact
      OBVIOUS
    <2>1. IInv /\ IndexOK /\ TypeOK
      BY DEF ExactInv, FlagsInv, IInv
    <2>2. ASSUME NEW b \in known, Chain[b] \subseteq data, b \notin linked PROVE FALSE
      <3>1. b \in Block /\ (Block \ linked) \cap Chain[b] # {}
        BY <2>1, <2>2, ChainType DEF TypeOK
      <3>2. PICK c \in (Block \ linked) \cap Chain[b] : c = Genesis \/ Parent[c] \notin Block \ linked
        BY <3>1, LowestExists
      <3>3. c \in data \ {Genesis} /\ Parent[c] \in linked
        BY <2>1, <2>2, <3>2, ChainStep DEF IndexOK
      <3> QED
        BY <3>2, <3>3 DEF ExactInv, ReadyOK
    <2>3. linked = {b \in known : Chain[b] \subseteq data}
      BY <2>1, <2>2, LinkedChain DEF IndexOK
    <2>4. unlinked \subseteq data \ linked /\ \A b \in known \ linked : seq[b] <= 0
      BY <2>1 DEF IndexOK, TypeOK
    <2>5. {b \in data \ linked : Sound(b)} \subseteq unlinked
      BY DEF ExactInv, FlagsInv, WaitOK
    <2> QED
      BY <2>3, <2>4, <2>5 DEF UnlinkedExact
  <1> QED
    BY <1>1, ExactInvariance, PTL

-------------------------------------------------------------------------------
(* The selection of the chain, without stalls and reconsiderblock, and     *)
(* with at most one call of preciousblock for each amount of work.         *)

Good(b) == Chain[b] \cap (Failed \cup Unconnectable) = {}

\* While cs_main is held: the tip where this stretch began is sound, nothing worse than it
\* is a candidate or the target, what is not worse is still a candidate.
StartOK ==
    pc \in {"find", "connect"} =>
        /\ startTip \in linked
        /\ Chain[startTip] \cap (failedValid \cup Unconnectable) = {}
        /\ \A c \in candidates : ~Worse(c, startTip)
        /\ mostWork # NoBlock => ~Worse(mostWork, startTip)
        /\ \A b \in linked : ~Worse(b, startTip) /\ ~Worse(b, tip) /\ Sound(b) => b \in candidates
        /\ pc = "find" => ~Worse(startTip, tip)

\* No good chain beats the target, unless it came after the target was chosen.
BestOK ==
    mostWork # NoBlock =>
        /\ tip # mostWork
        /\ ~due => \A b \in linked : Good(b) => ~Worse(mostWork, b)

SeqOK == \A b \in Block : seq[b] >= -1

SelectOK == CandidatesComplete /\ StartOK /\ BestOK /\ TipIsMostWork /\ SeqOK

SelectInv == FlagsInv /\ SelectOK

\* Not being worse is transitive, since the order is total.
LEMMA NotWorseTrans ==
    ASSUME NEW sq \in [Block -> Int], NEW a \in Block, NEW b \in Block, NEW c \in Block,
           ~WorseBy(sq, a, b), ~WorseBy(sq, b, c)
    PROVE  ~WorseBy(sq, a, c)
  BY WorseOrder

\* The genesis block is the tip and the only candidate.
LEMMA InitSelectOK == Init => SelectOK
  <1> SUFFICES ASSUME Init PROVE SelectOK
    OBVIOUS
  <1>1. CandidatesComplete /\ StartOK /\ BestOK
    BY DEF Init, CandidatesComplete, StartOK, BestOK
  <1>2. TipIsMostWork
    <2>1. linked = {Genesis} /\ tip = Genesis
      BY DEF Init
    <2>2. ~Worse(Genesis, Genesis)
      BY InitIInv, WorseOrder, TreeAssumption DEF Worse, IInv, TypeOK
    <2> QED
      BY <2>1, <2>2 DEF TipIsMostWork
  <1>3. SeqOK
    BY SMTT(40) DEF Init, SeqOK
  <1> QED
    BY <1>1, <1>2, <1>3 DEF SelectOK

\* What is good stays at most as it was while blocks only fail.
LEMMA GoodShrinks ==
    ASSUME FlagsGrow, NEW b, Good(b)'
    PROVE  Good(b)
  BY DEF FlagsGrow, Good, Failed

\* Steps that touch neither the candidates nor the tip nor pc, while cs_main is free.
LEMMA SelectFrame ==
    ASSUME SelectOK, FlagsGrow, MainFree,
           UNCHANGED <<linked, seq, candidates, tip, pc, mostWork, due>>
    PROVE  SelectOK'
  <1>1. CandidatesComplete'
    BY DEF SelectOK, CandidatesComplete, Sound, Worse, FlagsGrow
  <1>2. StartOK'
    BY DEF MainFree, StartOK
  <1>3. BestOK'
    BY GoodShrinks DEF SelectOK, BestOK, Worse
  <1>4. TipIsMostWork'
    BY DEF SelectOK, TipIsMostWork, Worse, FlagsGrow, Failed
  <1>5. SeqOK'
    BY DEF SelectOK, SeqOK
  <1> QED
    BY <1>1, <1>2, <1>3, <1>4, <1>5 DEF SelectOK

\* AcceptBlock makes what it links a candidate unless it is worse than the tip, and owes a call.
LEMMA AcceptSelects ==
    ASSUME SelectInv, FlagsGrow, NEW b \in Block \ {Genesis}, AcceptBlock(b)
    PROVE  SelectOK'
  <1>1. IInv /\ SelectOK /\ MainFree
    BY DEF SelectInv, FlagsInv, AcceptBlock
  <1>2. CASE b \in Malformed
    <2>1. UNCHANGED <<linked, seq, candidates, tip, pc, mostWork, due>>
      BY <1>2 DEF AcceptBlock, ids, activation
    <2> QED
      BY <1>1, <2>1, SelectFrame
  <1>3. CASE b \notin Malformed
    <2>1. /\ ReceivedBlockTransactions(b) /\ b \in known /\ b \notin data /\ due' = TRUE
          /\ UNCHANGED <<known, failedValid, tip, pc, mostWork, byWork>>
      BY <1>3 DEF AcceptBlock, activation, invalidation
    <2>2. /\ linked' \in SUBSET Block /\ seq' \in [Block -> Int]
          /\ \A c \in linked : seq'[c] = seq[c]
          /\ \A c \in linked' \ linked : c \in candidates' <=> ~WorseBy(seq', c, tip)
          /\ candidates' \cap linked = candidates
          /\ \A c \in Block : seq'[c] = seq[c] \/ seq'[c] >= 0
      BY <1>1, <1>3, <2>1, ReceivedOK
    <2>3. CandidatesComplete'
      <3> SUFFICES ASSUME pc \in {"idle", "activate"}, NEW c \in linked', ~WorseBy(seq', c, tip),
                          Chain[c] \cap failedValid = {}
                   PROVE  c \in candidates'
        BY <2>1 DEF CandidatesComplete, Worse, Sound
      <3>1. CASE c \in linked
        <4>1. ~WorseBy(seq, c, tip)
          BY <2>2, <3>1, <1>1 DEF WorseBy, IInv, IndexOK
        <4> QED
          BY <1>1, <2>2, <3>1, <4>1 DEF SelectOK, CandidatesComplete, Worse, Sound
      <3> QED
        BY <2>2, <3>1
    <2>4. StartOK'
      BY <1>1, <2>1 DEF MainFree, StartOK
    <2>5. BestOK' /\ TipIsMostWork'
      BY <1>1, <2>1 DEF SelectOK, BestOK, TipIsMostWork
    <2>6. SeqOK'
      BY <1>1, <2>2, SMTT(40) DEF SelectOK, SeqOK, IInv, TypeOK
    <2> QED
      BY <2>3, <2>4, <2>5, <2>6 DEF SelectOK
  <1> QED
    BY <1>2, <1>3

\* A call of ActivateBestChain begins without a target.
LEMMA ActivateSelects ==
    ASSUME SelectInv, ActivateBestChain
    PROVE  SelectOK'
  <1>1. /\ pc = "idle" /\ pc' = "activate" /\ mostWork' = NoBlock
        /\ UNCHANGED <<linked, failedValid, seq, candidates, tip>>
    BY DEF ActivateBestChain, index, failures, ids
  <1> QED
    BY <1>1 DEF SelectInv, SelectOK, CandidatesComplete, StartOK, BestOK, TipIsMostWork, SeqOK,
                Sound, Worse

\* The stretch under cs_main begins: what holds of the tip holds of startTip.
LEMMA LockSelects ==
    ASSUME SelectInv, LockMain
    PROVE  SelectOK'
  <1>1. /\ pc = "activate" /\ pc' = "find" /\ startTip' = tip
        /\ UNCHANGED <<linked, failedValid, failedChild, seq, candidates, tip, mostWork, due>>
    BY DEF LockMain, index, failures, ids
  <1>2. IInv /\ SelectOK /\ tip \in Block /\ tip \in linked /\ seq \in [Block -> Int]
    BY DEF SelectInv, FlagsInv, IInv, TypeOK, IndexOK
  <1>3. Chain[tip] \cap (failedValid \cup Unconnectable) = {}
    BY <1>2 DEF IInv, FlagsOK, TipNotFailed, Failed
  <1>4. mostWork # NoBlock => ~WorseBy(seq, mostWork, tip)
    <2> SUFFICES ASSUME mostWork # NoBlock PROVE ~WorseBy(seq, mostWork, tip)
      OBVIOUS
    <2>1. mostWork \in Block /\ tip \in Chain[mostWork] /\ tip # mostWork
      BY <1>2 DEF IInv, TypeOK, TargetOK, SelectOK, BestOK
    <2>2. WorseBy(seq, tip, mostWork)
      BY <1>2, <2>1, BelowWorse
    <2> QED
      BY <1>2, <2>1, <2>2, WorseOrder
  <1>5. StartOK'
    <2>1. ~WorseBy(seq, tip, tip)
      BY <1>2, WorseOrder
    <2>2. \A b \in linked : ~Worse(b, tip) /\ Sound(b) => b \in candidates
      BY <1>1, <1>2 DEF SelectOK, CandidatesComplete
    <2>3. \A c \in candidates : ~Worse(c, tip)
      BY <1>2 DEF IInv, OrderOK
    <2> QED
      BY <1>1, <1>2, <1>3, <1>4, <2>1, <2>2, <2>3 DEF StartOK, Worse, Sound
  <1>6. CandidatesComplete' /\ TipIsMostWork'
    BY <1>1 DEF CandidatesComplete, TipIsMostWork
  <1>7. BestOK' /\ SeqOK'
    BY <1>1, <1>2 DEF SelectOK, BestOK, SeqOK, Good, Failed, Worse
  <1> QED
    BY <1>5, <1>6, <1>7 DEF SelectOK

\* What DiscardFailedCandidate takes from the candidates descends from an invalid block.
LEMMA DiscardSelects ==
    ASSUME SelectInv, FlagsGrow, DiscardFailedCandidate
    PROVE  SelectOK'
  <1> DEFINE new == Best(candidates)
             bad == CHOOSE c \in BadOnPath(new) :
                        \A d \in BadOnPath(new) : nChainWork[d] <= nChainWork[c]
  <1>1. /\ candidates' = candidates \ ((Chain[new] \ Chain[bad]) \cup {bad})
        /\ UNCHANGED <<linked, failedValid, seq, tip, pc, mostWork, startTip, due>>
        /\ BadOnPath(new) # {} /\ candidates # {} /\ pc = "find" /\ mostWork = NoBlock
    BY DEF DiscardFailedCandidate, index, ids, activation
  <1>2. IInv /\ SelectOK /\ CauseOK
    BY DEF SelectInv, FlagsInv
  <1>3. new \in Block
    BY <1>1, <1>2, BestExists DEF IInv, TypeOK
  <1>4. bad \in Chain[new] /\ bad \in Failed
    BY <1>1, <1>2, <1>3, WorstOnPath
  <1> HIDE DEF new, bad
  <1>5. \A x \in (Chain[new] \ Chain[bad]) \cup {bad} : ~Sound(x)
    <2> TAKE x \in (Chain[new] \ Chain[bad]) \cup {bad}
    <2>1. ~Sound(bad)
      BY <1>2, <1>4 DEF CauseOK
    <2>2. CASE x \in Chain[new] \ Chain[bad]
      <3>1. Chain[bad] \subseteq Chain[x]
        BY <1>3, <1>4, <2>2, AboveFork, ChainTrans
      <3> QED
        BY <2>1, <3>1 DEF Sound
    <2> QED
      BY <2>1, <2>2
  <1>6. StartOK'
    <2>1. \A b \in linked : ~Worse(b, startTip) /\ ~Worse(b, tip) /\ Sound(b) => b \in candidates'
      BY <1>1, <1>2, <1>5 DEF SelectOK, StartOK
    <2> QED
      BY <1>1, <1>2, <2>1 DEF SelectOK, StartOK, Worse, Sound
  <1>7. CandidatesComplete' /\ TipIsMostWork' /\ BestOK' /\ SeqOK'
    BY <1>1, <1>2 DEF CandidatesComplete, TipIsMostWork, BestOK, SelectOK, SeqOK
  <1> QED
    BY <1>6, <1>7 DEF SelectOK

\* While cs_main is held, the tip where the stretch began is a candidate until it is beaten.
LEMMA StartIsCandidate ==
    ASSUME SelectInv, pc = "find"
    PROVE  startTip \in candidates
  <1>1. startTip \in linked /\ startTip \in Block /\ seq \in [Block -> Int]
    BY DEF SelectInv, SelectOK, StartOK, FlagsInv, IInv, TypeOK
  <1>2. ~Worse(startTip, startTip)
    BY <1>1, WorseOrder DEF Worse
  <1>3. ~Worse(startTip, tip) /\ Sound(startTip)
    BY DEF SelectInv, SelectOK, StartOK, Sound
  <1> QED
    BY <1>1, <1>2, <1>3 DEF SelectInv, SelectOK, StartOK

\* So when there is nothing to activate, the tip is the best candidate.
LEMMA NothingMeansBest ==
    ASSUME SelectInv, NothingToActivate
    PROVE  /\ pc = "find" /\ pc' = "idle" /\ mostWork' = NoBlock
           /\ tip = Best(candidates) /\ tip \in candidates
           /\ \A c \in candidates \ {tip} : Worse(c, tip)
           /\ ~Worse(tip, startTip)
           /\ UNCHANGED <<linked, failedValid, failedChild, seq, candidates, tip, due>>
  <1>1. /\ pc = "find" /\ FindMostWorkChain \in {NoBlock, tip}
        /\ Leave(tip, FindMostWorkChain, connected)
        /\ UNCHANGED <<linked, failedValid, failedChild, seq, candidates, tip, due>>
    BY DEF NothingToActivate, index, failures, ids
  <1>2. IInv /\ SelectOK /\ seq \in [Block -> Int] /\ candidates \in SUBSET Block
    BY DEF SelectInv, FlagsInv, IInv, TypeOK
  <1>3. mostWork = NoBlock
    BY <1>1, <1>2 DEF FindMostWorkChain, SelectOK, BestOK
  <1>4. candidates # {}
    BY <1>1, StartIsCandidate
  <1>5. FindMostWorkChain = Best(candidates)
    BY <1>3, <1>4 DEF FindMostWorkChain
  <1>6. Best(candidates) \in candidates /\ \A c \in candidates \ {Best(candidates)} : Worse(c, Best(candidates))
    BY <1>2, <1>4, BestExists
  <1>7. tip = Best(candidates)
    BY <1>1, <1>2, <1>5, <1>6, TreeAssumption
  <1>8. pc' = "idle" /\ mostWork' = NoBlock
    BY <1>1, <1>5, <1>7 DEF Leave
  <1>9. ~Worse(tip, startTip)
    BY <1>1, <1>2, <1>6, <1>7 DEF SelectOK, StartOK
  <1> QED
    BY <1>1, <1>6, <1>7, <1>8, <1>9

\* So ActivateBestChain ends with the candidates complete and the tip the best.
LEMMA NothingSelects ==
    ASSUME SelectInv, NothingToActivate
    PROVE  SelectOK'
  <1>1. /\ pc = "find" /\ pc' = "idle" /\ mostWork' = NoBlock /\ ~Worse(tip, startTip)
        /\ \A c \in candidates \ {tip} : Worse(c, tip)
        /\ UNCHANGED <<linked, failedValid, failedChild, seq, candidates, tip, due>>
    BY NothingMeansBest
  <1>2. /\ SelectOK /\ seq \in [Block -> Int] /\ linked \in SUBSET Block
        /\ tip \in Block /\ startTip \in Block
    BY <1>1 DEF SelectInv, FlagsInv, IInv, TypeOK
  <1>3. \A b \in linked : ~Worse(b, tip) /\ Sound(b) => b \in candidates
    <2> SUFFICES ASSUME NEW b \in linked, ~Worse(b, tip), Sound(b) PROVE b \in candidates
      OBVIOUS
    <2>1. ~Worse(b, startTip)
      BY <1>1, <1>2, NotWorseTrans DEF Worse
    <2> QED
      BY <1>1, <1>2, <2>1 DEF SelectOK, StartOK
  <1>4. CandidatesComplete'
    BY <1>1, <1>3 DEF CandidatesComplete, Worse, Sound
  <1>5. TipIsMostWork'
    <2> SUFFICES ASSUME NEW b \in linked, Chain[b] \cap (Failed \cup Unconnectable) = {}
                 PROVE  ~Worse(tip, b)
      BY <1>1 DEF TipIsMostWork, Worse, Failed
    <2>1. Sound(b)
      BY DEF Sound, Failed
    <2> QED
      BY <1>1, <1>2, <1>3, <2>1, WorseOrder DEF Worse
  <1>6. StartOK' /\ BestOK' /\ SeqOK'
    BY <1>1, <1>2 DEF StartOK, BestOK, SelectOK, SeqOK
  <1> QED
    BY <1>4, <1>5, <1>6 DEF SelectOK

\* The target of a reorganisation is not worse than where the stretch began, and no good
\* chain beats it.
LEMMA DisconnectSelects ==
    ASSUME SelectInv, DisconnectToFork
    PROVE  SelectOK'
  <1> DEFINE m == FindMostWorkChain
  <1>1. /\ m \notin {NoBlock, tip} /\ Settled /\ mostWork' = m /\ pc = "find" /\ pc' = "connect"
        /\ tip' = CHOOSE x \in Chain[tip] \cap Chain[m] : Chain[tip] \cap Chain[m] \subseteq Chain[x]
        /\ UNCHANGED <<linked, failedValid, failedChild, seq, candidates, startTip, due>>
    BY DEF DisconnectToFork, index, failures, ids
  <1>2. /\ IInv /\ SelectOK /\ seq \in [Block -> Int] /\ candidates \in SUBSET Block
        /\ linked \in SUBSET Block /\ tip \in Block /\ startTip \in Block
    BY <1>1 DEF SelectInv, FlagsInv, IInv, TypeOK
  <1>3. m \in linked /\ m \in Block /\ m \notin Chain[tip]
    BY <1>1, <1>2, TargetChosen
  <1>4. tip' # m
    BY <1>1, <1>2, <1>3, ForkOK
  <1>5. mostWork = NoBlock => m = Best(candidates) /\ candidates # {}
    BY <1>1 DEF FindMostWorkChain
  <1>6. mostWork # NoBlock => m = mostWork
    BY DEF FindMostWorkChain
  <1> HIDE DEF m
  <1>7. mostWork = NoBlock => m \in candidates /\ \A c \in candidates : ~Worse(m, c)
    <2> SUFFICES ASSUME mostWork = NoBlock
                 PROVE  m \in candidates /\ \A c \in candidates : ~Worse(m, c)
      OBVIOUS
    <2>1. m \in candidates /\ \A c \in candidates \ {m} : Worse(c, m)
      BY <1>2, <1>5, BestExists
    <2> QED
      BY <1>2, <2>1, WorseOrder DEF Worse
  <1>8. ~Worse(m, startTip)
    BY <1>1, <1>2, <1>6, <1>7 DEF SelectOK, StartOK
  <1>9. \A b \in linked : ~Worse(b, startTip) /\ Sound(b) => b \in candidates
    <2> SUFFICES ASSUME NEW b \in linked, ~Worse(b, startTip), Sound(b) PROVE b \in candidates
      OBVIOUS
    <2>1. ~Worse(b, tip)
      BY <1>1, <1>2, NotWorseTrans DEF SelectOK, StartOK, Worse
    <2> QED
      BY <1>1, <1>2, <2>1 DEF SelectOK, StartOK
  <1>10. StartOK'
    <2>1. /\ startTip \in linked
          /\ Chain[startTip] \cap (failedValid \cup Unconnectable) = {}
          /\ \A c \in candidates : ~Worse(c, startTip)
      BY <1>1, <1>2 DEF SelectOK, StartOK
    <2> QED
      BY <1>1, <1>8, <1>9, <2>1 DEF StartOK, Worse, Sound
  <1>11. ~due => \A b \in linked : Good(b) => ~Worse(m, b)
    <2> SUFFICES ASSUME ~due, NEW b \in linked, Good(b) PROVE ~Worse(m, b)
      OBVIOUS
    <2>1. CASE mostWork # NoBlock
      BY <1>2, <1>6, <2>1 DEF SelectOK, BestOK
    <2>2. CASE mostWork = NoBlock /\ b \in candidates
      BY <1>7, <2>2
    <2>3. CASE mostWork = NoBlock /\ b \notin candidates
      <3>1. Worse(b, startTip)
        BY <1>9, <2>3 DEF Good, Sound, Failed
      <3> QED
        BY <1>2, <1>3, <1>8, <3>1, WorseOrder DEF Worse
    <2> QED
      BY <2>1, <2>2, <2>3
  <1>12. BestOK'
    BY <1>1, <1>4, <1>11 DEF BestOK, Good, Failed, Worse
  <1>13. CandidatesComplete' /\ TipIsMostWork' /\ SeqOK'
    BY <1>1, <1>2 DEF CandidatesComplete, TipIsMostWork, SelectOK, SeqOK
  <1> QED
    BY <1>10, <1>12, <1>13 DEF SelectOK

\* Each connected block prunes what is worse than itself, and nothing else is lost.
LEMMA ConnectSelects ==
    ASSUME SelectInv, ConnectTip
    PROVE  SelectOK'
  <1> DEFINE b == NextToConnect
  <1>1. /\ pc = "connect" /\ tip' = b
        /\ candidates' = {c \in candidates : ~WorseBy(seq, c, b)}
        /\ UNCHANGED <<linked, failedValid, failedChild, seq, due>>
    BY DEF ConnectTip, failures, ids, PruneBlockIndexCandidates
  <1>2. /\ IInv /\ SelectOK /\ seq \in [Block -> Int] /\ candidates \in SUBSET Block
        /\ linked \in SUBSET Block /\ tip \in Block /\ startTip \in Block /\ mostWork \in Block
    BY <1>1, NextOK DEF SelectInv, FlagsInv, IInv, TypeOK
  <1>3. b \in Block /\ tip \in Chain[b] /\ tip # b /\ mostWork # NoBlock
    BY <1>1, <1>2, NextOK, ChainType DEF IInv, TargetOK
  <1>4. \/ pc' = "connect" /\ mostWork' = mostWork /\ startTip' = startTip /\ b # mostWork
        \/ pc' = "find" /\ mostWork' = mostWork /\ startTip' = startTip /\ Worse(b, startTip)
        \/ pc' = "activate" /\ mostWork' = mostWork /\ b # mostWork /\ ~Worse(b, startTip)
        \/ pc' = "idle" /\ mostWork' = NoBlock /\ b = mostWork /\ ~Worse(b, startTip)
    BY <1>1 DEF ConnectTip, activation, LoopOrLeave, Leave
  <1> HIDE DEF b
  <1>5. WorseBy(seq, tip, b)
    BY <1>2, <1>3, BelowWorse
  <1>6. /\ startTip \in linked
        /\ Chain[startTip] \cap (failedValid \cup Unconnectable) = {}
        /\ \A c \in candidates' : ~Worse(c, startTip)
        /\ ~Worse(mostWork, startTip)
    BY <1>1, <1>2, <1>3 DEF SelectOK, StartOK
  <1>7. \A x \in linked : ~Worse(x, startTip) /\ ~Worse(x, b) /\ Sound(x) => x \in candidates'
    <2> SUFFICES ASSUME NEW x \in linked, ~Worse(x, startTip), ~Worse(x, b), Sound(x)
                 PROVE  x \in candidates'
      OBVIOUS
    <2>1. ~Worse(x, tip)
      BY <1>2, <1>3, <1>5, WorseOrder DEF Worse
    <2> QED
      BY <1>1, <1>2, <2>1 DEF SelectOK, StartOK, Worse
  <1>8. StartOK'
    <2>1. pc' = "find" => ~Worse(startTip, b)
      BY <1>2, <1>3, <1>4, WorseOrder DEF Worse
    <2> QED
      BY <1>1, <1>4, <1>6, <1>7, <2>1 DEF StartOK, Worse, Sound
  <1>9. CandidatesComplete'
    <2> SUFFICES ASSUME pc' \in {"idle", "activate"}, NEW x \in linked, ~Worse(x, b), Sound(x)
                 PROVE  x \in candidates'
      BY <1>1 DEF CandidatesComplete, Worse, Sound
    <2>1. ~Worse(x, startTip)
      BY <1>2, <1>3, <1>4, NotWorseTrans DEF Worse
    <2> QED
      BY <1>7, <2>1
  <1>10. ~due => \A x \in linked : Good(x) => ~Worse(mostWork, x)
    BY <1>2, <1>3 DEF SelectOK, BestOK
  <1>11. BestOK'
    <2>1. mostWork' # NoBlock => b # mostWork /\ mostWork' = mostWork
      BY <1>4, <1>6
    <2> QED
      BY <1>1, <1>10, <2>1 DEF BestOK, Good, Failed, Worse
  <1>12. TipIsMostWork'
    BY <1>1, <1>4, <1>10 DEF TipIsMostWork, Good, Failed, Worse
  <1>13. SeqOK'
    BY <1>1, <1>2 DEF SelectOK, SeqOK
  <1> QED
    BY <1>8, <1>9, <1>11, <1>12, <1>13 DEF SelectOK

\* A rejected block was not on the chain the stretch began with, so that the loop goes on.
LEMMA RejectSelects ==
    ASSUME SelectInv, ConnectInvalid
    PROVE  SelectOK'
  <1> DEFINE b == NextToConnect
  <1>1. /\ pc = "connect" /\ b \in Unconnectable /\ failedValid' = failedValid \cup {b}
        /\ candidates' = candidates \ {b}
        /\ UNCHANGED <<linked, seq, tip, due>>
    BY DEF ConnectInvalid, index, ids
  <1>2. /\ SelectOK /\ seq \in [Block -> Int] /\ linked \in SUBSET Block
        /\ tip \in Block /\ startTip \in Block /\ b \in Block
    BY <1>1, NextOK DEF SelectInv, FlagsInv, IInv, TypeOK
  <1>3. /\ mostWork' = NoBlock
        /\ \/ pc' = "find" /\ startTip' = startTip /\ Worse(tip, startTip)
           \/ pc' = "activate" /\ ~Worse(tip, startTip)
    BY <1>2, TreeAssumption DEF ConnectInvalid, LoopOrLeave, Leave
  <1> HIDE DEF b
  <1>4. \A x \in linked : ~Worse(x, startTip) /\ ~Worse(x, tip) /\ Sound(x)' => x \in candidates'
    <2> SUFFICES ASSUME NEW x \in linked, ~Worse(x, startTip), ~Worse(x, tip), Sound(x)'
                 PROVE  x \in candidates'
      OBVIOUS
    <2>1. x # b /\ Sound(x)
      BY <1>1, <1>2, ChainType DEF Sound
    <2> QED
      BY <1>1, <1>2, <2>1 DEF SelectOK, StartOK
  <1>5. StartOK'
    <2>1. /\ startTip \in linked
          /\ Chain[startTip] \cap (failedValid' \cup Unconnectable) = {}
          /\ \A c \in candidates' : ~Worse(c, startTip)
      BY <1>1, <1>2 DEF SelectOK, StartOK
    <2>2. pc' = "find" => ~Worse(startTip, tip)
      BY <1>2, <1>3, WorseOrder DEF Worse
    <2> QED
      BY <1>1, <1>3, <1>4, <2>1, <2>2 DEF StartOK, Worse
  <1>6. CandidatesComplete'
    <2> SUFFICES ASSUME pc' = "activate", NEW x \in linked, ~Worse(x, tip), Sound(x)'
                 PROVE  x \in candidates'
      BY <1>1, <1>3 DEF CandidatesComplete, Worse
    <2>1. ~Worse(x, startTip)
      BY <1>2, <1>3, NotWorseTrans DEF Worse
    <2> QED
      BY <1>4, <2>1
  <1>7. BestOK' /\ TipIsMostWork' /\ SeqOK'
    BY <1>1, <1>2, <1>3 DEF BestOK, TipIsMostWork, SelectOK, SeqOK
  <1> QED
    BY <1>5, <1>6, <1>7 DEF SelectOK

-------------------------------------------------------------------------------
(* The commands and the restart.                                           *)

\* What one command between two advances of the tip does to the sequence ids.
LEMMA PreciousOnce ==
    ASSUME MaxPrecious <= 1, IInv, NEW b \in Preciousable, PreciousBlock(b)
    PROVE  b \in Block /\ seq' = [seq EXCEPT ![b] = -1]
  <1>1. b \in Block
    BY InputAssumption
  <1>2. PICK rev \in Int : -MaxPrecious <= rev /\ rev <= -1 /\ seq' = [seq EXCEPT ![b] = rev]
    BY PreciousIds
  <1>3. rev = -1
    BY <1>2, InputAssumption, SMTT(40)
  <1> QED
    BY <1>1, <1>2, <1>3

\* A block is worse than another only the more so when that one's sequence id is lowered.
LEMMA LowerId ==
    ASSUME NEW s \in [Block -> Int], NEW r \in [Block -> Int], NEW x \in Block, NEW t \in Block,
           r[x] = s[x], r[t] <= s[t], ~WorseBy(r, x, t)
    PROVE  ~WorseBy(s, x, t)
  <1>1. /\ nChainWork[x] \in Int /\ nChainWork[t] \in Int
        /\ Address[x] \in Int /\ Address[t] \in Int
    BY ChainFinite, AddressAssumption, SMTT(40)
  <1> QED
    BY <1>1, SMTT(40) DEF WorseBy

\* The block preferred by the operator sorts first, and the others keep their order.
LEMMA PreciousSelects ==
    ASSUME MaxPrecious <= 1, SelectInv, NEW b \in Preciousable, PreciousBlock(b)
    PROVE  SelectOK'
  <1>1. IInv /\ SelectOK /\ CauseOK /\ MainFree
    BY DEF SelectInv, FlagsInv, PreciousBlock
  <1>2. b \in Block /\ seq' = [seq EXCEPT ![b] = -1]
    BY <1>1, PreciousOnce
  <1>3. /\ candidates' = IF IsValid(b) /\ b \in linked
                         THEN {c \in candidates \cup {b} : ~WorseBy(seq', c, tip)}
                         ELSE candidates \ {b}
        /\ due' = TRUE
        /\ UNCHANGED <<linked, failedValid, tip, pc, mostWork>>
    BY DEF PreciousBlock, index, failures, activation, PruneBlockIndexCandidates
  <1>4. seq \in [Block -> Int] /\ linked \in SUBSET Block /\ tip \in Block
    BY <1>1 DEF IInv, TypeOK
  <1>5. CandidatesComplete'
    <2> SUFFICES ASSUME pc \in {"idle", "activate"}, NEW x \in linked, ~WorseBy(seq', x, tip),
                        Sound(x)
                 PROVE  x \in candidates'
      BY <1>3 DEF CandidatesComplete, Worse, Sound
    <2>1. CASE x = b
      BY <1>1, <1>3, <2>1 DEF CauseOK, IsValid
    <2>2. CASE x # b
      <3>0. \A a \in Block : seq[a] >= -1
        BY <1>1 DEF SelectOK, SeqOK
      <3>1. \A a \in Block : seq'[a] <= seq[a] /\ seq[a] \in Int /\ seq'[a] \in Int
        BY <1>2, <1>4, <3>0, SMTT(40)
      <3>2. seq'[x] = seq[x]
        BY <1>2, <1>4, <2>2
      <3>3. seq' \in [Block -> Int]
        BY <1>2, <1>4, SMTT(40)
      <3>4. ~WorseBy(seq, x, tip)
        BY <1>4, <3>1, <3>2, <3>3, LowerId
      <3>5. x \in candidates
        BY <1>1, <3>4 DEF SelectOK, CandidatesComplete, Worse
      <3> QED
        BY <1>3, <2>2, <3>5
    <2> QED
      BY <2>1, <2>2
  <1>6. StartOK'
    BY <1>1, <1>3 DEF MainFree, StartOK
  <1>7. BestOK' /\ TipIsMostWork'
    BY <1>1, <1>3 DEF SelectOK, BestOK, TipIsMostWork
  <1>8. SeqOK'
    BY <1>1, <1>2, <1>4, SMTT(40) DEF SelectOK, SeqOK
  <1> QED
    BY <1>5, <1>6, <1>7, <1>8 DEF SelectOK

\* While InvalidateBlock is under way nothing is claimed; its last stretch looks at every
\* block again.
LEMMA InvalidateSelects ==
    ASSUME SelectInv, \/ \E b \in Invalidatable : InvalidateBlock(b)
                      \/ InvalidateTip
                      \/ InvalidateLoopEnds
    PROVE  SelectOK'
  <1>1. /\ pc \in {"idle", "invalidate"} /\ pc' \in {"invalidate", "mark"}
        /\ UNCHANGED <<seq, mostWork>>
    BY DEF InvalidateBlock, InvalidateTip, InvalidateLoopEnds, ids, activation
  <1>2. mostWork' = NoBlock /\ SelectOK
    BY <1>1 DEF SelectInv, FlagsInv, IInv, TargetOK
  <1> QED
    BY <1>1, <1>2 DEF SelectOK, CandidatesComplete, StartOK, BestOK, TipIsMostWork, SeqOK

\* The last stretch of InvalidateBlock finds every block that is fit to be a candidate.
LEMMA MarkSelects ==
    ASSUME SelectInv, MarkInvalid
    PROVE  SelectOK'
  <1>1. /\ pc = "mark" /\ pc' = "idle" /\ due' = TRUE
        /\ failedValid' = failedValid \cup {toMark}
        /\ candidates' = (candidates \ {toMark}) \cup
                         {c \in linked : c \notin Failed \cup {toMark} /\ ~Worse(c, tip)}
        /\ UNCHANGED <<linked, seq, tip, mostWork>>
    BY DEF MarkInvalid, index, ids, activation
  <1>2. mostWork' = NoBlock /\ SelectOK /\ CauseOK /\ linked \in SUBSET Block
    BY <1>1 DEF SelectInv, FlagsInv, IInv, TypeOK, TargetOK
  <1>3. CandidatesComplete'
    <2> SUFFICES ASSUME NEW x \in linked, ~Worse(x, tip), Sound(x)'
                 PROVE  x \in candidates'
      BY <1>1 DEF CandidatesComplete, Worse
    <2>1. x # toMark /\ Sound(x)
      BY <1>1, <1>2, ChainType DEF Sound
    <2> QED
      BY <1>1, <1>2, <2>1 DEF CauseOK
  <1> QED
    BY <1>1, <1>2, <1>3 DEF SelectOK, StartOK, BestOK, TipIsMostWork, SeqOK

\* Start-up makes every block without a flag a candidate and prunes by the tip.
LEMMA RestartSelects ==
    ASSUME SelectInv, CauseOK', Restart
    PROVE  SelectOK'
  <1>1. /\ pc = "idle" /\ pc' = "idle" /\ due' = TRUE /\ seq' = [b \in Block |-> 0]
        /\ linked' = {b \in data : Chain[b] \subseteq data}
        /\ candidates' = {c \in linked' \ Failed' : ~WorseBy(seq', c, tip)}
        /\ UNCHANGED <<tip, mostWork>>
    BY DEF Restart, activation, PruneBlockIndexCandidates, Failed
  <1>2. mostWork' = NoBlock
    BY <1>1 DEF SelectInv, FlagsInv, IInv, TargetOK
  <1>3. CandidatesComplete'
    BY <1>1 DEF CandidatesComplete, Worse, CauseOK
  <1>4. SeqOK'
    BY <1>1, SMTT(40) DEF SeqOK
  <1> QED
    BY <1>1, <1>2, <1>3, <1>4 DEF SelectOK, StartOK, BestOK, TipIsMostWork

\* Every step preserves the invariant of the selection.
LEMMA NextSelects ==
    ASSUME Reconsiderable = {}, Unripe = {}, MaxPrecious <= 1, SelectInv, CauseOK', [Next]_vars
    PROVE  SelectOK'
  <1>1. FlagsGrow
    BY NextGrows DEF SelectInv, FlagsInv
  <1>2. CASE UNCHANGED vars
    BY <1>2 DEF vars, index, failures, ids, activation, SelectInv, SelectOK, CandidatesComplete,
                StartOK, BestOK, TipIsMostWork, SeqOK, Good, Sound, Failed, Worse
  <1>3. ASSUME NEW b \in Block \ {Genesis}, AcceptBlockHeader(b) PROVE SelectOK'
    <2>1. MainFree /\ UNCHANGED <<linked, seq, candidates, tip, pc, mostWork, due>>
      BY <1>3 DEF AcceptBlockHeader, ids, activation
    <2> QED
      BY <1>1, <2>1, SelectFrame DEF SelectInv
  <1>4. ASSUME NEW b \in Block \ {Genesis}, AcceptBlock(b) PROVE SelectOK'
    BY <1>1, <1>4, AcceptSelects
  <1>5. CASE ConnectStall
    BY <1>5 DEF ConnectStall
  <1>6. CASE Activation
    BY <1>1, <1>5, <1>6, LockSelects, DiscardSelects, NothingSelects, DisconnectSelects,
       ConnectSelects, RejectSelects DEF Activation
  <1>7. CASE Invalidation
    BY <1>7, InvalidateSelects, MarkSelects DEF Invalidation
  <1>8. ASSUME NEW b \in Preciousable, PreciousBlock(b) PROVE SelectOK'
    BY <1>8, PreciousSelects
  <1>9. CASE \E b \in Invalidatable : InvalidateBlock(b)
    BY <1>9, InvalidateSelects
  <1>10. CASE Restart
    BY <1>10, RestartSelects
  <1> QED
    BY <1>2, <1>3, <1>4, <1>6, <1>7, <1>8, <1>9, <1>10, ActivateSelects DEF Next

\* SelectInv is an invariant without reconsiderblock and unripe peg-ins, if preciousblock is
\* called at most once for each amount of work of the tip.
THEOREM SelectInvariance ==
    ASSUME Reconsiderable = {}, Unripe = {}, MaxPrecious <= 1
    PROVE  Spec => []SelectInv
  <1>1. Init => SelectInv
    BY InitFlagsInv, InitSelectOK DEF SelectInv
  <1>2. SelectInv /\ [Next]_vars /\ FlagsInv' => SelectInv'
    BY NextSelects DEF SelectInv, FlagsInv
  <1> QED
    BY <1>1, <1>2, FlagsInvariance, PTL DEF Spec

-------------------------------------------------------------------------------
(* What follows for the choice of the best chain.                          *)

\* CandidatesComplete: whenever CheckBlockIndex can look, every block that sorts no worse
\* than the tip, has the data of its whole chain and no invalid ancestor is in
\* setBlockIndexCandidates.
THEOREM CandidatesAlwaysComplete ==
    ASSUME Reconsiderable = {}, Unripe = {}, MaxPrecious <= 1
    PROVE  Spec => []CandidatesComplete
  <1>1. SelectInv => CandidatesComplete
    BY DEF SelectInv, SelectOK
  <1> QED
    BY <1>1, SelectInvariance, PTL

\* TipIsMostWork: when no call of ActivateBestChain is owed and none is running, no fully
\* received chain without a failed or unconnectable block beats the tip.
THEOREM TipAlwaysMostWork ==
    ASSUME Reconsiderable = {}, Unripe = {}, MaxPrecious <= 1
    PROVE  Spec => []TipIsMostWork
  <1>1. SelectInv => TipIsMostWork
    BY DEF SelectInv, SelectOK
  <1> QED
    BY <1>1, SelectInvariance, PTL

\* ForwardProgress: ActivateBestChain releases cs_main only on a tip that is no worse than
\* the one it found when it took it.
THEOREM ForwardProgressAlways ==
    ASSUME Reconsiderable = {}, Unripe = {}, MaxPrecious <= 1
    PROVE  Spec => ForwardProgress
  <1>1. SelectInv /\ [Next]_vars => [~MainFree /\ MainFree' => ~Worse(tip', startTip)]_vars
    <2> SUFFICES ASSUME SelectInv, Next, ~MainFree, MainFree'
                 PROVE  ~Worse(tip', startTip)
      OBVIOUS
    <2>1. pc \in {"find", "connect"} /\ pc' \notin {"find", "connect"}
      BY DEF MainFree
    <2>2. CASE NothingToActivate
      BY <2>2, NothingMeansBest
    <2>3. CASE ConnectTip
      BY <2>1, <2>3 DEF ConnectTip, activation, LoopOrLeave
    <2>4. CASE ConnectInvalid
      BY <2>1, <2>4 DEF ConnectInvalid, LoopOrLeave
    <2>5. CASE LockMain \/ DiscardFailedCandidate \/ DisconnectToFork \/ ConnectStall
      BY <2>1, <2>5 DEF LockMain, DiscardFailedCandidate, DisconnectToFork, ConnectStall
    <2>6. Activation
      <3>1. /\ \A b \in Block \ {Genesis} : ~AcceptBlockHeader(b) /\ ~AcceptBlock(b)
            /\ \A b \in Preciousable : ~PreciousBlock(b)
        BY <2>1 DEF AcceptBlockHeader, AcceptBlock, PreciousBlock, MainFree
      <3>2. /\ ~ActivateBestChain /\ ~Invalidation /\ ~Restart
            /\ \A b \in Invalidatable : ~InvalidateBlock(b)
        BY <2>1 DEF ActivateBestChain, Invalidation, InvalidateTip, InvalidateLoopEnds, MarkInvalid,
                    Restart, InvalidateBlock
      <3> QED
        BY <3>1, <3>2 DEF Next
    <2> QED
      BY <2>2, <2>3, <2>4, <2>5, <2>6 DEF Activation
  <1> QED
    BY <1>1, SelectInvariance, PTL DEF Spec, ForwardProgress

===============================================================================
