--------------------------- MODULE MempoolProofs ---------------------------
(***************************************************************************)
(* What holds for every epoch length and number of valid epochs: votes      *)
(* alone decide the parameters of a block, and the rules the mempool        *)
(* applies for the next block are those the block is judged by.             *)
(***************************************************************************)
EXTENDS Mempool, DynaFedProofs

\* The provers, and their time, for a leaf that names none.
USE SMTT(40), ZenonT(20)

-----------------------------------------------------------------------------
(* The theorems. *)

\* Only ConnectTip and DisconnectTip change the chain.
LEMMA ChainStep ==
    ASSUME ChainOK(chain), [Next]_vars
    PROVE  \/ chain' = chain
           \/ chain' = SubSeq(chain, 1, Len(chain) - 1) /\ TipHeight(chain) > 0
           \/ \E vote \in Param \cup {NoParam} : chain' = Append(chain, ComputeNextBlockHeader(chain, vote))
  <1>1. CASE \E t \in Tx, old \in SUBSET Expirable : AcceptToMemoryPool(t, old)
    BY <1>1 DEF AcceptToMemoryPool
  <1>2. CASE \E t \in Tx : Trim(t)
    BY <1>2 DEF Trim
  <1>3. CASE \E t \in Prioritised : PrioritiseTransaction(t)
    BY <1>3 DEF PrioritiseTransaction
  <1>4. CASE \E txs \in Blocks, vote \in Votes : ConnectTip(txs, vote)
    <2>1. PICK txs \in Blocks, vote \in Votes : ConnectTip(txs, vote)
      BY <1>4
    <2>2. chain' = Append(chain, ComputeNextBlockHeader(chain, vote))
      BY <2>1 DEF ConnectTip
    <2>3. vote \in Param \cup {NoParam}
      BY ChainAssumption
    <2> QED BY <2>2, <2>3
  <1>5. CASE DisconnectTip
    BY <1>5 DEF DisconnectTip, Front
  <1>6. CASE \E add \in BOOLEAN, old \in SUBSET Expirable : MaybeUpdateMempoolForReorg(add, old)
    BY <1>6 DEF MaybeUpdateMempoolForReorg
  <1>7. CASE UNCHANGED vars
    BY <1>7 DEF vars
  <1> QED BY <1>1, <1>2, <1>3, <1>4, <1>5, <1>6, <1>7 DEF Next

\* Every chain of the node is in order, whatever is connected and disconnected: the inductive
\* invariant behind the two theorems below.
THEOREM ChainsAreOK == Spec => []ChainOK(chain)
  <1>1. Init => ChainOK(chain)
    BY ChainAssumption DEF Init
  <1>2. ChainOK(chain) /\ [Next]_vars => ChainOK(chain)'
    <2> SUFFICES ASSUME ChainOK(chain), [Next]_vars PROVE ChainOK(chain')
      OBVIOUS
    <2> QED BY ChainStep, Shorten, Extend, ZenonT(40)
  <1> QED BY <1>1, <1>2, PTL DEF Spec

\* For every epoch length and activation height, the parameters of every block of the active
\* chain are those of its parent or an entry that four fifths of the epoch before voted for:
\* NextBlockIsParameterTransition and ComputeNextBlockFullCurrentParameters read them so.
THEOREM ParamsAlwaysFollowVotes == Spec => []ParamsFollowVotes
  <1>1. ChainOK(chain) => ParamsFollowVotes
    BY DEF ChainOK, ParamsFollowVotes
  <1> QED BY <1>1, ChainsAreOK, PTL

\* For every epoch length and number of valid epochs, the fedpeg scripts and the PAK list the
\* mempool applies are those the next block is judged by, and they stay the same until
\* removeForBlock checks the pool again.
THEOREM NextBlockRulesAgree == Spec => NextBlockRules
  <1> DEFINE Agree ==
        Len(chain') > Len(chain) =>
          /\ GetValidFedpegScripts(chain', FALSE) = GetValidFedpegScripts(chain, TRUE)
          /\ EpochAge(NextHeight(chain')) # 0 =>
               /\ GetValidFedpegScripts(chain', TRUE) = GetValidFedpegScripts(chain, TRUE)
               /\ GetActivePAKList(chain') = GetActivePAKList(chain)
  <1>1. ChainOK(chain) /\ [Next]_vars => [Agree]_vars
    <2> SUFFICES ASSUME ChainOK(chain), [Next]_vars, Len(chain') > Len(chain) PROVE Agree
      BY ZenonT(40)
    <2>1. Len(chain) \in Nat /\ TipHeight(chain) = Len(chain) - 1 /\ chain \in Seq(Header)
      BY AtHeight
    <2>2. chain' # chain
      BY <2>1
    <2>3. ~(chain' = SubSeq(chain, 1, Len(chain) - 1) /\ TipHeight(chain) > 0)
      BY <2>1, Shortened
    <2>4. PICK vote \in Param \cup {NoParam} : chain' = Append(chain, ComputeNextBlockHeader(chain, vote))
      BY <2>2, <2>3, ChainStep
    <2> QED BY <2>4, RulesAgree, ZenonT(40)
  <1> QED BY <1>1, ChainsAreOK, PTL DEF Spec, NextBlockRules
=============================================================================
