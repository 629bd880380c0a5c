------------------------------- MODULE BestChain -------------------------------
(***************************************************************************)
(* The block index of validation.cpp and the selection of the active       *)
(* chain: headers and blocks arrive (AcceptBlockHeader, AcceptBlock),      *)
(* ActivateBestChain moves the tip along the best candidate, and the       *)
(* operator overrides it (InvalidateBlock, ResetBlockFailureFlags,         *)
(* PreciousBlock) or restarts the node.                                    *)
(*                                                                         *)
(* Two locks matter.  cs_main guards all of this state; an action here is  *)
(* one stretch of code under it, except that ActivateBestChain keeps it    *)
(* over the actions FindMostWorkChain and ConnectTip, during which no      *)
(* other thread moves (pc is then "find" or "connect").                    *)
(* m_cs_chainstate makes ActivateBestChain and InvalidateBlock exclude     *)
(* each other although both release cs_main between iterations.            *)
(***************************************************************************)
EXTENDS BlockTree

CONSTANTS
    Address,                    \* where each CBlockIndex lies: the comparator's last resort
    Unconnectable,              \* blocks ConnectBlock rejects
    Malformed,                  \* blocks ContextualCheckBlock rejects
    Unripe,                     \* blocks with a peg-in the parent daemon may not know yet
    Invalidatable,              \* arguments the operator gives to invalidateblock,
    Reconsiderable,             \* to reconsiderblock,
    Preciousable,               \* and to preciousblock
    MaxPrecious, MaxRestarts    \* bounds on calls and restarts

ASSUME InputAssumption ==
    /\ Unconnectable \in SUBSET (Block \ {Genesis})
    /\ Malformed \in SUBSET (Block \ {Genesis})
    /\ Unripe \in SUBSET (Block \ {Genesis})
    /\ Invalidatable \in SUBSET (Block \ {Genesis})
    /\ Reconsiderable \in SUBSET Block
    /\ Preciousable \in SUBSET Block
    /\ MaxPrecious \in Nat /\ MaxRestarts \in Nat

\* Distinct objects have distinct addresses.
ASSUME AddressAssumption ==
    /\ Address \in [Block -> Nat]
    /\ \A a, b \in Block : a # b => Address[a] # Address[b]

VARIABLES
    known,          \* m_block_index
    data,           \* blocks with BLOCK_HAVE_DATA and nTx > 0
    linked,         \* blocks with nChainTx # 0 (HaveTxsDownloaded)
    scripts,        \* blocks raised to BLOCK_VALID_SCRIPTS
    failedValid,    \* blocks with BLOCK_FAILED_VALID
    failedChild,    \* blocks with BLOCK_FAILED_CHILD
    failedBlocks,   \* m_failed_blocks
    unlinked,       \* second components of m_blocks_unlinked (the first is the parent)
    seq,            \* nSequenceId
    nextSeq,        \* nBlockSequenceId
    reverseSeq,     \* nBlockReverseSequenceId
    lastPrecious,   \* nLastPreciousChainwork
    candidates,     \* setBlockIndexCandidates
    tip,            \* m_chain.Tip()
    pc,             \* where the holder of m_cs_chainstate is
    mostWork,       \* ActivateBestChain's pindexMostWork
    startTip,       \* its starting_tip
    oldTip,         \* ActivateBestChainStep's pindexOldTip
    connected,      \* blocks_connected
    target,         \* InvalidateBlock's pindex
    toMark,         \* its to_mark_failed
    byWork,         \* its candidate_blocks_by_work
    due,            \* some thread is about to call ActivateBestChain
    restarts

index == <<known, data, linked, scripts>>
failures == <<failedValid, failedChild, failedBlocks>>
ids == <<seq, nextSeq, reverseSeq, lastPrecious>>
activation == <<mostWork, startTip, oldTip, connected>>
invalidation == <<target, toMark, byWork>>
vars == <<index, failures, unlinked, ids, candidates, tip, pc, activation,
          invalidation, due, restarts>>

-----------------------------------------------------------------------------
(* Every block carries the same proof, so chain work is height. *)

nChainWork == [b \in Block |-> Cardinality(Chain[b])]

Descendants(b) == {c \in known : b \in Chain[c]}

\* The sets of blocks that bear a failure flag, and whether an IsValid() test passes.
Failed == failedValid \cup failedChild
IsValid(b) == b \notin Failed

-----------------------------------------------------------------------------
(* CBlockIndexWorkComparator. *)

\* Whether a sorts before (is worse than) b under the sequence ids sq.
WorseBy(sq, a, b) ==
    \/ nChainWork[a] < nChainWork[b]
    \/ nChainWork[a] = nChainWork[b] /\ sq[a] > sq[b]
    \/ nChainWork[a] = nChainWork[b] /\ sq[a] = sq[b] /\ Address[a] > Address[b]

Worse(a, b) == WorseBy(seq, a, b)

Best(S) == CHOOSE b \in S : \A c \in S \ {b} : Worse(c, b)

\* What is left of the candidates C once those worse than the tip t are deleted.
PruneBlockIndexCandidates(C, t, sq) == {c \in C : ~WorseBy(sq, c, t)}

-----------------------------------------------------------------------------
Init ==
    /\ known = {Genesis} /\ data = {Genesis} /\ linked = {Genesis} /\ scripts = {}
    /\ failedValid = {} /\ failedChild = {} /\ failedBlocks = {}
    /\ unlinked = {}
    /\ seq = [b \in Block |-> IF b = Genesis THEN 1 ELSE 0]
    /\ nextSeq = 2 /\ reverseSeq = -1 /\ lastPrecious = 0
    /\ candidates = {Genesis}
    /\ tip = Genesis
    /\ pc = "idle"
    /\ mostWork = NoBlock /\ startTip = NoBlock /\ oldTip = NoBlock /\ connected = FALSE
    /\ target = NoBlock /\ toMark = NoBlock /\ byWork = {}
    /\ due = FALSE
    /\ restarts = 0

\* Other threads get cs_main only when the holder of m_cs_chainstate is not in it.
MainFree == pc \notin {"find", "connect"}

-----------------------------------------------------------------------------
(* Headers and blocks arrive. *)

\* m_failed_blocks entries that the parent of a new header descends from.
FailedAncestors(b) ==
    IF Parent[b] \in scripts /\ IsValid(Parent[b]) THEN {} ELSE failedBlocks \cap Chain[Parent[b]]

AcceptBlockHeader(b) ==
    /\ MainFree
    /\ b \notin known
    /\ Parent[b] \in known /\ IsValid(Parent[b])
    /\ \/ /\ FailedAncestors(b) = {}
          /\ known' = known \cup {b}            \* AddToBlockIndex
          /\ UNCHANGED failedChild
       \/ \E f \in FailedAncestors(b) :         \* the first found in the set's order
             /\ failedChild' = failedChild \cup (Chain[Parent[b]] \ Chain[f])
             /\ UNCHANGED known
    /\ UNCHANGED <<data, linked, scripts, failedValid, failedBlocks, unlinked, ids, candidates,
                   tip, pc, activation, invalidation, due, restarts>>

\* The blocks ReceivedBlockTransactions can link once b has its transactions:
\* b, and what waits in m_blocks_unlinked behind it, without a gap.
NewlyLinked(b) == {b} \cup {c \in unlinked : b \in Chain[c] /\ Chain[c] \ Chain[b] \subseteq unlinked}

\* The breadth-first queue visits parents first; siblings in the order the multimap gives.
QueueOrders(b, S) ==
    {q \in [S -> 0 .. Cardinality(S) - 1] :
        \A c, d \in S : /\ c # d => q[c] # q[d]
                        /\ nChainWork[c] < nChainWork[d] => q[c] < q[d]
                        /\ c # b /\ d # b /\ q[Parent[c]] < q[Parent[d]] => q[c] < q[d]}

\* Mutated form: only the block itself is linked, not what waited for it.
ReceivedBlockTransactions_NoQueue(b) ==
    /\ data' = data \cup {b}
    /\ IF Parent[b] \in linked
       THEN LET sq == [seq EXCEPT ![b] = nextSeq]
            IN /\ linked' = linked \cup {b}
               /\ seq' = sq
               /\ nextSeq' = nextSeq + 1
               /\ candidates' = candidates \cup {c \in {b} : ~WorseBy(sq, c, tip)}
               /\ UNCHANGED unlinked
       ELSE /\ unlinked' = IF IsValid(Parent[b]) THEN unlinked \cup {b} ELSE unlinked
            /\ UNCHANGED <<linked, seq, nextSeq, candidates>>
    /\ UNCHANGED <<reverseSeq, lastPrecious>>

ReceivedBlockTransactions(b) ==
    /\ data' = data \cup {b}
    /\ IF Parent[b] \in linked
       THEN \E q \in QueueOrders(b, NewlyLinked(b)) :
              LET L == NewlyLinked(b)
                  sq == [c \in Block |-> IF c \in L THEN nextSeq + q[c] ELSE seq[c]]
              IN /\ linked' = linked \cup L
                 /\ seq' = sq
                 /\ nextSeq' = nextSeq + Cardinality(L)
                 /\ candidates' = candidates \cup {c \in L : ~WorseBy(sq, c, tip)}
                 /\ unlinked' = unlinked \ L
       ELSE /\ unlinked' = IF IsValid(Parent[b]) THEN unlinked \cup {b} ELSE unlinked
            /\ UNCHANGED <<linked, seq, nextSeq, candidates>>
    /\ UNCHANGED <<reverseSeq, lastPrecious>>

\* A block whose header is known; ProcessNewBlock then calls ActivateBestChain.
AcceptBlock(b) ==
    /\ MainFree
    /\ b \in known /\ IsValid(b) /\ b \notin data
    /\ IF b \in Malformed
       THEN /\ failedValid' = failedValid \cup {b}
            /\ UNCHANGED <<data, linked, unlinked, ids, candidates, due>>
       ELSE /\ ReceivedBlockTransactions(b)
            /\ due' = TRUE
            /\ UNCHANGED failedValid
    /\ UNCHANGED <<known, scripts, failedChild, failedBlocks, tip, pc, activation,
                   invalidation, restarts>>

-----------------------------------------------------------------------------
(* ActivateBestChain. *)

\* A thread that owes a call makes it, or one that serves a peer happens to.  The 30-second
\* timer of init.cpp never does: no thread services the scheduler it is queued on.
ActivateBestChain ==
    /\ pc = "idle"
    /\ pc' = "activate" /\ mostWork' = NoBlock
    /\ due' = FALSE
    /\ UNCHANGED <<index, failures, unlinked, ids, candidates, tip, startTip, oldTip, connected,
                   invalidation, restarts>>

\* The outer loop's body takes cs_main.
LockMain ==
    /\ pc = "activate"
    /\ pc' = "find" /\ startTip' = tip /\ connected' = FALSE
    /\ UNCHANGED <<index, failures, unlinked, ids, candidates, tip, mostWork, oldTip,
                   invalidation, due, restarts>>

\* Mutated form: one stretch under cs_main is taken for the whole work.
Leave_Once(t, m, progress) ==
    /\ pc' = "idle"
    /\ startTip' = NoBlock /\ oldTip' = NoBlock /\ connected' = FALSE
    /\ mostWork' = NoBlock

\* The inner loop is over with tip t and target m: cs_main is released, and the
\* outer loop goes on while the target is not reached.
Leave(t, m, progress) ==
    /\ pc' = IF progress /\ t # m THEN "activate" ELSE "idle"
    /\ startTip' = NoBlock /\ oldTip' = NoBlock /\ connected' = FALSE
    /\ mostWork' = IF pc' = "idle" THEN NoBlock ELSE m

\* The part of a candidate's chain that the active chain lacks.
NewPath(b) == Chain[b] \ Chain[tip]

\* Mutated form: only the candidate itself is looked at.
BadOnPath_Self(b) == {b} \cap Failed

\* The failed blocks on it.
BadOnPath(b) == NewPath(b) \cap Failed

\* Mutated form: the valid blocks below the failed one are marked as well.
DiscardFailedCandidate_Whole ==
    /\ pc = "find" /\ mostWork = NoBlock /\ candidates # {}
    /\ LET new == Best(candidates) IN
         /\ BadOnPath(new) # {}
         /\ failedChild' = failedChild \cup NewPath(new)
         /\ candidates' = candidates \ NewPath(new)
    /\ UNCHANGED <<index, failedValid, failedBlocks, unlinked, ids, tip, pc, activation,
                   invalidation, due, restarts>>

\* The best candidate descends from a failed block: everything above the
\* highest such block is a failed child, and all of it stops being a candidate.
DiscardFailedCandidate ==
    /\ pc = "find" /\ mostWork = NoBlock /\ candidates # {}
    /\ LET new == Best(candidates) IN
         /\ BadOnPath(new) # {}
         /\ LET bad == CHOOSE c \in BadOnPath(new) :
                          \A d \in BadOnPath(new) : nChainWork[d] <= nChainWork[c]
            IN /\ failedChild' = failedChild \cup (Chain[new] \ Chain[bad])
               /\ candidates' = candidates \ ((Chain[new] \ Chain[bad]) \cup {bad})
    /\ UNCHANGED <<index, failedValid, failedBlocks, unlinked, ids, tip, pc, activation,
                   invalidation, due, restarts>>

\* What FindMostWorkChain returns, or the target kept from the last iteration.
FindMostWorkChain ==
    IF mostWork # NoBlock THEN mostWork
    ELSE IF candidates = {} THEN NoBlock ELSE Best(candidates)

Settled == mostWork # NoBlock \/ candidates = {} \/ BadOnPath(Best(candidates)) = {}

\* Nothing to do: no target, or it is the tip already.
NothingToActivate ==
    /\ pc = "find" /\ Settled
    /\ FindMostWorkChain \in {NoBlock, tip}
    /\ Leave(tip, FindMostWorkChain, connected)
    /\ UNCHANGED <<index, failures, unlinked, ids, candidates, tip, invalidation, due, restarts>>

\* ActivateBestChainStep disconnects the blocks that are not in the target's chain.
DisconnectToFork ==
    /\ pc = "find" /\ Settled
    /\ FindMostWorkChain \notin {NoBlock, tip}
    /\ mostWork' = FindMostWorkChain
    /\ oldTip' = tip
    /\ tip' = CHOOSE f \in Chain[tip] \cap Chain[mostWork'] :
                 Chain[tip] \cap Chain[mostWork'] \subseteq Chain[f]
    /\ connected' = TRUE
    /\ pc' = "connect"
    /\ UNCHANGED <<index, failures, unlinked, ids, candidates, startTip, invalidation, due, restarts>>

NextToConnect == CHOOSE b \in NewPath(mostWork) : Parent[b] = tip

\* Mutated form: cs_main is released after every step.
LoopOrLeave_Always(t, m) == Leave(t, m, TRUE)

\* The test of the inner loop, with tip t and target m: repeat while the tip is
\* worse than where this stretch under cs_main began.
LoopOrLeave(t, m) ==
    IF Worse(t, startTip)
    THEN /\ pc' = "find" /\ mostWork' = m /\ oldTip' = NoBlock /\ connected' = TRUE
         /\ UNCHANGED startTip
    ELSE Leave(t, m, TRUE)

\* ConnectTip applies the block; the step ends once the tip beats the old one
\* or the target is reached.
ConnectTip ==
    /\ pc = "connect"
    /\ LET b == NextToConnect IN
         /\ b \notin Unconnectable
         /\ tip' = b
         /\ scripts' = scripts \cup {b}
         /\ candidates' = PruneBlockIndexCandidates(candidates, b, seq)
         /\ IF nChainWork[b] > nChainWork[oldTip] \/ b = mostWork
            THEN LoopOrLeave(b, mostWork)
            ELSE UNCHANGED <<pc, activation>>
    /\ UNCHANGED <<known, data, linked, failures, unlinked, ids, invalidation, due, restarts>>

\* Mutated form: the target is kept.
ConnectInvalid_Kept ==
    /\ pc = "connect"
    /\ LET b == NextToConnect IN
         /\ b \in Unconnectable
         /\ failedValid' = failedValid \cup {b}
         /\ failedBlocks' = failedBlocks \cup {b}
         /\ candidates' = candidates \ {b}
         /\ LoopOrLeave(tip, mostWork)
    /\ UNCHANGED <<index, failedChild, unlinked, ids, tip, invalidation, due, restarts>>

\* ConnectBlock rejects the block: InvalidBlockFound, and the target is forgotten.
ConnectInvalid ==
    /\ pc = "connect"
    /\ LET b == NextToConnect IN
         /\ b \in Unconnectable
         /\ failedValid' = failedValid \cup {b}
         /\ failedBlocks' = failedBlocks \cup {b}
         /\ candidates' = candidates \ {b}
         /\ LoopOrLeave(tip, NoBlock)
    /\ UNCHANGED <<index, failedChild, unlinked, ids, tip, invalidation, due, restarts>>

\* CheckPeginRipeness cannot confirm a peg-in: fStall ends both loops.
ConnectStall ==
    /\ pc = "connect"
    /\ NextToConnect \in Unripe
    /\ Leave(tip, tip, TRUE)
    /\ UNCHANGED <<index, failures, unlinked, ids, candidates, tip, invalidation, due, restarts>>

-----------------------------------------------------------------------------
(* The operator's commands. *)

\* The counter's lower limit is the bound MaxPrecious, for INT32_MIN.
PreciousBlock(b) ==
    /\ MainFree
    /\ b \in known
    /\ nChainWork[b] >= nChainWork[tip]
    /\ LET rev == IF nChainWork[tip] > lastPrecious THEN -1 ELSE reverseSeq IN
         /\ rev >= -MaxPrecious
         /\ seq' = [seq EXCEPT ![b] = rev]
         /\ reverseSeq' = rev - 1
    /\ lastPrecious' = nChainWork[tip]
    /\ candidates' = IF IsValid(b) /\ b \in linked
                     THEN PruneBlockIndexCandidates(candidates \cup {b}, tip, seq')
                     ELSE candidates \ {b}
    /\ due' = TRUE
    /\ UNCHANGED <<index, failures, unlinked, nextSeq, tip, pc, activation, invalidation, restarts>>

\* The first stretch under cs_main: remember the blocks that may become candidates.
InvalidateBlock(b) ==
    /\ pc = "idle"
    /\ b \in known
    /\ pc' = "invalidate"
    /\ target' = b /\ toMark' = b
    /\ byWork' = {c \in linked : c \notin Chain[tip] /\ ~Worse(c, Parent[b]) /\ IsValid(c)}
    /\ UNCHANGED <<index, failures, unlinked, ids, candidates, tip, activation, due, restarts>>

\* One iteration: disconnect the tip and mark it.
InvalidateTip ==
    /\ pc = "invalidate"
    /\ target \in Chain[tip]
    /\ tip' = Parent[tip]
    /\ LET relabel == Parent[tip] = toMark /\ toMark \in failedValid
           fit == {c \in byWork : ~Worse(c, Parent[tip])}
       IN /\ failedValid' = (failedValid \cup {tip}) \ (IF relabel THEN {toMark} ELSE {})
          /\ failedChild' = failedChild \cup (IF relabel THEN {toMark} ELSE {})
          /\ candidates' = (candidates \ {tip}) \cup {Parent[tip]} \cup fit
          /\ byWork' = byWork \ fit
    /\ toMark' = tip
    /\ UNCHANGED <<index, failedBlocks, unlinked, ids, pc, activation, target, due, restarts>>

\* The loop ends; CheckBlockIndex runs under cs_main, which is then released again.
InvalidateLoopEnds ==
    /\ pc = "invalidate"
    /\ target \notin Chain[tip]
    /\ pc' = "mark"
    /\ UNCHANGED <<index, failures, unlinked, ids, candidates, tip, activation, invalidation, due, restarts>>

\* Mutated form: blocks that arrived in the meantime are not looked for.
MarkInvalid_NoRescan ==
    /\ pc = "mark"
    /\ toMark \notin Chain[tip]
    /\ failedValid' = failedValid \cup {toMark}
    /\ failedBlocks' = failedBlocks \cup {toMark}
    /\ candidates' = candidates \ {toMark}
    /\ pc' = "idle"
    /\ target' = NoBlock /\ toMark' = NoBlock /\ byWork' = {}
    /\ due' = TRUE
    /\ UNCHANGED <<index, failedChild, unlinked, ids, tip, activation, restarts>>

\* The last stretch, after which invalidateblock calls ActivateBestChain.
MarkInvalid ==
    /\ pc = "mark"
    /\ toMark \notin Chain[tip]
    /\ failedValid' = failedValid \cup {toMark}
    /\ failedBlocks' = failedBlocks \cup {toMark}
    /\ candidates' = (candidates \ {toMark}) \cup
                     {c \in linked : c \notin Failed \cup {toMark} /\ ~Worse(c, tip)}
    /\ pc' = "idle"
    /\ target' = NoBlock /\ toMark' = NoBlock /\ byWork' = {}
    /\ due' = TRUE
    /\ UNCHANGED <<index, failedChild, unlinked, ids, tip, activation, restarts>>

\* Mutated form: m_failed_blocks is not cleaned up.
ResetBlockFailureFlags_KeepSet(b) ==
    /\ MainFree
    /\ b \in known
    /\ LET below == Descendants(b) \cap Failed
           cleared == below \cup Chain[b]
       IN /\ failedValid' = failedValid \ cleared
          /\ failedChild' = failedChild \ cleared
          /\ candidates' = candidates \cup {c \in below \cap linked : Worse(tip, c)}
    /\ due' = TRUE
    /\ UNCHANGED <<index, failedBlocks, unlinked, ids, tip, pc, activation, invalidation, restarts>>

\* Mutated form: every descendant becomes a candidate, the data it lacks notwithstanding.
ResetBlockFailureFlags_AnyData(b) ==
    /\ MainFree
    /\ b \in known
    /\ LET below == Descendants(b) \cap Failed
           cleared == below \cup Chain[b]
       IN /\ failedValid' = failedValid \ cleared
          /\ failedChild' = failedChild \ cleared
          /\ failedBlocks' = failedBlocks \ (below \cup (Chain[b] \cap Failed))
          /\ candidates' = candidates \cup {c \in below : Worse(tip, c)}
    /\ due' = TRUE
    /\ UNCHANGED <<index, unlinked, ids, tip, pc, activation, invalidation, restarts>>

ResetBlockFailureFlags(b) ==
    /\ MainFree
    /\ b \in known
    /\ LET below == Descendants(b) \cap Failed
           cleared == below \cup Chain[b]
       IN /\ failedValid' = failedValid \ cleared
          /\ failedChild' = failedChild \ cleared
          /\ failedBlocks' = failedBlocks \ (below \cup (Chain[b] \cap Failed))
          /\ candidates' = candidates \cup {c \in below \cap linked : Worse(tip, c)}
    /\ due' = TRUE
    /\ UNCHANGED <<index, unlinked, ids, tip, pc, activation, invalidation, restarts>>

\* Stop and start: LoadBlockIndex and LoadChainTip rebuild what is not on disk.
Restart ==
    /\ pc = "idle"
    /\ restarts < MaxRestarts
    /\ restarts' = restarts + 1
    /\ linked' = {b \in data : Chain[b] \subseteq data}
    /\ unlinked' = data \ linked'
    /\ failedChild' = failedChild \cup {b \in known \ Failed : Chain[b] \cap Failed # {}}
    /\ failedBlocks' = {}
    /\ seq' = [b \in Block |-> 0]
    /\ nextSeq' = 1 /\ reverseSeq' = -1 /\ lastPrecious' = 0
    /\ candidates' = PruneBlockIndexCandidates(
                        linked' \ (failedValid \cup failedChild'), tip, seq')
    /\ due' = TRUE
    /\ UNCHANGED <<known, data, scripts, failedValid, tip, pc, activation, invalidation>>

-----------------------------------------------------------------------------
Activation ==
    \/ LockMain
    \/ DiscardFailedCandidate
    \/ NothingToActivate
    \/ DisconnectToFork
    \/ ConnectTip
    \/ ConnectInvalid
    \/ ConnectStall

Invalidation ==
    \/ InvalidateTip
    \/ InvalidateLoopEnds
    \/ MarkInvalid

Next ==
    \/ \E b \in Block \ {Genesis} : AcceptBlockHeader(b)
    \/ \E b \in Block \ {Genesis} : AcceptBlock(b)
    \/ ActivateBestChain
    \/ Activation
    \/ \E b \in Invalidatable : InvalidateBlock(b)
    \/ Invalidation
    \/ \E b \in Reconsiderable : ResetBlockFailureFlags(b)
    \/ \E b \in Preciousable : PreciousBlock(b)
    \/ Restart

Spec == Init /\ [][Next]_vars

\* A thread that owes a call of ActivateBestChain makes it, and the call runs to its end;
\* the parent daemon is not behind for ever (ConnectTip gets through).
Fairness ==
    /\ WF_vars(due /\ ActivateBestChain)
    /\ WF_vars(Activation)
    /\ WF_vars(Invalidation)
    /\ SF_vars(ConnectTip)

FairSpec == Spec /\ Fairness

-----------------------------------------------------------------------------
\* No block of b's chain was found invalid.
Sound(b) == Chain[b] \cap failedValid = {}

\* CheckBlockIndex, as any thread can call it while InvalidateBlock is not under way: a
\* block that sorts no worse than the tip, has the data of its whole chain and no invalid
\* ancestor is in setBlockIndexCandidates; so is the tip itself.
CandidatesComplete ==
    pc \in {"idle", "activate"} =>
        \A b \in linked : ~Worse(b, tip) /\ Sound(b) => b \in candidates

\* CheckBlockIndex: no candidate is worse than the tip or lacks an ancestor's data.
CandidatesSound ==
    MainFree => \A b \in candidates : ~Worse(b, tip) /\ Chain[b] \subseteq data

\* CheckBlockIndex: nChainTx tells exactly which blocks have all data below them, and
\* m_blocks_unlinked holds those that wait for an ancestor's data, so that none is
\* forgotten when that data arrives.
UnlinkedExact ==
    MainFree => /\ linked = {b \in known : Chain[b] \subseteq data}
                /\ unlinked \subseteq data \ linked
                /\ {b \in data \ linked : Sound(b)} \subseteq unlinked
                /\ \A b \in known \ linked : seq[b] <= 0

\* CheckBlockIndex: "The failed mask cannot be set for blocks without invalid parents."
FailureHasCause == MainFree => \A b \in Failed : ~Sound(b)

\* The assertion of AcceptBlockHeader: m_failed_blocks members bear BLOCK_FAILED_VALID.
FailedBlocksMarked == failedBlocks \subseteq failedValid

\* The active chain never holds a block that is known to be invalid.
TipNotFailed == Chain[tip] \cap (Failed \cup Unconnectable \cup Malformed) = {}

\* Once every thread that changed the candidates has had its ActivateBestChain,
\* no fully received chain without a failed or unconnectable block beats the tip.
TipIsMostWork ==
    pc = "idle" /\ ~due =>
        \A b \in linked : Chain[b] \cap (Failed \cup Unconnectable) = {} => ~Worse(tip, b)

\* "We absolutely may not unlock cs_main until we've made forward progress":
\* ActivateBestChain never releases cs_main on a tip worse than the one it found.
ForwardProgress ==
    [][~MainFree /\ MainFree' => ~Worse(tip', startTip)]_vars

\* Once the operator stops giving commands, a fully received chain that connects without
\* error is caught up with, even if the parent daemon is behind for a while and no further
\* block arrives.
BestChainActivated ==
    <>[][/\ \A b \in Invalidatable : ~InvalidateBlock(b)
         /\ \A b \in Reconsiderable : ~ResetBlockFailureFlags(b)]_vars =>
        \A b \in {x \in Block \ {Genesis} : Chain[x] \cap Unconnectable = {}} :
            b \in linked ~> nChainWork[tip] >= nChainWork[b] \/ Chain[b] \cap Failed # {}

===============================================================================
