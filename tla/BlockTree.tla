------------------------------- MODULE BlockTree -------------------------------
(***************************************************************************)
(* The tree of blocks that the block index spans: every CBlockIndex but    *)
(* that of the genesis block has a pprev, and following pprev ends at the  *)
(* genesis block.                                                          *)
(***************************************************************************)
EXTENDS Integers, FiniteSets

CONSTANTS
    Block,      \* the blocks of the tree
    Genesis,    \* its root
    Parent,     \* pprev of every other block
    NoBlock     \* the null pointer, or the null hash

ParentClosed(S) == \A b \in S \ {Genesis} : Parent[b] \in S

\* A block with its ancestors: the least set that has b and is closed under Parent.
Chain == [b \in Block |->
    {a \in Block : \A S \in SUBSET Block : b \in S /\ ParentClosed(S) => a \in S}]

ASSUME TreeAssumption ==
    /\ IsFiniteSet(Block)
    /\ Genesis \in Block /\ NoBlock \notin Block
    /\ Parent \in [Block \ {Genesis} -> Block]
    /\ \A b \in Block : Genesis \in Chain[b]

===============================================================================
