------------------------------ MODULE DynaFed ------------------------------
(***************************************************************************)
(* Dynamic federation: the parameters in force at a block (fedpeg script,   *)
(* PAK list, block signers) are voted for in the headers of an epoch and    *)
(* are functions of the chain below the block.  A chain is the sequence of  *)
(* its headers, the genesis block first.                                    *)
(*                                                                          *)
(* The parameters are one value here: the fedpeg script and the PAK list of *)
(* one entry change together.  A compact entry commits to its parameters    *)
(* and does not carry them, so `full' says whether they can be read.        *)
(***************************************************************************)
EXTENDS Integers, Sequences, FiniteSets, FiniteSetsExt

CONSTANTS
    Param,              \* parameter entries
    NoParam,            \* the null entry
    GenesisParam,       \* what the chain parameters put in force before the first vote
    EpochLength,        \* dynamic_epoch_length
    TotalValidEpochs,   \* total_valid_epochs
    Activation          \* the first height whose header carries an entry

ASSUME ParamAssumption == NoParam \notin Param /\ GenesisParam \in Param
ASSUME EpochAssumption == EpochLength \in Nat \ {0} /\ TotalValidEpochs \in Nat \ {0}
ASSUME ActivationAssumption == Activation \in Nat \ {0}

\* The dynafed_params of a header; a null entry has no current parameters.
Header == [proposed : Param \cup {NoParam}, current : Param \cup {NoParam}, full : BOOLEAN]

NullHeader == [proposed |-> NoParam, current |-> NoParam, full |-> FALSE]

NextHeight(c) == Len(c)
TipHeight(c) == Len(c) - 1
GetAncestor(c, height) == c[height + 1]

EpochAge(height) == height % EpochLength

Threshold == (EpochLength * 4) \div 5

\* Mutated form: the tally is compared before the vote is counted.
Tally_Before(c, height) ==
    Cardinality({k \in (height + 1)..TipHeight(c) : GetAncestor(c, k).proposed = GetAncestor(c, height).proposed})

\* The votes for the proposal at height that the walk down from the tip has
\* counted when it comes to this height.
Tally(c, height) ==
    Cardinality({k \in height..TipHeight(c) : GetAncestor(c, k).proposed = GetAncestor(c, height).proposed})

\* The heights of the epoch that ends at the tip at which the walk may stop.
Reached(c) ==
    {height \in (NextHeight(c) - EpochLength)..TipHeight(c) :
        /\ GetAncestor(c, height).proposed # NoParam
        /\ Tally(c, height) >= Threshold}

\* The winning entry, or NoParam when the next block makes no transition.
NextBlockIsParameterTransition(c) ==
    IF EpochAge(NextHeight(c)) # 0 \/ Reached(c) = {}
    THEN NoParam
    ELSE GetAncestor(c, Max(Reached(c))).proposed

\* The parameters read from a header; nothing of a compact entry can be read.
FullParameters(header) ==
    IF header.current = NoParam THEN GenesisParam
    ELSE IF header.full THEN header.current ELSE NoParam

\* Where the parameters of the epoch before the next block are stored: a chain
\* that starts with dynamic parameters has them in block 1.
EpochStart(c) ==
    LET age == EpochAge(NextHeight(c))
        start == IF age = 0 THEN NextHeight(c) - EpochLength ELSE NextHeight(c) - age
    IN IF start = 0 /\ NextHeight(c) > 1 /\ Activation = 1 THEN 1 ELSE start

ComputeNextBlockFullCurrentParameters(c) ==
    IF NextBlockIsParameterTransition(c) # NoParam
    THEN NextBlockIsParameterTransition(c)
    ELSE FullParameters(GetAncestor(c, EpochStart(c)))

\* The header a valid block has on top of c when it makes this proposal: the
\* entry is full at an epoch start and in the first block that has one.  The code
\* compares the current entry with the expected one except for m_elided_root, so a
\* compact entry may commit to anything; no function here reads a compact entry.
ComputeNextBlockHeader(c, proposal) ==
    IF NextHeight(c) < Activation THEN NullHeader
    ELSE [proposed |-> proposal,
          current  |-> ComputeNextBlockFullCurrentParameters(c),
          full     |-> \/ EpochAge(NextHeight(c)) = 0
                       \/ GetAncestor(c, TipHeight(c)).current = NoParam]

\* Mutated form: the scripts are not cut to TotalValidEpochs.
GetValidFedpegScripts_Uncut(c, nextBlock) ==
    LET start == TipHeight(c) - EpochAge(TipHeight(c))
        ahead == nextBlock /\ EpochAge(TipHeight(c)) = EpochLength - 1
    IN {FullParameters(GetAncestor(c, start - i * EpochLength)) :
            i \in {j \in 0..(TotalValidEpochs - 1) : j * EpochLength <= start}}
       \cup (IF ahead THEN {ComputeNextBlockFullCurrentParameters(c)} ELSE {})

\* Whose fedpeg scripts peg-ins may pay to: those of the last TotalValidEpochs
\* epochs up to the tip, or up to the next block when it is asked about.
GetValidFedpegScripts(c, nextBlock) ==
    LET start  == TipHeight(c) - EpochAge(TipHeight(c))
        ahead  == nextBlock /\ EpochAge(TipHeight(c)) = EpochLength - 1
        walked == IF ahead THEN TotalValidEpochs - 1 ELSE TotalValidEpochs
    IN {FullParameters(GetAncestor(c, start - i * EpochLength)) :
            i \in {j \in 0..(walked - 1) : j * EpochLength <= start}}
       \cup (IF ahead THEN {ComputeNextBlockFullCurrentParameters(c)} ELSE {})

\* The entry whose PAK list binds the block after the tip.
GetActivePAKList(c) == ComputeNextBlockFullCurrentParameters(c)

-----------------------------------------------------------------------------
(* The reference: what the votes of a chain decide. *)

ParametersAt(c, height) ==
    IF GetAncestor(c, height).current = NoParam THEN GenesisParam ELSE GetAncestor(c, height).current

\* The blocks of the epoch before height that propose p.
VotesFor(c, height, p) == {k \in (height - EpochLength)..(height - 1) : GetAncestor(c, k).proposed = p}

Elected(c, height) ==
    {p \in Param : /\ EpochAge(height) = 0
                   /\ VotesFor(c, height, p) # {}
                   /\ Cardinality(VotesFor(c, height, p)) >= Threshold}

\* The parameters of every block are those of its parent, or an entry elected for it.
VotesDecide(c) ==
    \A height \in 1..TipHeight(c) :
        IF Elected(c, height) = {}
        THEN ParametersAt(c, height) = ParametersAt(c, height - 1)
        ELSE ParametersAt(c, height) \in Elected(c, height)

\* A chain as ComputeNextBlockHeader builds it: the parameters stay the same during an epoch
\* and can be read at its start.
ChainOK(c) ==
    /\ c \in Seq(Header) /\ c # <<>> /\ GetAncestor(c, 0) = NullHeader
    /\ \A height \in 1..TipHeight(c) :
         LET h == GetAncestor(c, height) IN
         /\ (h.current = NoParam) <=> (height < Activation)
         /\ (h.current = NoParam) => (h.proposed = NoParam)
         /\ (EpochAge(height) = 0 \/ height = Activation) => h.full \/ h.current = NoParam
         /\ ParametersAt(c, height) = ParametersAt(c, height - EpochAge(height))
    /\ VotesDecide(c)
=============================================================================
