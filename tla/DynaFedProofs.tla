--------------------------- MODULE DynaFedProofs ---------------------------
(***************************************************************************)
(* Facts about chains of headers, for every epoch length: the parameters a  *)
(* valid block puts in force are those the votes decide, and the rules for  *)
(* the next block are those of the block.                                   *)
(***************************************************************************)
EXTENDS DynaFed, FiniteSetTheorems, WellFoundedInduction, TLAPS

\* The provers, and their time, for a leaf that names none.
USE SMTT(40), ZenonT(20)

-----------------------------------------------------------------------------
(* Epochs. *)

\* Division with remainder by the epoch length.
LEMMA DivMod ==
    ASSUME NEW n \in Nat
    PROVE  n = (EpochLength * (n \div EpochLength)) + (n % EpochLength)
           /\ n % EpochLength \in 0..(EpochLength - 1) /\ n \div EpochLength \in Nat
  BY EpochAssumption

\* Quotient and remainder are unique.
LEMMA DivUnique ==
    \A q1, q2 \in Int, r1, r2 \in 0..(EpochLength - 1) :
        (EpochLength * q1) + r1 = (EpochLength * q2) + r2 => q1 = q2 /\ r1 = r2
  BY EpochAssumption

\* The age of a block within its epoch.
LEMMA AgeType ==
    ASSUME NEW n \in Nat
    PROVE  /\ EpochAge(n) \in 0..(EpochLength - 1)
           /\ EpochAge(n) <= n
  BY DivMod, EpochAssumption DEF EpochAge

\* The age of n is r when n is r above a multiple of the epoch length.
LEMMA AgeOf ==
    ASSUME NEW q \in Nat, NEW r \in 0..(EpochLength - 1)
    PROVE  EpochAge((EpochLength * q) + r) = r
  <1> DEFINE n == (EpochLength * q) + r
  <1>1. n \in Nat
    BY EpochAssumption
  <1> HIDE DEF n
  <1>2. n = (EpochLength * (n \div EpochLength)) + (n % EpochLength)
        /\ n % EpochLength \in 0..(EpochLength - 1) /\ n \div EpochLength \in Nat
    BY <1>1, DivMod
  <1>3. n = (EpochLength * q) + r
    BY DEF n
  <1>4. n % EpochLength = r
    BY <1>2, <1>3, DivUnique
  <1> QED BY <1>3, <1>4 DEF EpochAge

\* The next block is one older, or starts an epoch.
LEMMA AgeNext ==
    ASSUME NEW n \in Nat
    PROVE  EpochAge(n + 1) = IF EpochAge(n) = EpochLength - 1 THEN 0 ELSE EpochAge(n) + 1
  <1> DEFINE q == n \div EpochLength
             r == n % EpochLength
  <1>1. n = (EpochLength * q) + r /\ r \in 0..(EpochLength - 1) /\ q \in Nat
    BY DivMod
  <1>2. EpochAge(n) = r
    BY DEF EpochAge
  <1> HIDE DEF q, r
  <1>3. CASE r = EpochLength - 1
    <2>1. n + 1 = (EpochLength * (q + 1)) + 0
      BY <1>1, <1>3, EpochAssumption
    <2>2. q + 1 \in Nat /\ 0 \in 0..(EpochLength - 1)
      BY <1>1, EpochAssumption
    <2>3. EpochAge((EpochLength * (q + 1)) + 0) = 0
      BY <2>2, AgeOf
    <2> QED BY <1>2, <1>3, <2>1, <2>3
  <1>4. CASE r # EpochLength - 1
    <2>1. n + 1 = (EpochLength * q) + (r + 1) /\ r + 1 \in 0..(EpochLength - 1)
      BY <1>1, <1>4, EpochAssumption
    <2>2. EpochAge((EpochLength * q) + (r + 1)) = r + 1
      BY <1>1, <2>1, AgeOf
    <2> QED BY <1>2, <1>4, <2>1, <2>2
  <1> QED BY <1>3, <1>4

\* The start of the epoch of n has age zero, and an epoch start above zero has a whole
\* epoch below it.
LEMMA AgeStart ==
    ASSUME NEW n \in Nat
    PROVE  /\ EpochAge(n - EpochAge(n)) = 0
           /\ EpochAge(n) = 0 /\ n > 0 => n >= EpochLength
  <1> DEFINE q == n \div EpochLength
             r == n % EpochLength
  <1>1. n = (EpochLength * q) + r /\ r \in 0..(EpochLength - 1) /\ q \in Nat
    BY DivMod
  <1>2. EpochAge(n) = r
    BY DEF EpochAge
  <1> HIDE DEF q, r
  <1>3. n - r = (EpochLength * q) + 0
    BY <1>1, EpochAssumption
  <1>4. EpochAge((EpochLength * q) + 0) = 0
    BY <1>1, AgeOf, EpochAssumption
  <1>5. ASSUME r = 0, n > 0 PROVE n >= EpochLength
    <2>1. q >= 1
      BY <1>1, <1>5, EpochAssumption
    <2> QED BY <1>1, <1>5, <2>1, EpochAssumption
  <1> QED BY <1>2, <1>3, <1>4, <1>5

-----------------------------------------------------------------------------
(* The vote. *)

\* A nonempty set of integers below a bound has a greatest member, which Max gives.
LEMMA MaxOf ==
    ASSUME NEW S \in SUBSET Int, S # {}, NEW b \in Int, \A s \in S : s <= b
    PROVE  Max(S) \in S /\ \A s \in S : s <= Max(S)
  <1> DEFINE D == {d \in Nat : b - d \in S}
             Less == {ss \in Nat \X Nat : ss[1] < ss[2]}
  <1>1. Less = OpToRel(<, Nat)
    BY Zenon DEF OpToRel
  <1>2. IsWellFoundedOn(Less, Nat)
    BY <1>1, NatLessThanWellFounded, Zenon
  <1>3. D \subseteq Nat /\ D # {}
    <2>1. PICK s \in S : TRUE
      BY Zenon
    <2>2. b - s \in Nat /\ b - (b - s) = s
      BY <2>1
    <2> QED BY <2>1, <2>2, Zenon
  <1> HIDE DEF Less
  <1>4. PICK n \in D : \A k \in D : ~ (<<k, n>> \in Less)
    BY <1>2, <1>3, WFMin, Zenon
  <1>5. ASSUME NEW s \in S PROVE s <= b - n
    <2>1. b - s \in D /\ n \in Nat
      BY <1>4
    <2>2. b - s \in Nat
      BY <2>1
    <2>3. ~ (<<b - s, n>> \in Less)
      BY <1>4, <2>1
    <2>4. ~ (b - s < n)
      BY <2>1, <2>2, <2>3, Zenon DEF Less
    <2> QED BY <2>1, <2>2, <2>4
  <1>6. b - n \in S
    BY <1>4
  <1>7. \E x \in S : \A y \in S : x >= y
    BY <1>5, <1>6
  <1>8. Max(S) \in S /\ \A y \in S : Max(S) >= y
    BY <1>7, Zenon DEF Max
  <1> QED BY <1>8

\* The votes of an epoch are counted in a finite set.
LEMMA VotesFinite ==
    ASSUME NEW c, NEW height \in Nat, NEW p
    PROVE  IsFiniteSet(VotesFor(c, height, p))
  <1>1. IsFiniteSet((height - EpochLength)..(height - 1))
    BY FS_Interval, EpochAssumption
  <1> QED BY <1>1, FS_Subset, Zenon DEF VotesFor

\* NextBlockIsParameterTransition finds an elected entry when there is one, whatever
\* the order of the votes.
LEMMA WinnerElected ==
    ASSUME NEW c \in Seq(Header), c # <<>>
    PROVE  IF Elected(c, Len(c)) = {} THEN NextBlockIsParameterTransition(c) = NoParam
           ELSE NextBlockIsParameterTransition(c) \in Elected(c, Len(c))
  <1> DEFINE n == Len(c)
             prop(k) == GetAncestor(c, k).proposed
             epoch == (n - EpochLength)..(n - 1)
  <1>1. n \in Nat /\ n > 0 /\ TipHeight(c) = n - 1 /\ NextHeight(c) = n
    BY DEF TipHeight, NextHeight
  <1>2. CASE EpochAge(n) # 0
    BY <1>1, <1>2 DEF Elected, NextBlockIsParameterTransition
  <1>3. CASE EpochAge(n) = 0
    <2>1. n >= EpochLength /\ epoch \subseteq 0..(n - 1)
      BY <1>1, <1>3, AgeStart, EpochAssumption
    <2>2. \A k \in epoch : prop(k) \in Param \cup {NoParam}
      <3>1. \A k \in 0..(n - 1) : c[k + 1] \in Header
        BY <1>1
      <3> QED BY <2>1, <3>1 DEF GetAncestor, Header
    <2>3. ASSUME NEW k \in Reached(c)
          PROVE  prop(k) \in Elected(c, n)
      <3>1. k \in epoch /\ prop(k) # NoParam /\ Tally(c, k) >= Threshold
        BY <1>1, <2>3 DEF Reached
      <3>2. prop(k) \in Param
        BY <2>2, <3>1
      <3> DEFINE counted == {j \in k..(n - 1) : prop(j) = prop(k)}
      <3>3. Tally(c, k) = Cardinality(counted)
        BY <1>1 DEF Tally
      <3>4. k \in VotesFor(c, n, prop(k)) /\ counted \subseteq VotesFor(c, n, prop(k))
        BY <1>1, <3>1, EpochAssumption DEF VotesFor
      <3>5. Cardinality(counted) <= Cardinality(VotesFor(c, n, prop(k)))
        BY <1>1, <3>4, VotesFinite, FS_Subset
      <3>6. Cardinality(counted) \in Nat /\ Cardinality(VotesFor(c, n, prop(k))) \in Nat
        BY <1>1, <3>4, VotesFinite, FS_Subset, FS_CardinalityType
      <3>7. Threshold \in Int
        BY EpochAssumption DEF Threshold
      <3>8. Cardinality(VotesFor(c, n, prop(k))) >= Threshold
        BY <3>1, <3>3, <3>5, <3>6, <3>7
      <3> QED BY <1>3, <3>2, <3>4, <3>8 DEF Elected
    <2>4. ASSUME NEW p \in Elected(c, n)
          PROVE  Reached(c) # {}
      <3> DEFINE votes == VotesFor(c, n, p)
      <3>1. p \in Param /\ votes # {} /\ Cardinality(votes) >= Threshold
        BY <2>4 DEF Elected
      <3>2. votes \subseteq epoch /\ \A k \in votes : prop(k) = p
        BY DEF VotesFor
      <3> DEFINE gaps == {n - 1 - k : k \in votes}
      <3>3. gaps \in SUBSET Int /\ gaps # {} /\ \A g \in gaps : g <= EpochLength
        BY <1>1, <3>1, <3>2, EpochAssumption
      <3>4. Max(gaps) \in gaps /\ \A g \in gaps : g <= Max(gaps)
        <4>1. EpochLength \in Int
          BY EpochAssumption
        <4> HIDE DEF gaps
        <4> QED BY <3>3, <4>1, MaxOf, Zenon
      <3> HIDE DEF votes
      <3>5. PICK k \in votes : Max(gaps) = n - 1 - k
        BY <3>4, Zenon
      <3>6. ASSUME NEW j \in votes PROVE k <= j
        <4>1. k \in Int /\ j \in Int
          BY <1>1, <3>2, <3>5, EpochAssumption
        <4>2. n - 1 - j <= Max(gaps)
          BY <3>4
        <4> QED BY <1>1, <3>5, <4>1, <4>2
      <3>7. votes = {j \in k..(n - 1) : prop(j) = prop(k)}
        <4>1. k \in epoch /\ prop(k) = p
          BY <3>2, <3>5
        <4>2. ASSUME NEW j \in votes PROVE j \in k..(n - 1) /\ prop(j) = prop(k)
          BY <1>1, <3>2, <3>6, <4>1, EpochAssumption
        <4>3. ASSUME NEW j \in k..(n - 1), prop(j) = prop(k) PROVE j \in votes
          <5>1. j \in epoch
            BY <1>1, <4>1, EpochAssumption
          <5> QED BY <4>1, <4>3, <5>1 DEF votes, VotesFor
        <4> QED BY <4>2, <4>3
      <3>8. Tally(c, k) >= Threshold
        BY <1>1, <3>1, <3>7 DEF Tally
      <3>9. k \in epoch /\ prop(k) # NoParam
        BY <3>1, <3>2, <3>5, ParamAssumption
      <3> QED BY <1>1, <3>8, <3>9 DEF Reached
    <2>5. CASE Reached(c) = {}
      <3>1. NextBlockIsParameterTransition(c) = NoParam
        BY <2>5 DEF NextBlockIsParameterTransition
      <3> QED BY <2>4, <2>5, <3>1
    <2>6. CASE Reached(c) # {}
      <3>1. Reached(c) \in SUBSET Int /\ \A k \in Reached(c) : k <= n - 1
        BY <1>1, EpochAssumption DEF Reached
      <3>2. Max(Reached(c)) \in Reached(c)
        <4>1. n - 1 \in Int
          BY <1>1
        <4> QED BY <2>6, <3>1, <4>1, MaxOf, ZenonT(40)
      <3>3. NextBlockIsParameterTransition(c) = prop(Max(Reached(c)))
        BY <1>1, <1>3, <2>6 DEF NextBlockIsParameterTransition
      <3> QED BY <2>3, <3>2, <3>3
    <2> QED BY <2>5, <2>6
  <1> QED BY <1>2, <1>3

-----------------------------------------------------------------------------
(* Chains. *)

\* The headers of a chain with one more on top.
LEMMA Extended ==
    ASSUME NEW c \in Seq(Header), NEW h \in Header
    PROVE  /\ Append(c, h) \in Seq(Header) /\ Len(Append(c, h)) = Len(c) + 1
           /\ GetAncestor(Append(c, h), Len(c)) = h
           /\ \A k \in 0..(Len(c) - 1) : /\ GetAncestor(Append(c, h), k) = GetAncestor(c, k)
                                         /\ ParametersAt(Append(c, h), k) = ParametersAt(c, k)
  <1>1. Len(c) \in Nat
    OBVIOUS
  <1>2. Append(c, h) \in Seq(Header) /\ Len(Append(c, h)) = Len(c) + 1
        /\ GetAncestor(Append(c, h), Len(c)) = h
    BY <1>1 DEF GetAncestor
  <1>3. \A k \in 0..(Len(c) - 1) : GetAncestor(Append(c, h), k) = GetAncestor(c, k)
    BY <1>1 DEF GetAncestor
  <1> QED BY <1>2, <1>3 DEF ParametersAt

\* A chain without its tip.
LEMMA Shortened ==
    ASSUME NEW c \in Seq(Header), Len(c) > 1, NEW d, d = SubSeq(c, 1, Len(c) - 1)
    PROVE  /\ d \in Seq(Header) /\ Len(d) = Len(c) - 1 /\ d # <<>>
           /\ \A k \in 0..(Len(c) - 2) : /\ GetAncestor(d, k) = GetAncestor(c, k)
                                         /\ ParametersAt(d, k) = ParametersAt(c, k)
  <1>1. Len(c) \in Nat /\ Len(c) > 1
    OBVIOUS
  <1>a. \A i \in 1..(Len(c) - 1) : c[i] \in Header
    BY <1>1
  <1>b. d = [i \in 1..(Len(c) - 1) |-> c[i]]
    BY <1>1
  <1>2. d \in Seq(Header) /\ Len(d) = Len(c) - 1 /\ d # <<>>
    <2>1. d \in Seq(Header)
      BY <1>1, <1>a, <1>b
    <2>2. Len(d) = Len(c) - 1
      BY <1>1
    <2>3. Len(c) - 1 # 0 /\ Len(<<>>) = 0
      BY <1>1
    <2> QED BY <2>1, <2>2, <2>3, Zenon
  <1>3. \A k \in 0..(Len(c) - 2) : GetAncestor(d, k) = GetAncestor(c, k)
    BY <1>1 DEF GetAncestor
  <1> QED BY <1>2, <1>3 DEF ParametersAt

\* Who is elected for a height depends on the blocks below it.
LEMMA ElectedBelow ==
    ASSUME NEW c, NEW d, NEW height \in Nat, height > 0,
           \A k \in 0..(height - 1) : GetAncestor(d, k) = GetAncestor(c, k)
    PROVE  Elected(d, height) = Elected(c, height)
  <1>1. CASE EpochAge(height) # 0
    BY <1>1 DEF Elected
  <1>2. CASE EpochAge(height) = 0
    <2>1. \A k \in (height - EpochLength)..(height - 1) : GetAncestor(d, k) = GetAncestor(c, k)
      BY <1>2, AgeStart, EpochAssumption
    <2>2. \A p : VotesFor(d, height, p) = VotesFor(c, height, p)
      BY <2>1 DEF VotesFor
    <2> QED BY <2>2 DEF Elected
  <1> QED BY <1>1, <1>2

\* The parts of ChainOK at one height.
LEMMA AtHeight ==
    ASSUME NEW c, ChainOK(c)
    PROVE  /\ c \in Seq(Header) /\ Len(c) \in Nat /\ Len(c) > 0
           /\ TipHeight(c) = Len(c) - 1 /\ NextHeight(c) = Len(c)
           /\ \A k \in 0..(Len(c) - 1) :
                /\ GetAncestor(c, k) \in Header
                /\ ParametersAt(c, k) \in Param
                /\ (GetAncestor(c, k).current = NoParam) <=> (k < Activation)
                /\ k < Activation => ParametersAt(c, k) = GenesisParam
                /\ k < Activation => GetAncestor(c, k).proposed = NoParam
                /\ (EpochAge(k) = 0 \/ k = Activation) => FullParameters(GetAncestor(c, k)) = ParametersAt(c, k)
                /\ ParametersAt(c, k) = ParametersAt(c, k - EpochAge(k))
  <1>1. /\ c \in Seq(Header) /\ Len(c) \in Nat /\ Len(c) > 0
        /\ TipHeight(c) = Len(c) - 1 /\ NextHeight(c) = Len(c)
        /\ GetAncestor(c, 0) = NullHeader
    BY DEF ChainOK, TipHeight, NextHeight
  <1> SUFFICES ASSUME NEW k \in 0..(Len(c) - 1)
               PROVE  /\ GetAncestor(c, k) \in Header
                      /\ ParametersAt(c, k) \in Param
                      /\ (GetAncestor(c, k).current = NoParam) <=> (k < Activation)
                      /\ k < Activation => ParametersAt(c, k) = GenesisParam
                      /\ k < Activation => GetAncestor(c, k).proposed = NoParam
                      /\ (EpochAge(k) = 0 \/ k = Activation) =>
                            FullParameters(GetAncestor(c, k)) = ParametersAt(c, k)
                      /\ ParametersAt(c, k) = ParametersAt(c, k - EpochAge(k))
    BY <1>1
  <1>2. GetAncestor(c, k) \in Header
    BY <1>1 DEF GetAncestor
  <1>3. ParametersAt(c, k) \in Param
    BY <1>2, ParamAssumption DEF ParametersAt, Header
  <1>4. CASE k = 0
    <2>1. EpochAge(0) = 0
      BY AgeType, EpochAssumption
    <2>2. GetAncestor(c, 0).current = NoParam /\ GetAncestor(c, 0).proposed = NoParam
      BY <1>1 DEF NullHeader
    <2> QED BY <1>2, <1>3, <1>4, <2>1, <2>2, ActivationAssumption DEF ParametersAt, FullParameters
  <1>5. CASE k # 0
    <2>1. k \in 1..TipHeight(c)
      BY <1>1, <1>5
    <2>2. /\ (GetAncestor(c, k).current = NoParam) <=> (k < Activation)
          /\ (GetAncestor(c, k).current = NoParam) => (GetAncestor(c, k).proposed = NoParam)
          /\ (EpochAge(k) = 0 \/ k = Activation) => GetAncestor(c, k).full \/ GetAncestor(c, k).current = NoParam
          /\ ParametersAt(c, k) = ParametersAt(c, k - EpochAge(k))
      BY <2>1 DEF ChainOK
    <2> QED BY <1>2, <1>3, <2>2 DEF ParametersAt, FullParameters
  <1> QED BY <1>4, <1>5

\* A height decides a majority only at the start of an epoch, and there only
\* among the proposals of blocks that carry an entry.
LEMMA NoVotesBeforeActivation ==
    ASSUME NEW c, ChainOK(c), NEW height \in 1..Len(c), height <= Activation
    PROVE  Elected(c, height) = {}
  <1> SUFFICES ASSUME NEW p \in Param, EpochAge(height) = 0, VotesFor(c, height, p) # {}
               PROVE  FALSE
    BY DEF Elected
  <1>1. PICK k \in (height - EpochLength)..(height - 1) : GetAncestor(c, k).proposed = p
    BY DEF VotesFor
  <1>2. Len(c) \in Nat /\ height >= EpochLength
    BY AtHeight, AgeStart, EpochAssumption
  <1>3. k \in 0..(Len(c) - 1) /\ k < Activation
    BY <1>1, <1>2, EpochAssumption, ActivationAssumption
  <1>4. GetAncestor(c, k).proposed = NoParam
    BY <1>3, AtHeight
  <1> QED BY <1>1, <1>4, ParamAssumption

\* ComputeNextBlockFullCurrentParameters finds what the votes decide.
LEMMA NextParams ==
    ASSUME NEW c, ChainOK(c)
    PROVE  /\ ComputeNextBlockFullCurrentParameters(c) \in Param
           /\ IF Elected(c, Len(c)) = {}
              THEN ComputeNextBlockFullCurrentParameters(c) = ParametersAt(c, Len(c) - 1)
              ELSE ComputeNextBlockFullCurrentParameters(c) \in Elected(c, Len(c))
           /\ EpochAge(Len(c)) # 0 =>
                 ComputeNextBlockFullCurrentParameters(c) = ParametersAt(c, Len(c) - EpochAge(Len(c)))
  <1> DEFINE n == Len(c)
             age == EpochAge(n)
             start == IF age = 0 THEN n - EpochLength ELSE n - age
             p == ComputeNextBlockFullCurrentParameters(c)
  <1>1. n \in Nat /\ n > 0 /\ NextHeight(c) = n /\ c \in Seq(Header) /\ c # <<>>
    BY AtHeight DEF ChainOK
  <1>2. age \in 0..(EpochLength - 1) /\ EpochLength \in Nat /\ EpochLength > 0
    BY <1>1, AgeType, EpochAssumption
  <1>3. age = 0 => n >= EpochLength
    BY <1>1, AgeStart
  <1>4. CASE NextBlockIsParameterTransition(c) # NoParam
    <2>1. p = NextBlockIsParameterTransition(c)
      BY <1>4 DEF ComputeNextBlockFullCurrentParameters
    <2>2. p \in Elected(c, n)
      BY <1>1, <1>4, <2>1, WinnerElected
    <2>3. p \in Param /\ Elected(c, n) # {} /\ age = 0
      BY <2>2 DEF Elected
    <2> QED BY <2>2, <2>3
  <1>5. CASE NextBlockIsParameterTransition(c) = NoParam
    <2>1. Elected(c, n) = {}
      BY <1>1, <1>5, WinnerElected, ParamAssumption DEF Elected
    <2>2. n - 1 \in Nat /\ (n - 1) + 1 = n
      BY <1>1
    <2>3. age = (IF EpochAge(n - 1) = EpochLength - 1 THEN 0 ELSE EpochAge(n - 1) + 1)
          /\ EpochAge(n - 1) \in 0..(EpochLength - 1) /\ EpochAge(n - 1) <= n - 1
      <3>1. EpochAge((n - 1) + 1) = IF EpochAge(n - 1) = EpochLength - 1 THEN 0 ELSE EpochAge(n - 1) + 1
        BY <2>2, AgeNext
      <3> QED BY <2>2, <3>1, AgeType
    <2>4. (n - 1) - EpochAge(n - 1) = start
      BY <1>1, <1>2, <2>3
    <2>a. start \in 0..(n - 1)
      BY <2>2, <2>3, <2>4
    <2>b. EpochAge((n - 1) - EpochAge(n - 1)) = 0
      BY <2>2, AgeStart
    <2>5. ParametersAt(c, n - 1) = ParametersAt(c, start) /\ ParametersAt(c, start) \in Param
      BY <1>1, <2>4, <2>a, AtHeight
    <2>6. p = FullParameters(GetAncestor(c, EpochStart(c)))
      BY <1>5 DEF ComputeNextBlockFullCurrentParameters
    <2>7. FullParameters(GetAncestor(c, EpochStart(c))) = ParametersAt(c, start)
      <3>1. CASE start = 0 /\ n > 1 /\ Activation = 1
        <4>1. EpochStart(c) = 1
          BY <1>1, <3>1 DEF EpochStart
        <4>2. FullParameters(GetAncestor(c, 1)) = ParametersAt(c, 1)
          BY <1>1, <3>1, AtHeight
        <4>3. EpochLength > 1 /\ EpochAge(1) = 1
          <5>1. EpochLength > 1
            BY <1>1, <1>2, <3>1
          <5> QED BY <1>2, <5>1 DEF EpochAge
        <4>4. ParametersAt(c, 1) = ParametersAt(c, 0)
          BY <1>1, <3>1, <4>3, AtHeight
        <4> QED BY <3>1, <4>1, <4>2, <4>4
      <3>2. CASE ~(start = 0 /\ n > 1 /\ Activation = 1)
        <4>1. EpochStart(c) = start
          BY <1>1, <3>2 DEF EpochStart
        <4> QED BY <1>1, <2>4, <2>a, <2>b, <4>1, AtHeight
      <3> QED BY <3>1, <3>2
    <2>8. age # 0 => start = n - age
      OBVIOUS
    <2> QED BY <2>1, <2>5, <2>6, <2>7, <2>8
  <1> QED BY <1>4, <1>5

-----------------------------------------------------------------------------
(* ChainOK is inductive. *)

\* What ChainOK asks of one height.
HeightOK(c, height) ==
    /\ (GetAncestor(c, height).current = NoParam) <=> (height < Activation)
    /\ (GetAncestor(c, height).current = NoParam) => (GetAncestor(c, height).proposed = NoParam)
    /\ (EpochAge(height) = 0 \/ height = Activation) =>
          GetAncestor(c, height).full \/ GetAncestor(c, height).current = NoParam
    /\ ParametersAt(c, height) = ParametersAt(c, height - EpochAge(height))
    /\ IF Elected(c, height) = {} THEN ParametersAt(c, height) = ParametersAt(c, height - 1)
       ELSE ParametersAt(c, height) \in Elected(c, height)

\* ChainOK is HeightOK at every height above the genesis block.
LEMMA ChainOKByHeight ==
    ASSUME NEW c
    PROVE  ChainOK(c) <=> /\ c \in Seq(Header) /\ c # <<>> /\ GetAncestor(c, 0) = NullHeader
                          /\ \A height \in 1..TipHeight(c) : HeightOK(c, height)
  BY DEF ChainOK, VotesDecide, HeightOK

\* What ChainOK asks of a height depends on the blocks up to it.
LEMMA HeightOKBelow ==
    ASSUME NEW c, NEW d, NEW height \in Nat, height > 0,
           \A k \in 0..height : /\ GetAncestor(d, k) = GetAncestor(c, k)
                                /\ ParametersAt(d, k) = ParametersAt(c, k),
           HeightOK(c, height)
    PROVE  HeightOK(d, height)
  <1>1. EpochAge(height) \in Nat /\ EpochAge(height) <= height
    BY AgeType, EpochAssumption
  <1>2. /\ GetAncestor(d, height) = GetAncestor(c, height)
        /\ ParametersAt(d, height) = ParametersAt(c, height)
        /\ ParametersAt(d, height - 1) = ParametersAt(c, height - 1)
        /\ ParametersAt(d, height - EpochAge(height)) = ParametersAt(c, height - EpochAge(height))
    BY <1>1
  <1>3. Elected(d, height) = Elected(c, height)
    <2>1. \A k \in 0..(height - 1) : GetAncestor(d, k) = GetAncestor(c, k)
      OBVIOUS
    <2> QED BY <2>1, ElectedBelow
  <1> QED BY <1>2, <1>3 DEF HeightOK

\* Disconnecting the tip keeps the chain in order.
LEMMA Shorten ==
    ASSUME NEW c, ChainOK(c), TipHeight(c) > 0, NEW d, d = SubSeq(c, 1, Len(c) - 1)
    PROVE  ChainOK(d)
  <1>1. c \in Seq(Header) /\ Len(c) \in Nat /\ Len(c) > 1 /\ TipHeight(c) = Len(c) - 1
    BY AtHeight
  <1>2. /\ d \in Seq(Header) /\ Len(d) = Len(c) - 1 /\ d # <<>>
        /\ \A k \in 0..(Len(c) - 2) : /\ GetAncestor(d, k) = GetAncestor(c, k)
                                      /\ ParametersAt(d, k) = ParametersAt(c, k)
    BY <1>1, Shortened, ZenonT(40)
  <1>3. GetAncestor(d, 0) = NullHeader
    BY <1>1, <1>2, ChainOKByHeight
  <1>4. ASSUME NEW height \in 1..TipHeight(d) PROVE HeightOK(d, height)
    <2>1. height \in Nat /\ height > 0 /\ height \in 1..TipHeight(c) /\ height <= Len(c) - 2
      BY <1>1, <1>2 DEF TipHeight
    <2>2. HeightOK(c, height)
      BY <2>1, ChainOKByHeight
    <2>3. \A k \in 0..height : /\ GetAncestor(d, k) = GetAncestor(c, k)
                               /\ ParametersAt(d, k) = ParametersAt(c, k)
      BY <1>1, <1>2, <2>1
    <2> QED BY <2>1, <2>2, <2>3, HeightOKBelow
  <1> QED BY <1>2, <1>3, <1>4, ChainOKByHeight, Zenon

\* The header of a valid block keeps the chain in order.
LEMMA Extend ==
    ASSUME NEW c, ChainOK(c), NEW v \in Param \cup {NoParam}
    PROVE  /\ ComputeNextBlockHeader(c, v) \in Header
           /\ ChainOK(Append(c, ComputeNextBlockHeader(c, v)))
           /\ ParametersAt(Append(c, ComputeNextBlockHeader(c, v)), Len(c)) = ComputeNextBlockFullCurrentParameters(c)
  <1> DEFINE n == Len(c)
             p == ComputeNextBlockFullCurrentParameters(c)
             h == ComputeNextBlockHeader(c, v)
             d == Append(c, h)
  <1>1. c \in Seq(Header) /\ n \in Nat /\ n > 0 /\ TipHeight(c) = n - 1 /\ NextHeight(c) = n /\ n - 1 \in 0..(n - 1)
    BY AtHeight
  <1>2. /\ p \in Param
        /\ IF Elected(c, n) = {} THEN p = ParametersAt(c, n - 1) ELSE p \in Elected(c, n)
        /\ EpochAge(n) # 0 => p = ParametersAt(c, n - EpochAge(n))
    BY NextParams
  <1>3. h \in Header
    BY <1>2, ParamAssumption DEF ComputeNextBlockHeader, Header, NullHeader
  <1>4. EpochAge(n) \in Nat /\ EpochAge(n) <= n
    BY <1>1, AgeType, EpochAssumption
  <1> HIDE DEF h
  <1>5. /\ d \in Seq(Header) /\ Len(d) = n + 1 /\ GetAncestor(d, n) = h
        /\ \A k \in 0..(n - 1) : /\ GetAncestor(d, k) = GetAncestor(c, k)
                                 /\ ParametersAt(d, k) = ParametersAt(c, k)
    BY <1>1, <1>3, Extended
  <1> HIDE DEF d
  <1>6. d # <<>> /\ TipHeight(d) = n /\ GetAncestor(d, 0) = NullHeader
    <2>1. GetAncestor(c, 0) = NullHeader
      BY ChainOKByHeight
    <2>2. d # <<>> /\ TipHeight(d) = n
      BY <1>1, <1>5 DEF TipHeight
    <2> QED BY <1>1, <1>5, <2>1, <2>2
  <1>7. Elected(d, n) = Elected(c, n)
    BY <1>1, <1>5, ElectedBelow
  <1>8. ParametersAt(d, n) = p
    <2>1. CASE n < Activation
      <3>1. h = NullHeader
        BY <1>1, <2>1 DEF h, ComputeNextBlockHeader
      <3>2. ParametersAt(d, n) = GenesisParam
        BY <1>5, <3>1 DEF ParametersAt, NullHeader
      <3>3. Elected(c, n) = {}
        BY <1>1, <2>1, NoVotesBeforeActivation, ActivationAssumption
      <3>4. ParametersAt(c, n - 1) = GenesisParam
        <4>1. n - 1 \in 0..(n - 1) /\ n - 1 < Activation
          BY <1>1, <2>1, ActivationAssumption
        <4> QED BY <4>1, AtHeight
      <3> QED BY <1>2, <3>2, <3>3, <3>4
    <2>2. CASE ~(n < Activation)
      <3>1. h.current = p
        BY <1>1, <2>2 DEF h, ComputeNextBlockHeader
      <3> QED BY <1>2, <1>5, <3>1, ParamAssumption DEF ParametersAt
    <2> QED BY <2>1, <2>2
  <1>9. HeightOK(d, n)
    <2>1. /\ (h.current = NoParam) <=> (n < Activation)
          /\ (h.current = NoParam) => (h.proposed = NoParam)
      BY <1>1, <1>2, ParamAssumption DEF h, ComputeNextBlockHeader, NullHeader
    <2>2. (EpochAge(n) = 0 \/ n = Activation) => h.full \/ h.current = NoParam
      <3>1. CASE n < Activation
        BY <2>1, <3>1
      <3>2. CASE ~(n < Activation) /\ EpochAge(n) = 0
        BY <1>1, <3>2 DEF h, ComputeNextBlockHeader
      <3>3. CASE n = Activation
        <4>1. GetAncestor(c, n - 1).current = NoParam
          BY <1>1, <3>3, AtHeight, ActivationAssumption
        <4> QED BY <1>1, <3>3, <4>1, ActivationAssumption DEF h, ComputeNextBlockHeader
      <3> QED BY <3>1, <3>2, <3>3
    <2>3. ParametersAt(d, n) = ParametersAt(d, n - EpochAge(n))
      <3>1. CASE EpochAge(n) = 0
        BY <1>1, <3>1
      <3>2. CASE EpochAge(n) # 0
        BY <1>1, <1>2, <1>4, <1>5, <1>8, <3>2
      <3> QED BY <3>1, <3>2
    <2>4. ParametersAt(d, n - 1) = ParametersAt(c, n - 1)
      BY <1>1, <1>5
    <2> QED BY <1>2, <1>5, <1>7, <1>8, <2>1, <2>2, <2>3, <2>4 DEF HeightOK
  <1>10. ASSUME NEW height \in 1..TipHeight(d), height # n PROVE HeightOK(d, height)
    <2>1. height \in Nat /\ height > 0 /\ height \in 1..TipHeight(c) /\ height <= n - 1
      BY <1>1, <1>6, <1>10
    <2>2. HeightOK(c, height)
      BY <2>1, ChainOKByHeight
    <2>3. \A k \in 0..height : /\ GetAncestor(d, k) = GetAncestor(c, k)
                               /\ ParametersAt(d, k) = ParametersAt(c, k)
      BY <1>1, <1>5, <2>1
    <2> QED BY <2>1, <2>2, <2>3, HeightOKBelow
  <1>11. ChainOK(d)
    BY <1>5, <1>6, <1>9, <1>10, ChainOKByHeight
  <1> QED BY <1>3, <1>8, <1>11 DEF d, h

-----------------------------------------------------------------------------
(* The rules of the next block. *)

\* The scripts of the epochs that start at `start' and below.
Walked(c, start, count) ==
    {FullParameters(GetAncestor(c, start - i * EpochLength)) :
        i \in {j \in 0..(count - 1) : j * EpochLength <= start}}

\* GetValidFedpegScripts walks down the epoch starts.
LEMMA ScriptsWalked ==
    ASSUME NEW c
    PROVE  /\ GetValidFedpegScripts(c, FALSE) = Walked(c, TipHeight(c) - EpochAge(TipHeight(c)), TotalValidEpochs)
           /\ EpochAge(TipHeight(c)) # EpochLength - 1 =>
                GetValidFedpegScripts(c, TRUE) = GetValidFedpegScripts(c, FALSE)
           /\ EpochAge(TipHeight(c)) = EpochLength - 1 =>
                GetValidFedpegScripts(c, TRUE) =
                  Walked(c, TipHeight(c) - EpochAge(TipHeight(c)), TotalValidEpochs - 1)
                    \cup {ComputeNextBlockFullCurrentParameters(c)}
  BY DEF GetValidFedpegScripts, Walked

\* A walk sees the blocks below its start alone.
LEMMA WalkedBelow ==
    ASSUME NEW c, NEW d, NEW start \in Nat, NEW count \in Nat,
           \A k \in 0..start : GetAncestor(d, k) = GetAncestor(c, k)
    PROVE  Walked(d, start, count) = Walked(c, start, count)
  <1>1. \A i \in {j \in 0..(count - 1) : j * EpochLength <= start} : start - i * EpochLength \in 0..start
    BY EpochAssumption
  <1>2. \A i \in {j \in 0..(count - 1) : j * EpochLength <= start} :
            GetAncestor(d, start - i * EpochLength) = GetAncestor(c, start - i * EpochLength)
    BY <1>1
  <1> QED BY <1>2 DEF Walked

\* A walk takes its first epoch and goes on one epoch below.
LEMMA WalkedFrom ==
    ASSUME NEW c, NEW start \in Nat, start >= EpochLength
    PROVE  Walked(c, start, TotalValidEpochs) =
             Walked(c, start - EpochLength, TotalValidEpochs - 1) \cup {FullParameters(GetAncestor(c, start))}
  <1> DEFINE E == EpochLength
             T == TotalValidEpochs
             at(k) == FullParameters(GetAncestor(c, k))
             I == {j \in 0..(T - 1) : j * E <= start}
             J == {j \in 0..(T - 2) : j * E <= start - E}
  <1>1. E \in Nat /\ E > 0 /\ T \in Nat /\ T > 0
    BY EpochAssumption
  <1>2. Walked(c, start, T) = {at(start - i * E) : i \in I}
    BY DEF Walked
  <1>3. Walked(c, start - E, T - 1) = {at((start - E) - i * E) : i \in J}
    <2>1. (T - 1) - 1 = T - 2
      BY <1>1
    <2> QED BY <2>1 DEF Walked
  <1>4. 0 \in I /\ start - 0 * E = start
    BY <1>1
  <1>5. \A i \in I : i = 0 \/ (i - 1 \in J /\ (start - E) - (i - 1) * E = start - i * E)
    BY <1>1
  <1>6. \A j \in J : j + 1 \in I /\ start - (j + 1) * E = (start - E) - j * E
    BY <1>1
  <1> HIDE DEF at, I, J, E
  <1>7. {at(start - i * E) : i \in I} \subseteq {at((start - E) - i * E) : i \in J} \cup {at(start)}
    <2> SUFFICES ASSUME NEW i \in I
                 PROVE  at(start - i * E) \in {at((start - E) - j * E) : j \in J} \cup {at(start)}
      OBVIOUS
    <2>1. CASE i = 0
      BY <1>4, <2>1
    <2>2. CASE i # 0
      BY <1>5, <2>2
    <2> QED BY <2>1, <2>2
  <1>8. {at((start - E) - i * E) : i \in J} \cup {at(start)} \subseteq {at(start - i * E) : i \in I}
    <2>1. at(start) \in {at(start - i * E) : i \in I}
      BY <1>4
    <2>2. \A j \in J : at((start - E) - j * E) \in {at(start - i * E) : i \in I}
      BY <1>6
    <2> QED BY <2>1, <2>2
  <1>9. Walked(c, start, T) = Walked(c, start - E, T - 1) \cup {at(start)}
    BY <1>2, <1>3, <1>7, <1>8
  <1> QED BY <1>9 DEF at, E

\* The rules before a block for the next block are those after it for the block itself, and
\* for the block after it within an epoch.
LEMMA RulesAgree ==
    ASSUME NEW c, ChainOK(c), NEW v \in Param \cup {NoParam}, NEW d,
           d = Append(c, ComputeNextBlockHeader(c, v))
    PROVE  /\ GetValidFedpegScripts(d, FALSE) = GetValidFedpegScripts(c, TRUE)
           /\ EpochAge(NextHeight(d)) # 0 =>
                /\ GetValidFedpegScripts(d, TRUE) = GetValidFedpegScripts(c, TRUE)
                /\ GetActivePAKList(d) = GetActivePAKList(c)
  <1> DEFINE n == Len(c)
             p == ComputeNextBlockFullCurrentParameters(c)
  <1>1. c \in Seq(Header) /\ n \in Nat /\ n > 0 /\ TipHeight(c) = n - 1
    BY AtHeight
  <1>2. ChainOK(d) /\ ParametersAt(d, n) = p
    BY Extend
  <1>3. /\ Len(d) = n + 1
        /\ \A k \in 0..(n - 1) : GetAncestor(d, k) = GetAncestor(c, k)
    BY <1>1, Extend, Extended
  <1>4. TipHeight(d) = n /\ NextHeight(d) = n + 1
    BY <1>1, <1>3 DEF TipHeight, NextHeight
  <1>5. /\ EpochAge(n) = IF EpochAge(n - 1) = EpochLength - 1 THEN 0 ELSE EpochAge(n - 1) + 1
        /\ EpochAge(n + 1) = IF EpochAge(n) = EpochLength - 1 THEN 0 ELSE EpochAge(n) + 1
        /\ EpochAge(n - 1) \in 0..(EpochLength - 1) /\ EpochAge(n - 1) <= n - 1
        /\ EpochAge(n) \in 0..(EpochLength - 1) /\ EpochAge(n) <= n
    <2>1. n - 1 \in Nat /\ (n - 1) + 1 = n
      BY <1>1
    <2>2. EpochAge((n - 1) + 1) = IF EpochAge(n - 1) = EpochLength - 1 THEN 0 ELSE EpochAge(n - 1) + 1
      BY <2>1, AgeNext
    <2>3. EpochAge(n + 1) = IF EpochAge(n) = EpochLength - 1 THEN 0 ELSE EpochAge(n) + 1
      BY <1>1, AgeNext
    <2> QED BY <1>1, <2>1, <2>2, <2>3, AgeType
  <1>6. GetValidFedpegScripts(d, FALSE) = Walked(d, n - EpochAge(n), TotalValidEpochs)
    BY <1>4, ScriptsWalked, Zenon
  <1>7. GetValidFedpegScripts(d, FALSE) = GetValidFedpegScripts(c, TRUE)
    <2>1. CASE EpochAge(n - 1) = EpochLength - 1
      <3>1. EpochAge(n) = 0 /\ n >= EpochLength /\ EpochLength \in Nat /\ EpochLength > 0
            /\ n - EpochLength \in Nat /\ TotalValidEpochs - 1 \in Nat
        BY <1>1, <1>5, <2>1, AgeStart, EpochAssumption
      <3>a. n - EpochAge(n) = n
        BY <1>1, <3>1
      <3>2. GetValidFedpegScripts(d, FALSE) = Walked(d, n, TotalValidEpochs)
        BY <1>6, <3>a, Zenon
      <3>3. Walked(d, n, TotalValidEpochs) =
              Walked(d, n - EpochLength, TotalValidEpochs - 1) \cup {FullParameters(GetAncestor(d, n))}
        BY <1>1, <3>1, WalkedFrom
      <3>4. FullParameters(GetAncestor(d, n)) = p
        <4>1. n \in 0..(Len(d) - 1)
          BY <1>1, <1>3
        <4> QED BY <1>2, <3>1, <4>1, AtHeight, ZenonT(40)
      <3>5. Walked(d, n - EpochLength, TotalValidEpochs - 1) = Walked(c, n - EpochLength, TotalValidEpochs - 1)
        <4>1. \A k \in 0..(n - EpochLength) : GetAncestor(d, k) = GetAncestor(c, k)
          BY <1>1, <1>3, <3>1
        <4> QED BY <3>1, <4>1, WalkedBelow
      <3>6. (n - 1) - EpochAge(n - 1) = n - EpochLength
        BY <1>1, <2>1, <3>1
      <3>7. GetValidFedpegScripts(c, TRUE) = Walked(c, n - EpochLength, TotalValidEpochs - 1) \cup {p}
        BY <1>1, <2>1, <3>6, ScriptsWalked, Zenon
      <3> QED BY <3>2, <3>3, <3>4, <3>5, <3>7, ZenonT(40)
    <2>2. CASE EpochAge(n - 1) # EpochLength - 1
      <3>1. n - EpochAge(n) = (n - 1) - EpochAge(n - 1) /\ n - EpochAge(n) \in 0..(n - 1)
        BY <1>1, <1>5, <2>2, EpochAssumption
      <3>2. GetValidFedpegScripts(c, TRUE) = Walked(c, n - EpochAge(n), TotalValidEpochs)
        BY <1>1, <2>2, <3>1, ScriptsWalked, Zenon
      <3>3. Walked(d, n - EpochAge(n), TotalValidEpochs) = Walked(c, n - EpochAge(n), TotalValidEpochs)
        <4>1. \A k \in 0..(n - EpochAge(n)) : GetAncestor(d, k) = GetAncestor(c, k)
          BY <1>1, <1>3, <3>1
        <4>2. n - EpochAge(n) \in Nat /\ TotalValidEpochs \in Nat
          BY <1>1, <3>1, EpochAssumption
        <4> QED BY <4>1, <4>2, WalkedBelow
      <3> QED BY <1>6, <3>2, <3>3, ZenonT(40)
    <2> QED BY <2>1, <2>2, Zenon
  <1>8. ASSUME EpochAge(NextHeight(d)) # 0
        PROVE  /\ GetValidFedpegScripts(d, TRUE) = GetValidFedpegScripts(c, TRUE)
               /\ GetActivePAKList(d) = GetActivePAKList(c)
    <2>1. EpochAge(n) # EpochLength - 1 /\ EpochAge(n + 1) = EpochAge(n) + 1
      BY <1>4, <1>5, <1>8
    <2>2. GetValidFedpegScripts(d, TRUE) = GetValidFedpegScripts(d, FALSE)
      BY <1>4, <1>6, <2>1, ScriptsWalked, Zenon
    <2>3. ComputeNextBlockFullCurrentParameters(d) = ParametersAt(d, (n + 1) - EpochAge(n + 1))
      BY <1>2, <1>3, <1>4, <1>8, NextParams, ZenonT(40)
    <2>4. (n + 1) - EpochAge(n + 1) = n - EpochAge(n)
      BY <1>1, <1>5, <2>1, EpochAssumption
    <2>5. ParametersAt(d, n) = ParametersAt(d, n - EpochAge(n))
      <3>1. n \in 0..(Len(d) - 1)
        BY <1>1, <1>3
      <3> QED BY <1>2, <3>1, AtHeight, Zenon
    <2> QED BY <1>2, <1>7, <2>2, <2>3, <2>4, <2>5, ZenonT(40) DEF GetActivePAKList
  <1> QED BY <1>7, <1>8, Zenon
=============================================================================
