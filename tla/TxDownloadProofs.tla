-------------------------- MODULE TxDownloadProofs --------------------------
(***************************************************************************)
(* Proofs about TxDownload for any peers, hashes and transactions: the      *)
(* request tracker stays sane under every interleaving of handlers and      *)
(* implements the contract in TxRequestSpec for every hash; the structures  *)
(* of the orphanage agree and no orphan that has become ready is lost; no   *)
(* announcement is kept of a transaction that is known.                     *)
(***************************************************************************)
EXTENDS TxDownload, FiniteSetTheorems, WellFoundedInduction, TLAPS

\* The provers, and their time, for a leaf that names none.
USE ZenonT(20), SMTT(40)

-----------------------------------------------------------------------------
(* Priorities.                                                              *)

\* A set of natural numbers has a least member.
LEMMA LeastNatural ==
    ASSUME NEW S \in SUBSET Nat, S # {}
    PROVE  \E n \in S : \A k \in S : n <= k
  <1> DEFINE Less == {ss \in Nat \X Nat : ss[1] < ss[2]}
  <1>1. Less = OpToRel(<, Nat)
    BY DEF OpToRel
  <1>2. IsWellFoundedOn(Less, Nat)
    BY <1>1, NatLessThanWellFounded
  <1> HIDE DEF Less
  <1>3. PICK n \in S : \A k \in S : ~ (<<k, n>> \in Less)
    BY <1>2, WFMin
  <1>4. ASSUME NEW k \in S PROVE n <= k
    <2>1. <<k, n>> \notin Less
      BY <1>3
    <2>2. k \in Nat /\ n \in Nat
      OBVIOUS
    <2>3. ~(k < n)
      BY <2>1, <2>2 DEF Less
    <2> QED BY <2>2, <2>3, SMTT(40)
  <1> QED BY <1>4

\* Priorities are bounded, as PriorityComputer returns 64 bits.
LEMMA PriorityType ==
    ASSUME NEW h \in TxHash, NEW p \in Peer
    PROVE  Priority(h, p) \in 0..(2 * SaltMax + 1)
  BY SaltsDiffer, SMTT(40) DEF Priority

\* No two peers have the same priority for a hash.
LEMMA PriorityInjective ==
    ASSUME NEW h \in TxHash, NEW p \in Peer, NEW q \in Peer, Priority(h, p) = Priority(h, q)
    PROVE  p = q
  BY SaltsDiffer, SMTT(40) DEF Priority

\* Among any peers one comes before all others.
LEMMA BestExists ==
    ASSUME NEW h \in TxHash, NEW T \in SUBSET Peer, T # {}
    PROVE  \E p \in T : \A q \in T \ {p} : Better(h, p, q)
  <1> DEFINE S == {2 * SaltMax + 1 - Priority(h, q) : q \in T}
  <1>1. S \in SUBSET Nat /\ S # {}
    BY PriorityType, SaltsDiffer, SMTT(40)
  <1>2. PICK n \in S : \A k \in S : n <= k
    BY <1>1, LeastNatural
  <1>3. PICK p \in T : n = 2 * SaltMax + 1 - Priority(h, p)
    BY <1>2
  <1>4. ASSUME NEW q \in T \ {p} PROVE Better(h, p, q)
    <2>1. 2 * SaltMax + 1 - Priority(h, p) <= 2 * SaltMax + 1 - Priority(h, q)
      BY <1>2, <1>3
    <2>2. Priority(h, p) # Priority(h, q)
      BY PriorityInjective
    <2>3. Priority(h, p) \in Nat /\ Priority(h, q) \in Nat /\ SaltMax \in Nat
      BY PriorityType, SaltsDiffer, SMTT(40)
    <2> HIDE DEF S
    <2> QED BY <2>1, <2>2, <2>3, SMTT(40) DEF Better
  <1> QED BY <1>4
\* Better is a strict total order.
LEMMA BetterOrder ==
    ASSUME NEW h \in TxHash
    PROVE  /\ \A p, q \in Peer : p # q /\ ~Better(h, p, q) => Better(h, q, p)
           /\ \A p, q, r \in Peer : Better(h, p, q) /\ Better(h, q, r) => Better(h, p, r)
           /\ \A p \in Peer : ~Better(h, p, p)
  <1>1. \A p \in Peer : Priority(h, p) \in Int
    BY PriorityType, SaltsDiffer, SMTT(40)
  <1>2. \A p, q \in Peer : Priority(h, p) = Priority(h, q) => p = q
    BY PriorityInjective
  <1> QED BY <1>1, <1>2, SMTT(40) DEF Better

-----------------------------------------------------------------------------
(* The operations on a row.                                                 *)

\* A row in a state the tracker can be in.
Good(h, row) == row \in Row /\ Sane(h, row)

\* The announcements of a row as TxRequestSpec sees them.
Abs(row) == [p \in Peer |-> Abstract(row[p])]

\* CANDIDATE_DELAYED to CANDIDATE_READY or CANDIDATE_BEST keeps a row sane
\* (PromoteCandidateReady).
LEMMA PromoteGood ==
    ASSUME NEW h \in TxHash, NEW row, Good(h, row), NEW p \in Peer, row[p] = "CANDIDATE_DELAYED"
    PROVE  /\ Good(h, PromoteCandidateReady(h, row, p))
           /\ Abs(PromoteCandidateReady(h, row, p)) = Abs(row)
  <1> DEFINE new == PromoteCandidateReady(h, row, p)
             first == /\ \A q \in In(row, {"CANDIDATE_READY"}) : Better(h, p, q)
                      /\ \A q \in In(row, IsSelected) : row[q] = "CANDIDATE_BEST" /\ Better(h, p, q)
  <1>0. row \in Row /\ Sane(h, row)
    BY DEF Good
  <1> USE DEF Row, State, NONE
  <1> SUFFICES Good(h, new) /\ Abs(new) = Abs(row)
    OBVIOUS
  <1>1. CASE first
    <2>1. new = [q \in Peer |-> IF q = p THEN "CANDIDATE_BEST"
                                ELSE IF row[q] = "CANDIDATE_BEST" THEN "CANDIDATE_READY" ELSE row[q]]
      BY <1>1 DEF PromoteCandidateReady
    <2> HIDE DEF new
    <2>2. new \in Row /\ Abs(new) = Abs(row)
      BY <1>0, <2>1 DEF Abs, Abstract, Candidate
    <2>3. Sane(h, new)
      BY <1>0, <1>1, <2>1 DEF Sane, In, IsSelected, Candidate
    <2> QED BY <2>2, <2>3 DEF Good
  <1>2. CASE ~first
    <2>1. new = [row EXCEPT ![p] = "CANDIDATE_READY"]
      BY <1>2 DEF PromoteCandidateReady
    <2> HIDE DEF new
    <2>2. new \in Row /\ Abs(new) = Abs(row)
      BY <1>0, <2>1 DEF Abs, Abstract, Candidate
    <2>3. In(row, IsSelected) # {}
      BY <1>0, <1>2 DEF Sane, In, IsSelected
    <2>4. ASSUME NEW b \in Peer, row[b] = "CANDIDATE_BEST" PROVE Better(h, b, p)
      <3>1. \A q \in In(row, IsSelected) : q = b
        BY <1>0, <2>4 DEF Sane, In, IsSelected
      <3>2. \A q \in In(row, {"CANDIDATE_READY"}) : Better(h, b, q)
        BY <1>0, <2>4 DEF Sane, In
      <3>3. PICK q \in Peer : q # p /\ ~Better(h, p, q) /\ (q = b \/ Better(h, b, q))
        BY <1>2, <2>4, <3>1, <3>2 DEF In
      <3> QED BY <3>3, BetterOrder
    <2>5. Sane(h, new)
      BY <1>0, <2>1, <2>3, <2>4 DEF Sane, In, IsSelected, Candidate
    <2> QED BY <2>2, <2>5 DEF Good
  <1> QED BY <1>1, <1>2

\* ChangeAndReselect keeps a row sane: the best ready announcement replaces a
\* selected one that ends or is put off.
LEMMA ReselectGood ==
    ASSUME NEW h \in TxHash, NEW row, Good(h, row), NEW p \in Peer,
           row[p] \in Candidate \cup {"REQUESTED"},
           NEW s \in {"CANDIDATE_DELAYED", "COMPLETED"},
           s = "COMPLETED" => ~IsOnlyNonCompleted(row, p)
    PROVE  /\ Good(h, ChangeAndReselect(h, row, p, s))
           /\ Abs(ChangeAndReselect(h, row, p, s)) = [Abs(row) EXCEPT ![p] = Abstract(s)]
  <1> DEFINE new == ChangeAndReselect(h, row, p, s)
  <1>0. row \in Row /\ Sane(h, row)
    BY DEF Good
  <1> USE DEF Row, State, NONE
  <1> SUFFICES Good(h, new) /\ Abs(new) = [Abs(row) EXCEPT ![p] = Abstract(s)]
    OBVIOUS
  <1>1. CASE row[p] \in IsSelected /\ In(row, {"CANDIDATE_READY"}) # {}
    <2>1. PICK b \in In(row, {"CANDIDATE_READY"}) :
              \A q \in In(row, {"CANDIDATE_READY"}) \ {b} : Better(h, b, q)
      BY <1>1, BestExists DEF In
    <2>2. b \in Peer /\ row[b] = "CANDIDATE_READY" /\ b # p
      BY <1>1 DEF In, IsSelected
    <2>3. \A q \in Peer : IsBestReady(h, row, q) <=> q = b
      BY <2>1, <2>2, BetterOrder DEF IsBestReady, In
    <2>4. new = [q \in Peer |-> IF q = p THEN s ELSE IF q = b THEN "CANDIDATE_BEST" ELSE row[q]]
      BY <1>1, <2>3 DEF ChangeAndReselect
    <2> HIDE DEF new
    <2>5. new \in Row /\ Abs(new) = [Abs(row) EXCEPT ![p] = Abstract(s)]
      BY <1>0, <2>2, <2>4 DEF Abs, Abstract, Candidate
    <2>6. Sane(h, new)
      BY <1>0, <1>1, <2>1, <2>2, <2>4, SMTT(40) DEF Sane, In, IsSelected, Candidate
    <2> QED BY <2>5, <2>6 DEF Good
  <1>2. CASE ~(row[p] \in IsSelected /\ In(row, {"CANDIDATE_READY"}) # {})
    <2>1. new = [row EXCEPT ![p] = s]
      BY <1>0, <1>2 DEF ChangeAndReselect, IsBestReady, In
    <2> HIDE DEF new
    <2>2. new \in Row /\ Abs(new) = [Abs(row) EXCEPT ![p] = Abstract(s)]
      BY <1>0, <2>1 DEF Abs, Abstract, Candidate
    <2>3. s = "COMPLETED" => \E q \in Peer \ {p} : row[q] \in Candidate \cup {"REQUESTED"}
      BY <1>0 DEF IsOnlyNonCompleted, Candidate
    <2>4. Sane(h, new)
      BY <1>0, <1>2, <2>1, <2>3, SMTT(40) DEF Sane, In, IsSelected, Candidate
    <2> QED BY <2>2, <2>4 DEF Good
  <1> QED BY <1>1, <1>2

\* What TxRequestSpec calls Settle.
SettleRow(a) ==
    IF \E p \in Peer : a[p] \in {"CANDIDATE", "REQUESTED"} THEN a ELSE [p \in Peer |-> "NONE"]

Live == Candidate \cup {"REQUESTED"}

\* An empty row is sane.
LEMMA EmptyGood ==
    ASSUME NEW h \in TxHash
    PROVE  Good(h, NoAnnouncements) /\ Abs(NoAnnouncements) = [p \in Peer |-> "NONE"]
  BY DEF Good, NoAnnouncements, Row, Sane, NONE, In, IsSelected, Abs, Abstract, Candidate

\* In terms of Abs, an announcement is live when it is a candidate or requested.
LEMMA AbsLive ==
    ASSUME NEW row \in Row, NEW p \in Peer
    PROVE  /\ Abs(row)[p] \in {"CANDIDATE", "REQUESTED"} <=> row[p] \in Live
           /\ Abs(row)[p] = "NONE" <=> row[p] = NONE
           /\ Abs(row)[p] = "REQUESTED" <=> row[p] = "REQUESTED"
           /\ Abs(row)[p] = "CANDIDATE" <=> row[p] \in Candidate
           /\ Abs(row) \in [Peer -> {"NONE", "CANDIDATE", "REQUESTED", "COMPLETED"}]
  BY DEF Abs, Abstract, Candidate, Live, Row, State, NONE

\* What the contract knows of a whole row.
LEMMA AbsRow ==
    ASSUME NEW row \in Row
    PROVE  \A q \in Peer : /\ Abs(row)[q] = "REQUESTED" <=> row[q] = "REQUESTED"
                           /\ Abs(row)[q] = "CANDIDATE" <=> row[q] \in Candidate
  BY AbsLive

\* MakeCompleted ends an announcement, and deletes the row when no other is live.
LEMMA MakeCompletedGood ==
    ASSUME NEW h \in TxHash, NEW row, Good(h, row), NEW p \in Peer, row[p] # NONE
    PROVE  /\ Good(h, MakeCompleted(h, row, p))
           /\ row[p] = "COMPLETED" => MakeCompleted(h, row, p) = row
           /\ row[p] \in Live => Abs(MakeCompleted(h, row, p)) = SettleRow([Abs(row) EXCEPT ![p] = "COMPLETED"])
  <1> DEFINE new == MakeCompleted(h, row, p)
             a   == [Abs(row) EXCEPT ![p] = "COMPLETED"]
  <1>0. row \in Row /\ (row[p] = "COMPLETED" \/ row[p] \in Live)
    BY DEF Good, Row, State, NONE, Live, Candidate
  <1>1. CASE row[p] = "COMPLETED"
    BY <1>1 DEF MakeCompleted, Live, Candidate
  <1>2. CASE row[p] \in Live /\ IsOnlyNonCompleted(row, p)
    <2>1. new = NoAnnouncements
      BY <1>2 DEF MakeCompleted, Live, Candidate
    <2>2. \A q \in Peer : a[q] \notin {"CANDIDATE", "REQUESTED"}
      BY <1>0, <1>2 DEF IsOnlyNonCompleted, Abs, Abstract, Candidate, NONE
    <2>3. SettleRow(a) = [q \in Peer |-> "NONE"]
      BY <2>2 DEF SettleRow
    <2> QED BY <1>2, <2>1, <2>3, EmptyGood DEF Live, Candidate
  <1>3. CASE row[p] \in Live /\ ~IsOnlyNonCompleted(row, p)
    <2>1. new = ChangeAndReselect(h, row, p, "COMPLETED")
      BY <1>3 DEF MakeCompleted, Live, Candidate
    <2>2. Good(h, new) /\ Abs(new) = a
      BY <1>3, <2>1, ReselectGood, SMTT(40) DEF Live, Abstract, Candidate
    <2>3. PICK q \in Peer \ {p} : row[q] \in Live
      BY <1>0, <1>3 DEF IsOnlyNonCompleted, Row, State, NONE, Live, Candidate
    <2>4. a[q] \in {"CANDIDATE", "REQUESTED"}
      BY <1>0, <2>3 DEF Abs, Abstract, Live, Candidate
    <2>5. SettleRow(a) = a
      BY <2>3, <2>4 DEF SettleRow
    <2> QED BY <1>3, <2>2, <2>5 DEF Live, Candidate
  <1> QED BY <1>0, <1>1, <1>2, <1>3

\* A peer that leaves takes its announcement with it.
LEMMA DisconnectedGood ==
    ASSUME NEW h \in TxHash, NEW row, Good(h, row), NEW p \in Peer
    PROVE  /\ Good(h, DisconnectedPeer(h, row, p))
           /\ DisconnectedPeer(h, row, p)[p] = NONE
           /\ row[p] = NONE => DisconnectedPeer(h, row, p) = row
           /\ row[p] # NONE => Abs(DisconnectedPeer(h, row, p)) = SettleRow([Abs(row) EXCEPT ![p] = "NONE"])
  <1> DEFINE done == MakeCompleted(h, row, p)
             new  == DisconnectedPeer(h, row, p)
             a    == [Abs(row) EXCEPT ![p] = "NONE"]
  <1>0. row \in Row
    BY DEF Good
  <1>1. CASE row[p] = NONE
    BY <1>1 DEF DisconnectedPeer
  <1>2. CASE row[p] # NONE
    <2>1. new = [done EXCEPT ![p] = NONE]
      BY <1>2 DEF DisconnectedPeer
    <2>2. Good(h, done)
      BY <1>2, MakeCompletedGood
    <2> HIDE DEF done, new
    <2>3. CASE \E q \in Peer \ {p} : row[q] \in Live
      <3>1. Abs(done) = [Abs(row) EXCEPT ![p] = "COMPLETED"]
        <4>1. CASE row[p] = "COMPLETED"
          <5>1. Abs(row)[p] = "COMPLETED"
            BY <4>1 DEF Abs, Abstract, Candidate
          <5> QED BY <1>2, <4>1, <5>1, MakeCompletedGood DEF done, Abs
        <4>2. CASE row[p] \in Live
          <5>1. Abs(done) = SettleRow([Abs(row) EXCEPT ![p] = "COMPLETED"])
            BY <1>2, <4>2, MakeCompletedGood DEF done
          <5>2. \E q \in Peer : [Abs(row) EXCEPT ![p] = "COMPLETED"][q] \in {"CANDIDATE", "REQUESTED"}
            BY <1>0, <2>3, AbsLive, SMTT(40)
          <5> QED BY <5>1, <5>2 DEF SettleRow
        <4> QED BY <1>0, <1>2, <4>1, <4>2 DEF Row, State, NONE, Live, Candidate
      <3>2. done \in Row /\ done[p] = "COMPLETED"
        <4>1. done \in Row /\ Abs(done)[p] = "COMPLETED"
          BY <2>2, <3>1, <1>0, AbsLive, SMTT(40) DEF Good
        <4> QED BY <4>1 DEF Abs, Abstract, Candidate
      <3>3. new \in Row /\ Abs(new) = a
        BY <2>1, <3>1, <3>2, <1>0 DEF Row, Abs, Abstract, Candidate, NONE
      <3>4. SettleRow(a) = a
        <4>1. \E q \in Peer : a[q] \in {"CANDIDATE", "REQUESTED"}
          BY <1>0, <2>3, AbsLive, SMTT(40)
        <4> QED BY <4>1 DEF SettleRow
      <3>5. Sane(h, new)
        BY <2>1, <2>2, <3>2, SMTT(40) DEF Good, Sane, Row, In, IsSelected, Candidate, NONE, State
      <3> QED BY <1>2, <2>1, <3>2, <3>3, <3>4, <3>5 DEF Good, Row, new
    <2>4. CASE \A q \in Peer \ {p} : row[q] \notin Live
      <3>1. row[p] \in Live /\ IsOnlyNonCompleted(row, p)
        BY <1>0, <1>2, <2>4 DEF Good, Sane, Row, State, NONE, Live, Candidate, IsOnlyNonCompleted
      <3>2. done = NoAnnouncements
        BY <3>1 DEF done, MakeCompleted, Live, Candidate
      <3>3. new = NoAnnouncements
        BY <2>1, <3>2 DEF NoAnnouncements
      <3>4. \A q \in Peer : a[q] \notin {"CANDIDATE", "REQUESTED"}
        BY <1>0, <2>4, AbsLive, SMTT(40)
      <3>5. SettleRow(a) = [q \in Peer |-> "NONE"]
        BY <3>4 DEF SettleRow
      <3> QED BY <1>2, <3>3, <3>5, EmptyGood DEF NoAnnouncements, new
    <2> QED BY <2>3, <2>4
  <1> QED BY <1>1, <1>2

\* The ways a row may change without a new announcement or request.
Shrinks(row, new) ==
    \/ Abs(new) = Abs(row)
    \/ \E p \in Peer : row[p] \in Live /\ Abs(new) = SettleRow([Abs(row) EXCEPT ![p] = "COMPLETED"])
    \/ \E p \in Peer : row[p] # NONE /\ Abs(new) = SettleRow([Abs(row) EXCEPT ![p] = "NONE"])
    \/ Abs(new) = [p \in Peer |-> "NONE"]

Announced(row, new, p) == row[p] = NONE /\ Abs(new) = [Abs(row) EXCEPT ![p] = "CANDIDATE"]

\* A row that shrinks has no announcement of a peer it had none of.
LEMMA ShrinksOccupied ==
    ASSUME NEW row \in Row, NEW new \in Row, Shrinks(row, new)
    PROVE  In(new, State) \subseteq In(row, State)
  <1> SUFFICES ASSUME NEW q \in Peer, row[q] = NONE PROVE new[q] = NONE
    BY DEF In, Row, State, NONE
  <1>1. Abs(row)[q] = "NONE" /\ Abs(row) \in [Peer -> {"NONE", "CANDIDATE", "REQUESTED", "COMPLETED"}]
    BY AbsLive
  <1>2. Abs(new)[q] = "NONE"
    <2>1. CASE Abs(new) = Abs(row)
      BY <1>1, <2>1
    <2>2. CASE Abs(new) = [p \in Peer |-> "NONE"]
      BY <2>2
    <2>3. ASSUME NEW p \in Peer, row[p] # NONE, NEW s,
                 Abs(new) = SettleRow([Abs(row) EXCEPT ![p] = s])
          PROVE  Abs(new)[q] = "NONE"
      BY <1>1, <2>3 DEF SettleRow
    <2> QED BY <2>1, <2>2, <2>3 DEF Shrinks, Live, Candidate, NONE
  <1> QED BY <1>2, AbsLive

\* A new announcement adds its peer only.
LEMMA AnnouncedOccupied ==
    ASSUME NEW row \in Row, NEW new \in Row, NEW p \in Peer, Announced(row, new, p)
    PROVE  In(new, State) \subseteq In(row, State) \cup {p}
  <1> SUFFICES ASSUME NEW q \in Peer \ {p}, row[q] = NONE PROVE new[q] = NONE
    BY DEF In, Row, State, NONE
  <1>1. Abs(row)[q] = "NONE" /\ Abs(row) \in [Peer -> {"NONE", "CANDIDATE", "REQUESTED", "COMPLETED"}]
    BY AbsLive
  <1>2. Abs(new)[q] = "NONE"
    BY <1>1 DEF Announced
  <1> QED BY <1>2, AbsLive

\* ReceivedInv starts with CANDIDATE_DELAYED, which keeps a row sane.
LEMMA ReceivedInvGood ==
    ASSUME NEW h \in TxHash, NEW row, Good(h, row), NEW p \in Peer
    PROVE  /\ Good(h, ReceivedInv(row, p))
           /\ ReceivedInv(row, p) = row \/ Announced(row, ReceivedInv(row, p), p)
  <1>1. CASE row[p] = NONE
    <2> DEFINE new == ReceivedInv(row, p)
    <2>1. new = [row EXCEPT ![p] = "CANDIDATE_DELAYED"]
      BY <1>1 DEF ReceivedInv
    <2>2. row \in Row /\ Sane(h, row)
      BY DEF Good
    <2> HIDE DEF new
    <2>3. new \in Row /\ Abs(new) = [Abs(row) EXCEPT ![p] = "CANDIDATE"]
      BY <2>1, <2>2 DEF Row, State, Abs, Abstract, Candidate
    <2>4. Sane(h, new)
      BY <1>1, <2>1, <2>2 DEF Sane, Row, State, NONE, In, IsSelected, Candidate
    <2> QED BY <1>1, <2>3, <2>4 DEF Good, Announced, new
  <1>2. CASE row[p] # NONE
    BY <1>2 DEF ReceivedInv
  <1> QED BY <1>1, <1>2

\* ReceivedResponse keeps a row sane.
LEMMA ReceivedResponseGood ==
    ASSUME NEW h \in TxHash, NEW row, Good(h, row), NEW p \in Peer
    PROVE  Good(h, ReceivedResponse(h, row, p)) /\ Shrinks(row, ReceivedResponse(h, row, p))
  <1>1. CASE row[p] = NONE
    BY <1>1 DEF ReceivedResponse, Shrinks
  <1>2. CASE row[p] # NONE
    <2>1. row[p] = "COMPLETED" \/ row[p] \in Live
      BY <1>2 DEF Good, Row, State, NONE, Live, Candidate
    <2>2. ReceivedResponse(h, row, p) = MakeCompleted(h, row, p)
      BY <1>2 DEF ReceivedResponse
    <2> QED BY <1>2, <2>1, <2>2, MakeCompletedGood DEF Shrinks
  <1> QED BY <1>1, <1>2

\* RequestedTx on the best candidate keeps a row sane.
LEMMA RequestedGood ==
    ASSUME NEW h \in TxHash, NEW row, Good(h, row), NEW p \in Peer, row[p] = "CANDIDATE_BEST"
    PROVE  /\ Good(h, RequestedTx(row, p))
           /\ RequestedTx(row, p) = [row EXCEPT ![p] = "REQUESTED"]
           /\ Abs(RequestedTx(row, p)) = [Abs(row) EXCEPT ![p] = "REQUESTED"]
  <1> DEFINE new == RequestedTx(row, p)
  <1>1. new = [row EXCEPT ![p] = "REQUESTED"]
    BY DEF RequestedTx
  <1>2. row \in Row /\ Sane(h, row)
    BY DEF Good
  <1> HIDE DEF new
  <1>3. new \in Row /\ Abs(new) = [Abs(row) EXCEPT ![p] = "REQUESTED"]
    BY <1>1, <1>2 DEF Row, State, Abs, Abstract, Candidate
  <1>4. Sane(h, new)
    BY <1>1, <1>2 DEF Sane, Row, State, NONE, In, IsSelected, Candidate
  <1> QED BY <1>1, <1>3, <1>4 DEF Good, new

\* An iteration of SetTimePoint keeps a row sane.
LEMMA SetTimePointGood ==
    ASSUME NEW h \in TxHash, NEW row, Good(h, row), NEW p \in Peer, NEW past \in BOOLEAN
    PROVE  Good(h, SetTimePoint(h, row, p, past)) /\ Shrinks(row, SetTimePoint(h, row, p, past))
  <1> DEFINE new == SetTimePoint(h, row, p, past)
  <1>1. CASE row[p] = "CANDIDATE_DELAYED" /\ past
    <2>1. new = PromoteCandidateReady(h, row, p)
      BY <1>1 DEF SetTimePoint
    <2>0. Good(h, PromoteCandidateReady(h, row, p)) /\ Abs(PromoteCandidateReady(h, row, p)) = Abs(row)
      BY <1>1, PromoteGood
    <2> HIDE DEF new
    <2>2. Good(h, new) /\ Abs(new) = Abs(row)
      BY <2>0, <2>1
    <2> USE DEF new
    <2> QED BY <2>2 DEF Shrinks
  <1>2. CASE row[p] = "REQUESTED" /\ past
    <2>1. new = MakeCompleted(h, row, p)
      BY <1>2 DEF SetTimePoint, IsSelectable
    <2>2. row[p] \in Live /\ row[p] # NONE
      BY <1>2 DEF Live, NONE
    <2>3. Good(h, new) /\ Abs(new) = SettleRow([Abs(row) EXCEPT ![p] = "COMPLETED"])
      BY <2>1, <2>2, MakeCompletedGood, SMTT(40)
    <2> QED BY <2>2, <2>3 DEF Shrinks
  <1>3. CASE row[p] \in IsSelectable /\ ~past
    <2>1. new = ChangeAndReselect(h, row, p, "CANDIDATE_DELAYED")
      BY <1>3 DEF SetTimePoint
    <2>2. Good(h, new) /\ Abs(new) = [Abs(row) EXCEPT ![p] = "CANDIDATE"]
      BY <1>3, <2>1, ReselectGood, SMTT(40) DEF IsSelectable, Candidate, Abstract
    <2>3. Abs(row)[p] = "CANDIDATE"
      BY <1>3 DEF Abs, Abstract, IsSelectable, Candidate
    <2>4. Abs(new) = Abs(row)
      BY <2>2, <2>3 DEF Abs
    <2> QED BY <2>2, <2>4 DEF Shrinks
  <1>4. CASE /\ ~(row[p] = "CANDIDATE_DELAYED" /\ past) /\ ~(row[p] = "REQUESTED" /\ past)
             /\ ~(row[p] \in IsSelectable /\ ~past)
    <2>1. new = row
      BY <1>4 DEF SetTimePoint
    <2> QED BY <2>1 DEF Shrinks
  <1> QED BY <1>1, <1>2, <1>3, <1>4

-----------------------------------------------------------------------------
(* The tracker in the hands of PeerManager.                                 *)

\* The inductive invariant: rows are sane and of connected peers only, and while
\* SendMessages works through its list the clock has nothing left to move and the
\* announcements on the list are still the best of their rows.
TrackerInv ==
    /\ ann \in [TxHash -> Row]
    /\ \A h \in TxHash : Good(h, ann[h]) /\ In(ann[h], State) \subseteq connected
    /\ connected \subseteq Peer
    /\ send \in [peer : Peer \cup {NoPeer}, phase : {"idle", "time", "request"}, todo : SUBSET TxHash]
    /\ send.phase # "request" => send.todo = {}
    /\ send.phase = "request" => /\ send.peer \in Peer
                                 /\ \A h \in send.todo : ann[h][send.peer] = "CANDIDATE_BEST"
                                 /\ Expiring = {} /\ Premature = {}

\* A step in which every row shrinks or gets an announcement of a connected peer.
RowsKeep ==
    /\ ann' \in [TxHash -> Row]
    /\ \A h \in TxHash : /\ Good(h, ann'[h])
                         /\ Shrinks(ann[h], ann'[h]) \/ \E p \in connected : Announced(ann[h], ann'[h], p)

\* Such a step preserves the invariant when SendMessages is at no request.
LEMMA KeepInv ==
    ASSUME TrackerInv, RowsKeep, connected' = connected,
           send' \in [peer : Peer \cup {NoPeer}, phase : {"idle", "time", "request"}, todo : SUBSET TxHash],
           send'.phase # "request", send'.todo = {}
    PROVE  TrackerInv'
  <1>1. ASSUME NEW h \in TxHash PROVE In(ann'[h], State) \subseteq connected
    <2>1. ann[h] \in Row /\ ann'[h] \in Row /\ In(ann[h], State) \subseteq connected
      BY DEF TrackerInv, RowsKeep
    <2>2. CASE Shrinks(ann[h], ann'[h])
      BY <2>1, <2>2, ShrinksOccupied
    <2>3. CASE \E p \in connected : Announced(ann[h], ann'[h], p)
      BY <2>1, <2>3, AnnouncedOccupied, SMTT(40) DEF TrackerInv
    <2> QED BY <2>2, <2>3 DEF RowsKeep
  <1> QED BY <1>1 DEF TrackerInv, RowsKeep

\* It is a step of the contract for every hash.
LEMMA KeepContract ==
    ASSUME TrackerInv, RowsKeep, NEW h \in TxHash
    PROVE  Contract(h)!Step
  <1>1. Abs(ann[h]) = [p \in Peer |-> Abstract(ann[h][p])] /\ Abs(ann'[h]) = [p \in Peer |-> Abstract(ann'[h][p])]
    BY DEF Abs
  <1>2. ann[h] \in Row /\ connected \subseteq Peer
    BY DEF TrackerInv
  <1> USE DEF Contract!Step, Contract!Next
  <1>3. CASE Abs(ann'[h]) = Abs(ann[h])
    BY <1>1, <1>3
  <1>4. CASE Abs(ann'[h]) = [p \in Peer |-> "NONE"]
    BY <1>1, <1>4 DEF Contract!Forget
  <1>5. ASSUME NEW p \in Peer, ann[h][p] \in Live,
               Abs(ann'[h]) = SettleRow([Abs(ann[h]) EXCEPT ![p] = "COMPLETED"])
        PROVE  Contract(h)!Complete(p)
    BY <1>1, <1>2, <1>5, AbsLive DEF Contract!Complete, Contract!Settle, Contract!Live, SettleRow
  <1>6. ASSUME NEW p \in Peer, ann[h][p] # NONE,
               Abs(ann'[h]) = SettleRow([Abs(ann[h]) EXCEPT ![p] = "NONE"])
        PROVE  Contract(h)!Leave(p)
    BY <1>1, <1>2, <1>6, AbsLive, SMTT(40) DEF Contract!Leave, Contract!Settle, Contract!Live, SettleRow
  <1>7. ASSUME NEW p \in connected, Announced(ann[h], ann'[h], p)
        PROVE  Contract(h)!Announce(p)
    BY <1>1, <1>2, <1>7, AbsLive DEF Contract!Announce, Announced
  <1> QED BY <1>2, <1>3, <1>4, <1>5, <1>6, <1>7 DEF RowsKeep, Shrinks

\* Rows left alone.
LEMMA UnchangedKeep ==
    ASSUME TrackerInv, UNCHANGED ann
    PROVE  RowsKeep
  BY DEF TrackerInv, RowsKeep, Shrinks

\* ForgetTxHash empties the rows of the hashes it is given and keeps the others.
LEMMA ForgetGood ==
    ASSUME NEW a \in [TxHash -> Row], \A h \in TxHash : Good(h, a[h]), NEW hs
    PROVE  /\ ForgetTxHash(a, hs) \in [TxHash -> Row]
           /\ \A h \in TxHash : /\ Good(h, ForgetTxHash(a, hs)[h])
                                /\ h \in hs => ForgetTxHash(a, hs)[h] = NoAnnouncements
                                /\ h \notin hs => ForgetTxHash(a, hs)[h] = a[h]
  BY EmptyGood DEF ForgetTxHash, Good

\* What the message tx does first: the requests it answers are completed.
LEMMA AnsweredGood ==
    ASSUME TrackerInv, NEW p \in Peer, NEW t \in Tx
    PROVE  /\ Answered(p, t) \in [TxHash -> Row]
           /\ \A h \in TxHash : /\ Good(h, Answered(p, t)[h])
                                /\ Shrinks(ann[h], Answered(p, t)[h])
                                /\ h \notin Hashes(t) => Answered(p, t)[h] = ann[h]
  <1>1. ASSUME NEW h \in TxHash
        PROVE  /\ Good(h, Answered(p, t)[h])
               /\ Shrinks(ann[h], Answered(p, t)[h])
               /\ h \notin Hashes(t) => Answered(p, t)[h] = ann[h]
    <2>1. CASE h \in Hashes(t)
      <3>1. Answered(p, t)[h] = ReceivedResponse(h, ann[h], p)
        BY <2>1 DEF Answered
      <3> QED BY <2>1, <3>1, ReceivedResponseGood, SMTT(40) DEF TrackerInv
    <2>2. CASE h \notin Hashes(t)
      <3>1. Answered(p, t)[h] = ann[h]
        BY <2>2 DEF Answered
      <3> QED BY <3>1 DEF TrackerInv, Shrinks
    <2> QED BY <2>1, <2>2
  <1>2. Answered(p, t) \in [TxHash -> Row]
    BY <1>1 DEF Answered, Good
  <1> QED BY <1>1, <1>2

\* AddTxAnnouncement adds announcements of one peer.
LEMMA AddGood ==
    ASSUME NEW a \in [TxHash -> Row], \A h \in TxHash : Good(h, a[h]), NEW p \in Peer, NEW s
    PROVE  /\ AddTxAnnouncement(a, p, s) \in [TxHash -> Row]
           /\ \A h \in TxHash : /\ Good(h, AddTxAnnouncement(a, p, s)[h])
                                /\ \/ AddTxAnnouncement(a, p, s)[h] = a[h]
                                   \/ Announced(a[h], AddTxAnnouncement(a, p, s)[h], p)
  <1>1. ASSUME NEW h \in TxHash
        PROVE  /\ Good(h, AddTxAnnouncement(a, p, s)[h])
               /\ \/ AddTxAnnouncement(a, p, s)[h] = a[h]
                  \/ Announced(a[h], AddTxAnnouncement(a, p, s)[h], p)
    <2>1. AddTxAnnouncement(a, p, s)[h] = IF h \in s THEN ReceivedInv(a[h], p) ELSE a[h]
      BY DEF AddTxAnnouncement
    <2> QED BY <2>1, ReceivedInvGood
  <1>2. AddTxAnnouncement(a, p, s) \in [TxHash -> Row]
    BY <1>1 DEF AddTxAnnouncement, Good
  <1> QED BY <1>1, <1>2

-----------------------------------------------------------------------------
(* One lemma per kind of step.                                              *)

\* The message inv, answered by an announcement or not at all.
LEMMA InvStep ==
    ASSUME TrackerInv, NEW p \in Peer, NEW h \in TxHash, Inv(p, h)
    PROVE  RowsKeep /\ TrackerInv'
  <1>1. RowsKeep
    <2>1. CASE AlreadyHaveTx(h, p \in WtxidRelay)
      BY <2>1, UnchangedKeep DEF Inv
    <2>2. CASE ~AlreadyHaveTx(h, p \in WtxidRelay)
      <3>1. PICK s : ann' = AddTxAnnouncement(ann, p, s)
        BY <2>2 DEF Inv
      <3>2. p \in connected
        BY DEF Inv, Handling
      <3>3. ann \in [TxHash -> Row] /\ \A k \in TxHash : Good(k, ann[k])
        BY DEF TrackerInv
      <3> QED BY <3>1, <3>2, <3>3, AddGood DEF RowsKeep, Shrinks
    <2> QED BY <2>1, <2>2
  <1>2. send' = send /\ send = Idle /\ connected' = connected
    BY DEF Inv, Handling, world
  <1>3. TrackerInv'
    BY <1>1, <1>2, KeepInv DEF TrackerInv, Idle
  <1> QED BY <1>1, <1>3

\* The message notfound.
LEMMA NotFoundStep ==
    ASSUME TrackerInv, NEW p \in Peer, NEW h \in TxHash, NotFound(p, h)
    PROVE  RowsKeep /\ TrackerInv'
  <1>1. ann' = [ann EXCEPT ![h] = ReceivedResponse(h, ann[h], p)]
    BY DEF NotFound
  <1>2. Good(h, ReceivedResponse(h, ann[h], p)) /\ Shrinks(ann[h], ReceivedResponse(h, ann[h], p))
    BY ReceivedResponseGood DEF TrackerInv
  <1>3. RowsKeep
    BY <1>1, <1>2 DEF RowsKeep, TrackerInv, Good, Shrinks
  <1>4. send' = send /\ send = Idle /\ connected' = connected
    BY DEF NotFound, Handling, world
  <1>5. TrackerInv'
    BY <1>3, <1>4, KeepInv DEF TrackerInv, Idle
  <1> QED BY <1>3, <1>5

\* The message tx, whatever AcceptToMemoryPool says.
LEMMA ProcessTxStep ==
    ASSUME TrackerInv, NEW p \in Peer, NEW t \in Tx, ProcessTx(p, t)
    PROVE  RowsKeep /\ TrackerInv'
  <1>0. ReceiveTx(p, t)
    BY DEF ProcessTx, TxKnown, TxAccepted, TxMissingInputs, TxRejectedParents, TxRejected
  <1>1. send' = send /\ send = Idle /\ connected' = connected /\ p \in connected
    BY <1>0 DEF ReceiveTx, Handling
  <1>2. /\ Answered(p, t) \in [TxHash -> Row]
        /\ \A h \in TxHash : /\ Good(h, Answered(p, t)[h])
                             /\ Shrinks(ann[h], Answered(p, t)[h])
                             /\ h \notin Hashes(t) => Answered(p, t)[h] = ann[h]
    BY AnsweredGood
  <1>3. ASSUME NEW hs, ann' = ForgetTxHash(Answered(p, t), hs)
        PROVE  RowsKeep
    <2>1. /\ ann' \in [TxHash -> Row]
          /\ \A h \in TxHash : /\ Good(h, ann'[h])
                               /\ h \in hs => ann'[h] = NoAnnouncements
                               /\ h \notin hs => ann'[h] = Answered(p, t)[h]
      BY <1>2, <1>3, ForgetGood
    <2> QED BY <1>2, <2>1, EmptyGood DEF RowsKeep, Shrinks
  <1>4. ASSUME TxKnown(p, t) PROVE RowsKeep
    BY <1>2, <1>4 DEF TxKnown, RowsKeep
  <1>5. ASSUME TxMissingInputs(p, t) PROVE RowsKeep
    <2>1. PICK s : ann' = ForgetTxHash(AddTxAnnouncement(Answered(p, t), p, s), Hashes(t))
      BY <1>5 DEF TxMissingInputs
    <2> DEFINE added == AddTxAnnouncement(Answered(p, t), p, s)
    <2>2. /\ added \in [TxHash -> Row]
          /\ \A h \in TxHash : /\ Good(h, added[h])
                               /\ added[h] = Answered(p, t)[h] \/ Announced(Answered(p, t)[h], added[h], p)
      BY <1>2, AddGood
    <2> HIDE DEF added
    <2>3. /\ ann' \in [TxHash -> Row]
          /\ \A h \in TxHash : /\ Good(h, ann'[h])
                               /\ h \in Hashes(t) => ann'[h] = NoAnnouncements
                               /\ h \notin Hashes(t) => ann'[h] = added[h]
      BY <2>1, <2>2, ForgetGood DEF added
    <2> QED BY <1>1, <1>2, <2>2, <2>3, EmptyGood DEF RowsKeep, Shrinks
  <1>6. RowsKeep
    BY <1>3, <1>4, <1>5 DEF ProcessTx, TxAccepted, TxRejectedParents, TxRejected
  <1>7. TrackerInv'
    BY <1>1, <1>6, KeepInv DEF TrackerInv, Idle
  <1> QED BY <1>6, <1>7

\* An iteration of SetTimePoint within SendMessages.
LEMMA MoveTimeStep ==
    ASSUME TrackerInv, NEW p \in Peer, NEW h \in TxHash, MoveTime(h, p)
    PROVE  RowsKeep /\ TrackerInv'
  <1> DEFINE past == <<h, p>> \in due
  <1>1. ann' = [ann EXCEPT ![h] = SetTimePoint(h, ann[h], p, past)]
    BY DEF MoveTime
  <1>2. past \in BOOLEAN
    BY SMTT(40)
  <1> HIDE DEF past
  <1>3. Good(h, SetTimePoint(h, ann[h], p, past)) /\ Shrinks(ann[h], SetTimePoint(h, ann[h], p, past))
    BY <1>2, SetTimePointGood DEF TrackerInv
  <1>4. RowsKeep
    BY <1>1, <1>3 DEF RowsKeep, TrackerInv, Good, Shrinks
  <1>5. send' = [send EXCEPT !.phase = "time"] /\ send.phase # "request" /\ connected' = connected
    BY DEF MoveTime, world
  <1>6. TrackerInv'
    BY <1>4, <1>5, KeepInv DEF TrackerInv
  <1> QED BY <1>4, <1>6

\* FinalizeNode: no announcement of the peer stays behind.
LEMMA DisconnectStep ==
    ASSUME TrackerInv, NEW p \in Peer, Disconnect(p)
    PROVE  RowsKeep /\ TrackerInv'
  <1>1. /\ ann' = [h \in TxHash |-> DisconnectedPeer(h, ann[h], p)]
        /\ connected' = connected \ {p} /\ send' = send /\ send = Idle
    BY DEF Disconnect, Handling
  <1>2. ASSUME NEW h \in TxHash
        PROVE  /\ Good(h, ann'[h]) /\ ann'[h][p] = NONE
               /\ Shrinks(ann[h], ann'[h])
    <2>1. ann'[h] = DisconnectedPeer(h, ann[h], p) /\ Good(h, ann[h])
      BY <1>1 DEF TrackerInv
    <2>0. Good(h, DisconnectedPeer(h, ann[h], p)) /\ DisconnectedPeer(h, ann[h], p)[p] = NONE
      BY <2>1, DisconnectedGood
    <2>2. Good(h, ann'[h]) /\ ann'[h][p] = NONE
      BY <2>0, <2>1
    <2>3. CASE ann[h][p] = NONE
      BY <2>1, <2>2, <2>3, DisconnectedGood DEF Shrinks
    <2>4. CASE ann[h][p] # NONE
      <3>1. Abs(ann'[h]) = SettleRow([Abs(ann[h]) EXCEPT ![p] = "NONE"])
        BY <2>1, <2>4, DisconnectedGood, SMTT(40)
      <3> QED BY <2>2, <2>4, <3>1 DEF Shrinks
    <2> QED BY <2>3, <2>4
  <1>3. RowsKeep
    BY <1>1, <1>2 DEF RowsKeep, Good
  <1>4. ASSUME NEW h \in TxHash PROVE In(ann'[h], State) \subseteq connected \ {p}
    <2>1. ann[h] \in Row /\ ann'[h] \in Row /\ In(ann[h], State) \subseteq connected
      BY <1>3 DEF TrackerInv, RowsKeep
    <2>2. In(ann'[h], State) \subseteq connected
      BY <1>2, <2>1, ShrinksOccupied
    <2>3. p \notin In(ann'[h], State)
      BY <1>2 DEF In, State, NONE
    <2> QED BY <2>2, <2>3
  <1>5. TrackerInv'
    BY <1>1, <1>3, <1>4 DEF TrackerInv, RowsKeep, Idle
  <1> QED BY <1>3, <1>5

\* The end of BlockConnected.
LEMMA ForgetConfirmedStep ==
    ASSUME TrackerInv, ForgetConfirmed
    PROVE  RowsKeep /\ TrackerInv'
  <1>1. PICK hs : ann' = ForgetTxHash(ann, hs)
    BY DEF ForgetConfirmed
  <1>2. /\ ann' \in [TxHash -> Row]
        /\ \A h \in TxHash : /\ Good(h, ann'[h])
                             /\ h \in hs => ann'[h] = NoAnnouncements
                             /\ h \notin hs => ann'[h] = ann[h]
    BY <1>1, ForgetGood, SMTT(40) DEF TrackerInv
  <1>3. RowsKeep
    BY <1>2, EmptyGood DEF RowsKeep, Shrinks
  <1>4. send' = send /\ send = Idle /\ connected' = connected
    BY DEF ForgetConfirmed
  <1>5. TrackerInv'
    BY <1>3, <1>4, KeepInv DEF TrackerInv, Idle
  <1> QED BY <1>3, <1>5

\* Steps that leave the tracker alone, or move only the clock.
LEMMA OtherStep ==
    ASSUME TrackerInv, UNCHANGED <<ann, send, connected>>, UNCHANGED due \/ send = Idle
    PROVE  RowsKeep /\ TrackerInv'
  <1>1. RowsKeep
    BY UnchangedKeep
  <1>2. CASE send = Idle
    BY <1>1, <1>2, KeepInv DEF TrackerInv, Idle
  <1>3. CASE UNCHANGED due
    BY <1>1, <1>3 DEF TrackerInv, Expiring, Premature
  <1> QED BY <1>1, <1>2, <1>3

\* SendMessages selects what to request.
LEMMA GetRequestableStep ==
    ASSUME TrackerInv, NEW p \in Peer, GetRequestable(p)
    PROVE  RowsKeep /\ TrackerInv'
  <1> DEFINE todo == {h \in TxHash : ann[h][p] = "CANDIDATE_BEST"}
  <1>1. /\ UNCHANGED <<ann, due, connected>>
        /\ send' = Sending(p, todo) /\ Expiring = {} /\ Premature = {}
    BY DEF GetRequestable, world
  <1>2. RowsKeep
    BY <1>1, UnchangedKeep
  <1>3. CASE todo = {}
    <2>1. send' = Idle
      BY <1>1, <1>3 DEF Sending
    <2>2. /\ send' \in [peer : Peer \cup {NoPeer}, phase : {"idle", "time", "request"}, todo : SUBSET TxHash]
          /\ send'.phase # "request" /\ send'.todo = {}
      BY <2>1 DEF Idle
    <2>3. connected' = connected
      BY <1>1
    <2> QED BY <1>2, <2>2, <2>3, KeepInv
  <1>4. CASE todo # {}
    <2>1. send' = [peer |-> p, phase |-> "request", todo |-> todo]
      BY <1>1, <1>4 DEF Sending
    <2>2. Expiring' = {} /\ Premature' = {}
      BY <1>1 DEF Expiring, Premature
    <2>3. todo \in SUBSET TxHash /\ \A h \in todo : ann[h][p] = "CANDIDATE_BEST"
      OBVIOUS
    <2> HIDE DEF todo
    <2>4. /\ send' \in [peer : Peer \cup {NoPeer}, phase : {"idle", "time", "request"}, todo : SUBSET TxHash]
          /\ send'.peer = p /\ send'.phase = "request" /\ send'.todo = todo
      BY <2>1, <2>3
    <2>5. TrackerInv'
      BY <1>1, <2>2, <2>3, <2>4 DEF TrackerInv
    <2> QED BY <1>2, <2>5
  <1> QED BY <1>3, <1>4

\* After a row of the list is requested or forgotten the rest is as it was.
LEMMA SendingInv ==
    ASSUME TrackerInv, NEW h \in send.todo, send.phase = "request",
           send' = Sending(send.peer, send.todo \ {h}), connected' = connected,
           ann' \in [TxHash -> Row], \A k \in TxHash : Good(k, ann'[k]),
           \A k \in TxHash \ {h} : ann'[k] = ann[k],
           In(ann'[h], State) \subseteq connected,
           Expiring' = {}, Premature' = {}
    PROVE  TrackerInv'
  <1> DEFINE rest == send.todo \ {h}
             type == [peer : Peer \cup {NoPeer}, phase : {"idle", "time", "request"}, todo : SUBSET TxHash]
  <1>1. /\ send \in type /\ h \in TxHash /\ rest \in SUBSET TxHash /\ send.peer \in Peer
        /\ \A k \in rest : ann[k][send.peer] = "CANDIDATE_BEST"
    BY DEF TrackerInv
  <1>2. /\ \A k \in TxHash : In(ann'[k], State) \subseteq connected
        /\ connected \subseteq Peer
    BY DEF TrackerInv
  <1>3. CASE rest = {}
    <2>1. send' = Idle
      BY <1>3 DEF Sending
    <2>2. send' \in type /\ send'.phase = "idle" /\ send'.todo = {}
      BY <2>1, SMTT(40) DEF Idle
    <2> QED BY <1>2, <2>2 DEF TrackerInv
  <1>4. CASE rest # {}
    <2>1. send' = [peer |-> send.peer, phase |-> "request", todo |-> rest]
      BY <1>4 DEF Sending
    <2> HIDE DEF rest
    <2>2. send'.peer = send.peer /\ send'.phase = "request" /\ send'.todo = rest
      BY <2>1, SMTT(40)
    <2>4. send' \in type
      <3>1. \A a \in Peer, b \in SUBSET TxHash : [peer |-> a, phase |-> "request", todo |-> b] \in type
        OBVIOUS
      <3>2. send.peer \in Peer /\ rest \in SUBSET TxHash
        BY <1>1
      <3> HIDE DEF type
      <3> QED BY <2>1, <3>1, <3>2
    <2>3. \A k \in rest : ann'[k][send.peer] = "CANDIDATE_BEST"
      BY <1>1 DEF rest
    <2> QED BY <1>1, <1>2, <2>2, <2>3, <2>4 DEF TrackerInv
  <1> QED BY <1>3, <1>4

\* SendMessages requests a transaction, or forgets one that is known by now: a
\* request goes to the best candidate that is due, while no other is outstanding.
LEMMA RequestOrForgetStep ==
    ASSUME TrackerInv, NEW h \in TxHash, RequestOrForget(h)
    PROVE  TrackerInv' /\ \A k \in TxHash : Contract(k)!Step
  <1> DEFINE p == send.peer
  <1>1. /\ send.phase = "request" /\ h \in send.todo /\ p \in Peer
        /\ send' = Sending(p, send.todo \ {h}) /\ connected' = connected
        /\ Expiring = {} /\ Premature = {} /\ ann[h][p] = "CANDIDATE_BEST"
        /\ ann \in [TxHash -> Row] /\ Good(h, ann[h])
    BY DEF RequestOrForget, TrackerInv, world
  <1> HIDE DEF p
  <1>2. CASE AlreadyHaveTx(h, IsWtxid(h))
    <2>1. ann' = ForgetTxHash(ann, {h}) /\ due' = Timed(due, ann')
      BY <1>2 DEF RequestOrForget
    <2>2. /\ ann' \in [TxHash -> Row]
          /\ \A k \in TxHash : Good(k, ann'[k])
          /\ ann'[h] = NoAnnouncements
          /\ \A k \in TxHash \ {h} : ann'[k] = ann[k]
      BY <2>1, ForgetGood, SMTT(40) DEF TrackerInv
    <2>3. RowsKeep
      BY <2>2, EmptyGood DEF RowsKeep, Shrinks
    <2>4. Expiring' = {} /\ Premature' = {}
      <3>1. \A x \in TxHash \X Peer : ann'[x[1]][x[2]] = ann[x[1]][x[2]] \/ ann'[x[1]][x[2]] = NONE
        BY <2>2, SMTT(40) DEF NoAnnouncements
      <3>2. \A x \in TxHash \X Peer :
                ann'[x[1]][x[2]] \in Candidate \cup {"REQUESTED"} => (x \in due' <=> x \in due)
        BY <2>1 DEF Timed
      <3>3. Expiring' = {}
        BY <1>1, <3>1, <3>2 DEF Expiring, IsWaiting, Candidate, NONE
      <3>4. Premature' = {}
        BY <1>1, <3>1, <3>2 DEF Premature, IsSelectable, Candidate, NONE
      <3> QED BY <3>3, <3>4
    <2>5. In(ann'[h], State) \subseteq connected
      BY <2>2 DEF In, NoAnnouncements, State, NONE
    <2> QED BY <1>1, <2>2, <2>3, <2>4, <2>5, SendingInv, KeepContract DEF p
  <1>3. CASE ~AlreadyHaveTx(h, IsWtxid(h))
    <2>1. ann' = [ann EXCEPT ![h] = RequestedTx(ann[h], p)] /\ due' = due \ {<<h, p>>}
      BY <1>3 DEF RequestOrForget, p
    <2>2. /\ Good(h, RequestedTx(ann[h], p))
          /\ RequestedTx(ann[h], p) = [ann[h] EXCEPT ![p] = "REQUESTED"]
          /\ Abs(RequestedTx(ann[h], p)) = [Abs(ann[h]) EXCEPT ![p] = "REQUESTED"]
      BY <1>1, RequestedGood
    <2>3. /\ ann' \in [TxHash -> Row]
          /\ \A k \in TxHash : Good(k, ann'[k])
          /\ \A k \in TxHash \ {h} : ann'[k] = ann[k]
          /\ ann'[h] = [ann[h] EXCEPT ![p] = "REQUESTED"]
      BY <2>1, <2>2 DEF TrackerInv, Good
    <2>4. Expiring' = {} /\ Premature' = {}
      <3>1. \A x \in TxHash \X Peer : x # <<h, p>> =>
                ann'[x[1]][x[2]] = ann[x[1]][x[2]] /\ (x \in due' <=> x \in due)
        BY <1>1, <2>1, <2>3, SMTT(40) DEF Row
      <3>2. ann'[h][p] = "REQUESTED" /\ <<h, p>> \notin due'
        BY <1>1, <2>1, <2>3, SMTT(40) DEF Row
      <3>3. Expiring' = {}
        BY <1>1, <3>1, <3>2 DEF Expiring
      <3>4. Premature' = {}
        BY <1>1, <3>1, <3>2, SMTT(40) DEF Premature, IsSelectable
      <3> QED BY <3>3, <3>4
    <2>5. In(ann'[h], State) \subseteq connected
      <3>1. In(ann'[h], State) \subseteq In(ann[h], State)
        BY <1>1, <2>3 DEF In, State, Row
      <3> QED BY <3>1 DEF TrackerInv
    <2>6. TrackerInv'
      BY <1>1, <2>3, <2>4, <2>5, SendingInv DEF p
    <2>7. Contract(h)!Request(p)
      <3>1. Sane(h, ann[h]) /\ ann[h] \in Row
        BY <1>1 DEF Good
      <3>2. \A q \in Peer : ann[h][q] # "REQUESTED"
        BY <1>1, <3>1, SMTT(40) DEF Sane, In, IsSelected
      <3>3. <<h, p>> \in due
        BY <1>1 DEF Premature, IsSelectable
      <3>4. ASSUME NEW q \in Peer \ {p}, <<h, q>> \in due, ann[h][q] \in Candidate
            PROVE  Better(h, p, q)
        <4>1. ann[h][q] # "CANDIDATE_DELAYED"
          BY <1>1, <3>4 DEF Expiring, IsWaiting
        <4>2. ann[h][q] # "CANDIDATE_BEST"
          BY <1>1, <3>1, <3>4 DEF Sane, In, IsSelected
        <4> QED BY <1>1, <3>1, <3>4, <4>1, <4>2 DEF Sane, Candidate
      <3>5. Abs(ann[h]) = [q \in Peer |-> Abstract(ann[h][q])] /\ Abs(ann'[h]) = [q \in Peer |-> Abstract(ann'[h][q])]
        BY DEF Abs
      <3>6. Abs(ann'[h]) = [Abs(ann[h]) EXCEPT ![p] = "REQUESTED"]
        BY <2>2, <2>3
      <3>7. /\ \A q \in Peer : Abs(ann[h])[q] # "REQUESTED"
            /\ \A q \in Peer : Abs(ann[h])[q] = "CANDIDATE" <=> ann[h][q] \in Candidate
            /\ Abs(ann[h])[p] = "CANDIDATE"
        <4>1. "CANDIDATE_BEST" \in Candidate
          BY DEF Candidate
        <4>2. \A q \in Peer : /\ Abs(ann[h])[q] = "REQUESTED" <=> ann[h][q] = "REQUESTED"
                              /\ Abs(ann[h])[q] = "CANDIDATE" <=> ann[h][q] \in Candidate
          BY <3>1, AbsRow
        <4> QED BY <1>1, <3>2, <4>1, <4>2
      <3>8. Contract(h)!Requestable(p)
        BY <1>1, <3>3, <3>4, <3>5, <3>7 DEF Contract!Requestable
      <3> QED BY <3>5, <3>6, <3>8 DEF Contract!Request
    <2>8. ASSUME NEW k \in TxHash PROVE Contract(k)!Step
      <3>1. CASE k = h
        BY <1>1, <2>7, <3>1 DEF Contract!Step, Contract!Next
      <3>2. CASE k # h
        <4>1. ann'[k] = ann[k]
          BY <2>3, <3>2
        <4> QED BY <4>1 DEF Contract!Step
      <3> QED BY <3>1, <3>2
    <2> QED BY <2>6, <2>8
  <1> QED BY <1>2, <1>3

-----------------------------------------------------------------------------
(* The theorems.                                                            *)

\* The invariant holds at the start.
LEMMA TrackerInit ==
    ASSUME Init
    PROVE  TrackerInv /\ \A h \in TxHash : Contract(h)!Init
  <1>1. ann = [h \in TxHash |-> NoAnnouncements] /\ send = Idle /\ connected = Peer
    BY DEF Init
  <1>2. \A h \in TxHash : ann[h] = NoAnnouncements /\ Good(h, ann[h])
    BY <1>1, EmptyGood
  <1>3. /\ send \in [peer : Peer \cup {NoPeer}, phase : {"idle", "time", "request"}, todo : SUBSET TxHash]
        /\ send.phase = "idle" /\ send.todo = {}
    BY <1>1 DEF Idle
  <1>4. ann \in [TxHash -> Row] /\ \A h \in TxHash : In(ann[h], State) \subseteq connected
    BY <1>1, <1>2 DEF In, Good
  <1>5. TrackerInv
    BY <1>1, <1>2, <1>3, <1>4 DEF TrackerInv
  <1>6. ASSUME NEW h \in TxHash PROVE Contract(h)!Init
    BY <1>2 DEF Contract!Init, Abstract, NoAnnouncements, NONE, Candidate
  <1> QED BY <1>5, <1>6

\* Every step preserves the invariant and is a step of the contract of each hash.
LEMMA TrackerNext ==
    ASSUME TrackerInv, [Next]_vars
    PROVE  TrackerInv' /\ \A h \in TxHash : Contract(h)!Step
  <1>1. ASSUME RowsKeep PROVE \A h \in TxHash : Contract(h)!Step
    BY <1>1, KeepContract
  <1>2. ASSUME NEW p \in Peer, NEW h \in TxHash,
               Inv(p, h) \/ NotFound(p, h) \/ MoveTime(h, p) \/ ClockForward(h, p) \/ ClockBackward(h, p)
        PROVE  RowsKeep /\ TrackerInv'
    <2>1. CASE ClockForward(h, p)
      BY <2>1, OtherStep DEF ClockForward, world
    <2>2. CASE ClockBackward(h, p)
      BY <2>2, OtherStep DEF ClockBackward
    <2> QED BY <1>2, <2>1, <2>2, InvStep, NotFoundStep, MoveTimeStep
  <1>3. ASSUME NEW p \in Peer, ProcessWorkSet(p) \/ GetRequestable(p) \/ Disconnect(p)
        PROVE  RowsKeep /\ TrackerInv'
    <2>1. CASE ProcessWorkSet(p)
      BY <2>1, OtherStep DEF ProcessWorkSet, tracker
    <2> QED BY <1>3, <2>1, GetRequestableStep, DisconnectStep
  <1>4. ASSUME NEW block \in Blocks, ConnectBlock(block)
        PROVE  RowsKeep /\ TrackerInv'
    BY <1>4, OtherStep DEF ConnectBlock, tracker
  <1>5. ASSUME EraseOrphansOfBlock \/ RememberConfirmed \/ ForgetConfirmed
        PROVE  RowsKeep /\ TrackerInv'
    <2>1. CASE EraseOrphansOfBlock
      BY <2>1, OtherStep DEF EraseOrphansOfBlock, tracker
    <2>2. CASE RememberConfirmed
      BY <2>2, OtherStep DEF RememberConfirmed, tracker
    <2> QED BY <1>5, <2>1, <2>2, ForgetConfirmedStep
  <1>6. CASE UNCHANGED vars
    BY <1>1, <1>6, OtherStep DEF vars
  <1>7. CASE Next
    BY <1>1, <1>2, <1>3, <1>4, <1>5, <1>7, ProcessTxStep, RequestOrForgetStep DEF Next
  <1> QED BY <1>6, <1>7

\* For any peers and transactions, whatever the interleaving of messages,
\* disconnections, blocks and the clock, the tracker passes SanityCheck, holds
\* announcements of connected peers only, and what SendMessages requests is the
\* best candidate of its row.
THEOREM TrackerAlwaysSane == Spec => []TrackerSane
  <1>1. Init => TrackerInv
    BY TrackerInit
  <1>2. TrackerInv /\ [Next]_vars => TrackerInv'
    BY TrackerNext
  <1>3. TrackerInv => TrackerSane
    BY DEF TrackerInv, TrackerSane, Good
  <1> QED BY <1>1, <1>2, <1>3, PTL DEF Spec

\* For any peers and transactions the tracker does, for each hash, only what the
\* rules at the head of txrequest.h allow.
THEOREM TrackerRefinement == Spec => ImplementsTracker
  <1>1. Init => TrackerInv /\ \A h \in TxHash : Contract(h)!Init
    BY TrackerInit
  <1>2. TrackerInv /\ [Next]_vars => TrackerInv' /\ [\A h \in TxHash : Contract(h)!Step]_vars
    BY TrackerNext
  <1> QED BY <1>1, <1>2, PTL DEF Spec, ImplementsTracker

-----------------------------------------------------------------------------
(* The orphanage.                                                           *)

\* Induction on the number of elements.
LEMMA LevelInduction ==
    ASSUME NEW n \in Nat, NEW S, 0 \in S, \A i \in 1 .. n : i - 1 \in S => i \in S
    PROVE  n \in S
  <1> DEFINE T == (0 .. n) \ S
  <1> SUFFICES ASSUME T # {} PROVE FALSE
    BY SMTT(40)
  <1>0. T \in SUBSET Nat
    BY SMTT(40)
  <1> HIDE DEF T
  <1>1. PICK k \in T : \A j \in T : k <= j
    BY <1>0, LeastNatural
  <1> USE DEF T
  <1>2. k \in 1 .. n /\ k - 1 \in 0 .. n
    BY <1>1, SMTT(40)
  <1> QED BY <1>1, <1>2, SMTT(40)

\* The element that FoldSet takes next.
Pick(s) == CHOOSE x \in s : TRUE

\* Taking it from a finite set.
LEMMA PickSmaller ==
    ASSUME NEW T, IsFiniteSet(T), NEW s \in SUBSET T, s # {}
    PROVE  /\ Pick(s) \in s
           /\ s \ {Pick(s)} \in SUBSET T
           /\ Cardinality(s) \in Nat \ {0}
           /\ Cardinality(s \ {Pick(s)}) = Cardinality(s) - 1
  <1>1. Pick(s) \in s
    BY DEF Pick
  <1>2. IsFiniteSet(s)
    BY FS_Subset
  <1>3. Cardinality(s) \in Nat /\ Cardinality(s) # 0
    BY <1>2, FS_CardinalityType, FS_EmptySet
  <1>4. Cardinality(s \ {Pick(s)}) = Cardinality(s) - 1
    BY <1>1, <1>2, FS_RemoveElement
  <1> QED BY <1>1, <1>3, <1>4

\* r[s] is what erasing the orphans s from o, one after the other, leaves.
EraseRun(o, T, r) ==
    /\ r[{}] = o
    /\ \A s \in SUBSET T : s # {} => r[s] = EraseTx(r[s \ {Pick(s)}], Pick(s))

\* The recursion of FoldSet in EraseAll is well-founded.
LEMMA EraseLoop ==
    ASSUME NEW o, NEW T, IsFiniteSet(T)
    PROVE  \E r : EraseRun(o, T, r) /\ EraseAll(o, T) = r[T]
  <1> DEFINE n == Cardinality(T)
             Level(k) == {s \in SUBSET T : Cardinality(s) <= k}
             Runs(D, f) == f = [s \in D |-> IF s = {} THEN o ELSE EraseTx(f[s \ {Pick(s)}], Pick(s))]
             S == {k \in 0 .. n : \E f : Runs(Level(k), f)}
             F == CHOOSE f : Runs(SUBSET T, f)
  <1>0. n \in Nat
    BY FS_CardinalityType
  <1>1. EraseAll(o, T) = F[T]
    BY DEF EraseAll, FoldSet, MapThenFoldSet, Pick
  <1>2. 0 \in S
    <2>1. ASSUME NEW s \in Level(0), s # {} PROVE FALSE
      <3>1. Cardinality(s) \in Nat \ {0}
        BY <2>1, PickSmaller
      <3> QED BY <3>1, SMTT(40)
    <2>2. Runs(Level(0), [s \in Level(0) |-> o])
      BY <2>1
    <2> HIDE DEF Runs, Level
    <2> QED BY <1>0, <2>2, SMTT(40)
  <1>3. ASSUME NEW k \in 1 .. n, k - 1 \in S PROVE k \in S
    <2>1. PICK f : Runs(Level(k - 1), f)
      BY <1>3
    <2> DEFINE g == [s \in Level(k) |-> IF s = {} THEN o ELSE EraseTx(f[s \ {Pick(s)}], Pick(s))]
    <2>2. ASSUME NEW s \in Level(k), s # {} PROVE s \ {Pick(s)} \in Level(k - 1) /\ s \ {Pick(s)} \in Level(k)
      <3>1. /\ s \ {Pick(s)} \in SUBSET T
            /\ Cardinality(s) \in Nat \ {0}
            /\ Cardinality(s \ {Pick(s)}) = Cardinality(s) - 1
        BY <2>2, PickSmaller
      <3>2. Cardinality(s) <= k /\ k \in Nat
        BY <1>0, SMTT(40)
      <3>3. Cardinality(s) - 1 <= k - 1 /\ Cardinality(s) - 1 <= k
        BY <3>1, <3>2, SMTT(40)
      <3> QED BY <3>1, <3>3
    <2> HIDE DEF Level
    <2>3. ASSUME NEW s \in Level(k - 1), s \in Level(k) PROVE g[s] = f[s]
      <3>1. f[s] = IF s = {} THEN o ELSE EraseTx(f[s \ {Pick(s)}], Pick(s))
        BY <2>1, <2>3
      <3> QED BY <2>3, <3>1
    <2>4. Runs(Level(k), g)
      <3>1. ASSUME NEW s \in Level(k)
            PROVE  (IF s = {} THEN o ELSE EraseTx(f[s \ {Pick(s)}], Pick(s)))
                     = IF s = {} THEN o ELSE EraseTx(g[s \ {Pick(s)}], Pick(s))
        <4> HIDE DEF g
        <4> QED BY <2>2, <2>3
      <3>2. g = [s \in Level(k) |-> IF s = {} THEN o ELSE EraseTx(f[s \ {Pick(s)}], Pick(s))]
        OBVIOUS
      <3> HIDE DEF g
      <3> QED BY <3>1, <3>2
    <2> HIDE DEF Runs, g
    <2> QED BY <1>0, <2>4, SMTT(40)
  <1>4. \E f : Runs(SUBSET T, f)
    <2>1. n \in S
      <3> HIDE DEF S
      <3> QED BY <1>0, <1>2, <1>3, LevelInduction
    <2>2. ASSUME NEW s \in SUBSET T PROVE Cardinality(s) <= n
      BY FS_Subset
    <2>3. Level(n) = SUBSET T
      BY <2>2
    <2> HIDE DEF Level, Runs
    <2> QED BY <2>1, <2>3
  <1>5. Runs(SUBSET T, F)
    <2> HIDE DEF Runs
    <2> QED BY <1>4
  <1>6. EraseRun(o, T, F)
    <2> HIDE DEF F
    <2>1. {} \in SUBSET T
      OBVIOUS
    <2> QED BY <1>5, <2>1 DEF EraseRun
  <1> QED BY <1>1, <1>6

Ids(o) == DOMAIN o.orphans

\* The three structures of an orphanage agree: m_orphan_list holds every orphan once,
\* at the position its entry says, and m_outpoint_to_orphan_it indexes the inputs.
Consistent(o) ==
    /\ IsFiniteSet(Ids(o))
    /\ Len(o.list) = Cardinality(Ids(o))
    /\ o.list \in Seq(Ids(o))
    /\ \A id \in Ids(o) :
           /\ o.orphans[id] \in [tx : Tx, from : Peer, pos : 1 .. Len(o.list)]
           /\ Txid[o.orphans[id].tx] = id
           /\ o.list[o.orphans[id].pos] = id
    /\ \A i \in 1 .. Len(o.list) : o.orphans[o.list[i]].pos = i
    /\ \A op \in Outpoint : o.byPrev[op] = {id \in Ids(o) : op \in Inputs[o.orphans[id].tx]}

\* n is o without the orphans s.
Without(o, s, n) ==
    /\ Consistent(n)
    /\ Ids(n) = Ids(o) \ s
    /\ \A id \in Ids(n) : n.orphans[id].tx = o.orphans[id].tx /\ n.orphans[id].from = o.orphans[id].from

\* EraseTx moves the last entry of the list to the place of the one it erases.
LEMMA EraseTxConsistent ==
    ASSUME NEW o, Consistent(o), NEW id \in Ids(o)
    PROVE  Without(o, {id}, EraseTx(o, id))
  <1> DEFINE n    == EraseTx(o, id)
             pos  == o.orphans[id].pos
             k    == Len(o.list)
             last == o.list[k]
             rest == Ids(o) \ {id}
  <1>0. /\ IsFiniteSet(Ids(o)) /\ k = Cardinality(Ids(o)) /\ o.list \in Seq(Ids(o))
        /\ \A i \in Ids(o) : /\ o.orphans[i] \in [tx : Tx, from : Peer, pos : 1 .. k]
                             /\ o.list[o.orphans[i].pos] = i
                             /\ Txid[o.orphans[i].tx] = i
        /\ \A i \in 1 .. k : o.orphans[o.list[i]].pos = i
    BY DEF Consistent
  <1>1. /\ k \in Nat \ {0} /\ pos \in 1 .. k /\ last \in Ids(o) /\ o.list[pos] = id
        /\ \A i \in 1 .. k : o.list[i] \in Ids(o)
    BY <1>0, SMTT(40)
  <1>2. /\ n.orphans = [i \in rest |-> IF i = last THEN [o.orphans[i] EXCEPT !.pos = pos] ELSE o.orphans[i]]
        /\ n.list = SubSeq([o.list EXCEPT ![pos] = last], 1, k - 1)
        /\ n.byPrev = [op \in Outpoint |-> IF op \in Inputs[o.orphans[id].tx]
                                          THEN o.byPrev[op] \ {id} ELSE o.byPrev[op]]
    BY DEF EraseTx, OrphanTx, Ids
  <1> HIDE DEF n
  <1>3. Ids(n) = rest
    BY <1>2 DEF Ids
  <1>4. /\ IsFiniteSet(rest) /\ Cardinality(rest) = k - 1
    BY <1>0, FS_RemoveElement
  <1>5. Len(n.list) = k - 1 /\ \A i \in 1 .. k - 1 : n.list[i] = IF i = pos THEN last ELSE o.list[i]
    <2> DEFINE moved == [o.list EXCEPT ![pos] = last]
    <2>1. moved \in Seq(Ids(o)) /\ Len(moved) = k
      BY <1>0, <1>1, SMTT(40)
    <2>2. \A i \in 1 .. k : moved[i] = IF i = pos THEN last ELSE o.list[i]
      BY <1>0, <1>1, SMTT(40)
    <2> HIDE DEF moved
    <2>3. n.list = SubSeq(moved, 1, k - 1)
      BY <1>2 DEF moved
    <2> HIDE DEF k, last, pos
    <2>4. Len(n.list) = k - 1 /\ \A i \in 1 .. k - 1 : n.list[i] = moved[i]
      BY <1>1, <2>1, <2>3, SMTT(40)
    <2> QED BY <1>1, <2>2, <2>4, SMTT(40)
  <1>6. ASSUME NEW i \in 1 .. k - 1 PROVE n.list[i] \in rest /\ n.orphans[n.list[i]].pos = i
    <2>1. i \in 1 .. k /\ i # k /\ k \in 1 .. k
      BY <1>1, SMTT(40)
    <2>2. CASE i = pos
      <3>1. last # id
        BY <1>0, <1>1, <2>1, <2>2
      <3>2. n.orphans[last] = [o.orphans[last] EXCEPT !.pos = pos]
        BY <1>1, <1>2, <3>1
      <3>3. o.orphans[last] \in [tx : Tx, from : Peer, pos : 1 .. k]
        BY <1>0, <1>1
      <3>4. n.orphans[last].pos = pos
        BY <3>2, <3>3
      <3> QED BY <1>1, <1>5, <2>2, <3>1, <3>4
    <2>3. CASE i # pos
      <3>1. o.list[i] # id /\ o.list[i] # last /\ o.list[i] \in Ids(o) /\ o.orphans[o.list[i]].pos = i
        BY <1>0, <1>1, <2>1, <2>3
      <3>2. n.list[i] = o.list[i]
        BY <1>5, <2>3
      <3>3. n.orphans[o.list[i]] = o.orphans[o.list[i]]
        BY <1>2, <3>1
      <3> QED BY <3>1, <3>2, <3>3
    <2> QED BY <2>2, <2>3
  <1>7. ASSUME NEW i \in rest
        PROVE  /\ n.orphans[i].tx = o.orphans[i].tx /\ n.orphans[i].from = o.orphans[i].from
               /\ n.orphans[i] \in [tx : Tx, from : Peer, pos : 1 .. k - 1]
               /\ n.list[n.orphans[i].pos] = i
    <2>1. o.orphans[i] \in [tx : Tx, from : Peer, pos : 1 .. k] /\ o.list[o.orphans[i].pos] = i /\ i # id
      BY <1>0
    <2>2. CASE i = last
      <3>1. n.orphans[i] = [o.orphans[i] EXCEPT !.pos = pos]
        BY <1>2, <2>2
      <3>2. pos # k
        BY <1>1, <2>1, <2>2
      <3>3. pos \in 1 .. k - 1
        BY <1>1, <3>2, SMTT(40)
      <3>4. /\ n.orphans[i].tx = o.orphans[i].tx /\ n.orphans[i].from = o.orphans[i].from
            /\ n.orphans[i].pos = pos
        BY <2>1, <3>1
      <3>5. n.orphans[i] \in [tx : Tx, from : Peer, pos : 1 .. k - 1]
        <4> HIDE DEF pos, k
        <4> QED BY <2>1, <3>1, <3>3
      <3> QED BY <1>5, <2>2, <3>3, <3>4, <3>5
    <2>3. CASE i # last
      <3>1. n.orphans[i] = o.orphans[i]
        BY <1>2, <2>3
      <3>2. o.orphans[i].pos \in 1 .. k /\ o.orphans[i].pos # k /\ o.orphans[i].pos # pos
        BY <1>1, <2>1, <2>3
      <3>3. o.orphans[i].pos \in 1 .. k - 1
        BY <1>1, <3>2, SMTT(40)
      <3>4. o.orphans[i] \in [tx : Tx, from : Peer, pos : 1 .. k - 1]
        <4> HIDE DEF k
        <4> QED BY <2>1, <3>3
      <3> QED BY <1>5, <2>1, <3>1, <3>2, <3>3, <3>4
    <2> QED BY <2>2, <2>3
  <1>8. ASSUME NEW op \in Outpoint
        PROVE  n.byPrev[op] = {i \in rest : op \in Inputs[n.orphans[i].tx]}
    <2>1. o.byPrev[op] = {i \in Ids(o) : op \in Inputs[o.orphans[i].tx]}
      BY DEF Consistent
    <2>2. {i \in rest : op \in Inputs[n.orphans[i].tx]} = {i \in rest : op \in Inputs[o.orphans[i].tx]}
      BY <1>7
    <2>3. n.byPrev[op] = IF op \in Inputs[o.orphans[id].tx] THEN o.byPrev[op] \ {id} ELSE o.byPrev[op]
      BY <1>2
    <2> QED BY <2>1, <2>2, <2>3
  <1>9. n.list \in Seq(rest)
    <2>1. n.list \in Seq(Ids(o))
      <3>1. [o.list EXCEPT ![pos] = last] \in Seq(Ids(o)) /\ Len([o.list EXCEPT ![pos] = last]) = k
        BY <1>0, <1>1, SMTT(40)
      <3> HIDE DEF k, last, pos
      <3> QED BY <1>1, <1>2, <3>1, SMTT(40)
    <2> HIDE DEF k, rest
    <2> QED BY <1>1, <1>5, <1>6, <2>1, SMTT(40)
  <1>10. Consistent(n)
    <2>1. \A i \in Ids(n) : Txid[n.orphans[i].tx] = i
      BY <1>0, <1>3, <1>7
    <2> HIDE DEF k, rest
    <2> QED BY <1>3, <1>4, <1>5, <1>6, <1>7, <1>8, <1>9, <2>1 DEF Consistent
  <1> HIDE DEF rest
  <1>11. Without(o, {id}, n)
    <2>1. rest = Ids(o) \ {id}
      BY DEF rest
    <2> QED BY <1>3, <1>7, <1>10, <2>1 DEF Without
  <1> QED BY <1>11 DEF n

\* Erasing orphans one after the other leaves the others.
LEMMA EraseAllConsistent ==
    ASSUME NEW o, Consistent(o), NEW T \in SUBSET Ids(o)
    PROVE  Without(o, T, EraseAll(o, T))
  <1>1. IsFiniteSet(T)
    BY FS_Subset DEF Consistent
  <1>2. PICK r : EraseRun(o, T, r) /\ EraseAll(o, T) = r[T]
    BY <1>1, EraseLoop
  <1> DEFINE S == {k \in Nat : \A s \in SUBSET T : Cardinality(s) <= k => Without(o, s, r[s])}
  <1>3. ASSUME NEW s \in SUBSET T, s = {} PROVE Without(o, s, r[s])
    <2>1. r[s] = o
      BY <1>2, <1>3 DEF EraseRun
    <2> QED BY <1>3, <2>1 DEF Without
  <1>4. 0 \in S
    <2>1. ASSUME NEW s \in SUBSET T, Cardinality(s) <= 0, s # {} PROVE FALSE
      <3>1. Cardinality(s) \in Nat \ {0}
        BY <1>1, <2>1, PickSmaller
      <3> QED BY <2>1, <3>1, SMTT(40)
    <2>2. 0 \in Nat
      BY SMTT(40)
    <2> QED BY <1>3, <2>1, <2>2
  <1>5. ASSUME NEW k \in Nat, k - 1 \in S, k # 0 PROVE k \in S
    <2>1. ASSUME NEW s \in SUBSET T, Cardinality(s) <= k, s # {} PROVE Without(o, s, r[s])
      <3> DEFINE id == Pick(s)
                 u  == s \ {id}
      <3>1. /\ id \in s /\ u \in SUBSET T /\ Cardinality(s) \in Nat \ {0}
            /\ Cardinality(u) = Cardinality(s) - 1
        BY <1>1, <2>1, PickSmaller
      <3>2. Cardinality(u) <= k - 1
        BY <2>1, <3>1, SMTT(40)
      <3>3. Without(o, u, r[u])
        BY <1>5, <3>1, <3>2
      <3>4. r[s] = EraseTx(r[u], id)
        BY <1>2, <2>1 DEF EraseRun
      <3> HIDE DEF id, u, S
      <3>5. id \in Ids(r[u]) /\ Consistent(r[u])
        BY <3>1, <3>3 DEF Without, u
      <3>6. Without(r[u], {id}, r[s])
        BY <3>4, <3>5, EraseTxConsistent
      <3>7. Ids(r[s]) = Ids(o) \ s
        BY <3>1, <3>3, <3>6 DEF Without, u
      <3> QED BY <3>3, <3>6, <3>7 DEF Without
    <2> QED BY <1>3, <2>1
  <1>6. Cardinality(T) \in Nat
    BY <1>1, FS_CardinalityType
  <1>7. Cardinality(T) \in S
    <2> HIDE DEF S
    <2>1. \A i \in 1 .. Cardinality(T) : i - 1 \in S => i \in S
      BY <1>5, <1>6, SMTT(40)
    <2> QED BY <1>4, <1>6, <2>1, LevelInduction
  <1>8. Cardinality(T) <= Cardinality(T)
    BY <1>6, SMTT(40)
  <1> QED BY <1>2, <1>7, <1>8

\* Erasing the orphans of a peer that leaves.
LEMMA EraseForPeerConsistent ==
    ASSUME NEW o, Consistent(o), NEW p
    PROVE  Without(o, {id \in Ids(o) : o.orphans[id].from = p}, EraseForPeer(o, p))
  BY EraseAllConsistent DEF EraseForPeer, Ids

\* Erasing the orphans that a block confirms or conflicts with.
LEMMA EraseForBlockConsistent ==
    ASSUME NEW o, Consistent(o), NEW block \in SUBSET Tx
    PROVE  \E s \in SUBSET Ids(o) : Without(o, s, EraseForBlock(o, block))
  <1> DEFINE ops == UNION {Inputs[t] : t \in block}
             s   == UNION {o.byPrev[op] : op \in ops}
  <1>1. ops \subseteq Outpoint
    BY DEF Outpoint
  <1>2. s \in SUBSET Ids(o)
    <2> HIDE DEF ops
    <2>1. ASSUME NEW op \in ops PROVE o.byPrev[op] \subseteq Ids(o)
      <3>1. op \in Outpoint
        BY <1>1
      <3>2. o.byPrev[op] = {id \in Ids(o) : op \in Inputs[o.orphans[id].tx]}
        BY <3>1 DEF Consistent
      <3> QED BY <3>2
    <2> QED BY <2>1
  <1> HIDE DEF s
  <1>3. EraseForBlock(o, block) = EraseAll(o, s)
    BY DEF EraseForBlock, s
  <1> QED BY <1>2, <1>3, EraseAllConsistent

\* AddTx puts an orphan at the end of the list.
LEMMA AddTxConsistent ==
    ASSUME NEW o, Consistent(o), NEW t \in Tx, NEW p \in Peer, AddTx(o, t, p) # o
    PROVE  LET n == AddTx(o, t, p)
           IN  /\ Consistent(n)
               /\ Txid[t] \notin Ids(o) /\ Ids(n) = Ids(o) \cup {Txid[t]}
               /\ Len(n.list) = Len(o.list) + 1
               /\ n.orphans[Txid[t]].tx = t /\ n.orphans[Txid[t]].from = p
               /\ \A i \in Ids(o) : n.orphans[i] = o.orphans[i]
  <1> DEFINE n  == AddTx(o, t, p)
             id == Txid[t]
             k  == Len(o.list)
             new == [tx |-> t, from |-> p, pos |-> k + 1]
  <1>0. id \notin Ids(o) /\ t \notin Big
    BY DEF AddTx, Ids
  <1>1. /\ n.orphans = [i \in Ids(o) \cup {id} |-> IF i = id THEN new ELSE o.orphans[i]]
        /\ n.list = Append(o.list, id)
        /\ n.byPrev = [op \in Outpoint |-> IF op \in Inputs[t] THEN o.byPrev[op] \cup {id} ELSE o.byPrev[op]]
    BY <1>0 DEF AddTx, Ids
  <1> HIDE DEF n
  <1>2. /\ IsFiniteSet(Ids(o)) /\ k = Cardinality(Ids(o)) /\ o.list \in Seq(Ids(o)) /\ k \in Nat
        /\ \A i \in Ids(o) : /\ o.orphans[i] \in [tx : Tx, from : Peer, pos : 1 .. k]
                             /\ o.list[o.orphans[i].pos] = i
                             /\ Txid[o.orphans[i].tx] = i
        /\ \A i \in 1 .. k : o.orphans[o.list[i]].pos = i
    <2>1. Cardinality(Ids(o)) \in Nat
      BY FS_CardinalityType DEF Consistent
    <2> QED BY <2>1 DEF Consistent
  <1>3. Ids(n) = Ids(o) \cup {id}
    BY <1>1 DEF Ids
  <1>4. n.orphans[id] = new /\ \A i \in Ids(o) : n.orphans[i] = o.orphans[i]
    BY <1>0, <1>1
  <1>5. IsFiniteSet(Ids(n)) /\ Cardinality(Ids(n)) = k + 1
    <2>1. IsFiniteSet(Ids(o) \cup {id}) /\ Cardinality(Ids(o) \cup {id}) = Cardinality(Ids(o)) + 1
      BY <1>0, <1>2, FS_AddElement
    <2> QED BY <1>2, <1>3, <2>1
  <1>6. /\ n.list \in Seq(Ids(n)) /\ Len(n.list) = k + 1
        /\ n.list[k + 1] = id /\ \A i \in 1 .. k : n.list[i] = o.list[i] /\ n.list[i] \in Ids(o)
    <2>1. o.list \in Seq(Ids(n)) /\ id \in Ids(n)
      BY <1>2, <1>3, SMTT(40)
    <2> HIDE DEF id
    <2> QED BY <1>1, <1>2, <2>1, SMTT(40)
  <1>7. ASSUME NEW i \in Ids(n)
        PROVE  /\ n.orphans[i] \in [tx : Tx, from : Peer, pos : 1 .. k + 1]
               /\ Txid[n.orphans[i].tx] = i /\ n.list[n.orphans[i].pos] = i
    <2>1. CASE i = id
      <3>1. k + 1 \in 1 .. k + 1
        BY <1>2, SMTT(40)
      <3>2. n.orphans[i] = new /\ new.tx = t /\ new.pos = k + 1
        BY <1>4, <2>1
      <3>3. new \in [tx : Tx, from : Peer, pos : 1 .. k + 1]
        BY <3>1
      <3> HIDE DEF new, k
      <3> QED BY <1>6, <2>1, <3>2, <3>3
    <2>2. CASE i \in Ids(o)
      <3>1. o.orphans[i] \in [tx : Tx, from : Peer, pos : 1 .. k + 1]
        <4>1. 1 .. k \subseteq 1 .. k + 1
          BY <1>2, SMTT(40)
        <4>2. o.orphans[i] \in [tx : Tx, from : Peer, pos : 1 .. k]
          BY <1>2, <2>2
        <4> HIDE DEF k
        <4> QED BY <4>1, <4>2
      <3>2. /\ n.orphans[i] = o.orphans[i] /\ o.list[o.orphans[i].pos] = i /\ Txid[o.orphans[i].tx] = i
            /\ o.orphans[i].pos \in 1 .. k
        BY <1>2, <1>4, <2>2
      <3> HIDE DEF k
      <3> QED BY <1>6, <3>1, <3>2
    <2> QED BY <1>3, <2>1, <2>2
  <1>8. ASSUME NEW i \in 1 .. k + 1 PROVE n.orphans[n.list[i]].pos = i
    <2>1. i \in 1 .. k \/ i = k + 1
      BY <1>2, SMTT(40)
    <2>2. CASE i \in 1 .. k
      <3>1. n.list[i] = o.list[i] /\ o.list[i] \in Ids(o)
        BY <1>6, <2>2
      <3>2. n.orphans[o.list[i]] = o.orphans[o.list[i]] /\ o.orphans[o.list[i]].pos = i
        BY <1>2, <1>4, <2>2, <3>1
      <3> QED BY <3>1, <3>2
    <2>3. CASE i = k + 1
      <3>1. n.list[i] = id /\ n.orphans[id].pos = k + 1
        <4>1. n.list[i] = id
          BY <1>6, <2>3
        <4>2. n.orphans[id] = new /\ new.pos = k + 1
          BY <1>4
        <4> QED BY <4>1, <4>2
      <3> QED BY <2>3, <3>1
    <2> QED BY <2>1, <2>2, <2>3
  <1>9. ASSUME NEW op \in Outpoint
        PROVE  n.byPrev[op] = {i \in Ids(n) : op \in Inputs[n.orphans[i].tx]}
    <2>1. o.byPrev[op] = {i \in Ids(o) : op \in Inputs[o.orphans[i].tx]}
      BY DEF Consistent
    <2>2. n.byPrev[op] = IF op \in Inputs[t] THEN o.byPrev[op] \cup {id} ELSE o.byPrev[op]
      BY <1>1
    <2>3. n.orphans[id].tx = t
      <3>1. n.orphans[id] = new /\ new.tx = t
        BY <1>4
      <3> QED BY <3>1
    <2> QED BY <1>0, <1>3, <1>4, <2>1, <2>2, <2>3
  <1>10. Consistent(n)
    <2> HIDE DEF k
    <2> QED BY <1>5, <1>6, <1>7, <1>8, <1>9 DEF Consistent
  <1>11. n.orphans[id].tx = t /\ n.orphans[id].from = p
    <2>1. n.orphans[id] = new /\ new.tx = t /\ new.from = p
      BY <1>4
    <2> QED BY <2>1
  <1>12. Len(n.list) = Len(o.list) + 1
    BY <1>6
  <1> QED BY <1>0, <1>3, <1>4, <1>10, <1>11, <1>12 DEF n

\* The orphanages that LimitOrphans may leave.
LEMMA LimitOrphansConsistent ==
    ASSUME NEW o, Consistent(o), NEW id, NEW n \in LimitOrphans(o, id)
    PROVE  /\ \E s \in SUBSET Ids(o) : Without(o, s, n)
           /\ Len(o.list) <= MaxOrphans + 1 => Len(n.list) <= MaxOrphans
  <1> DEFINE swept(s) == EraseAll(o, s)
             left(s)  == IF Len(swept(s).list) > MaxOrphans
                         THEN {EraseTx(swept(s), swept(s).list[i]) : i \in 1 .. Len(swept(s).list)}
                         ELSE {swept(s)}
  <1>1. PICK s \in SUBSET (Ids(o) \ {id}) : n \in left(s)
    BY DEF LimitOrphans, Ids
  <1>2. s \in SUBSET Ids(o)
    OBVIOUS
  <1> DEFINE w == swept(s)
  <1>3. Without(o, s, w)
    BY <1>2, EraseAllConsistent
  <1> HIDE DEF w
  <1>4. /\ Consistent(w) /\ Ids(w) \subseteq Ids(o)
        /\ Len(o.list) = Cardinality(Ids(o)) /\ Len(w.list) = Cardinality(Ids(w)) /\ IsFiniteSet(Ids(o))
    BY <1>3 DEF Without, Consistent
  <1>5. /\ Len(w.list) <= Len(o.list)
        /\ Len(w.list) \in Nat /\ Len(o.list) \in Nat /\ MaxOrphans \in Nat
    BY <1>4, FS_Subset, FS_CardinalityType, OrphanAssumption
  <1>6. CASE Len(w.list) > MaxOrphans
    <2>1. PICK i \in 1 .. Len(w.list) : n = EraseTx(w, w.list[i])
      BY <1>1, <1>6 DEF w
    <2>2. w.list[i] \in Ids(w)
      BY <1>4, SMTT(40) DEF Consistent
    <2>3. Without(w, {w.list[i]}, n)
      BY <1>4, <2>1, <2>2, EraseTxConsistent
    <2>4. Without(o, s \cup {w.list[i]}, n) /\ s \cup {w.list[i]} \in SUBSET Ids(o)
      BY <1>2, <1>3, <1>4, <2>2, <2>3 DEF Without
    <2>5. Len(n.list) = Len(w.list) - 1
      <3>1. Len(n.list) = Cardinality(Ids(n)) /\ Ids(n) = Ids(w) \ {w.list[i]} /\ IsFiniteSet(Ids(w))
        BY <1>4, <2>3 DEF Without, Consistent
      <3>2. Cardinality(Ids(w) \ {w.list[i]}) = Cardinality(Ids(w)) - 1
        BY <2>2, <3>1, FS_RemoveElement
      <3> QED BY <1>4, <3>1, <3>2
    <2>6. Len(o.list) <= MaxOrphans + 1 => Len(n.list) <= MaxOrphans
      BY <1>5, <2>5, SMTT(40)
    <2> QED BY <2>4, <2>6
  <1>7. CASE ~(Len(w.list) > MaxOrphans)
    <2>1. n = w
      BY <1>1, <1>7 DEF w
    <2>2. Len(n.list) <= MaxOrphans
      BY <1>5, <1>7, <2>1, SMTT(40)
    <2> QED BY <1>2, <1>3, <2>1, <2>2
  <1> QED BY <1>6, <1>7

\* An orphanage without some orphans is no longer.
LEMMA WithoutShorter ==
    ASSUME NEW o, Consistent(o), NEW s, NEW n, Without(o, s, n)
    PROVE  Len(n.list) <= Len(o.list) /\ Len(n.list) \in Nat /\ Len(o.list) \in Nat
  <1>1. /\ Len(o.list) = Cardinality(Ids(o)) /\ Len(n.list) = Cardinality(Ids(n))
        /\ IsFiniteSet(Ids(o)) /\ IsFiniteSet(Ids(n)) /\ Ids(n) \in SUBSET Ids(o)
    BY DEF Without, Consistent
  <1> QED BY <1>1, FS_Subset, FS_CardinalityType

\* All inputs of an orphan are outputs of transactions in the pool.
Ready(o, id, pl) == \A op \in Inputs[o.orphans[id].tx] : \E t \in pl : Txid[t] = op

\* The ready orphans are queued when peer p has the work set w.
QueuedWith(p, w, pl, o) ==
    \A id \in Ids(o) : Ready(o, id, pl) => id \in dropped \cup w \cup UNION {work[q] : q \in connected \ {p}}

\* An event is under way for transactions of the chain.
EventOK(e, c) == e \in [step : 0 .. 3, txs : SUBSET Tx] /\ e.txs \subseteq c

\* What the variables beside the orphanage are.
OrphanTypes ==
    /\ connected \subseteq Peer
    /\ work \in [Peer -> SUBSET TxHash]
    /\ pool \subseteq Tx /\ chain \subseteq Tx /\ EventOK(event, chain)

\* The inductive invariant of the orphanage: its structures agree, every orphan is
\* of a connected peer, and every orphan whose parents are in the mempool is queued.
OrphanInv ==
    /\ OrphanTypes
    /\ Consistent(orphanage) /\ Len(orphanage.list) <= MaxOrphans
    /\ \A id \in Ids(orphanage) : orphanage.orphans[id].from \in connected
    /\ \A id \in Ids(orphanage) :
           Ready(orphanage, id, pool) => id \in dropped \cup UNION {work[q] : q \in connected}

\* A step that at most takes orphans out of the orphanage and transactions out of the pool.
LEMMA FewerOrphans ==
    ASSUME OrphanInv, NEW s, Without(orphanage, s, orphanage'), pool' \subseteq pool,
           UNCHANGED <<work, dropped, connected>>, chain' \subseteq Tx, EventOK(event', chain')
    PROVE  OrphanInv'
  <1>1. Len(orphanage'.list) <= MaxOrphans
    BY WithoutShorter, OrphanAssumption, SMTT(40) DEF OrphanInv
  <1>2. ASSUME NEW id \in Ids(orphanage') PROVE orphanage'.orphans[id].from \in connected
    BY DEF Without, OrphanInv
  <1>3. ASSUME NEW id \in Ids(orphanage'), Ready(orphanage', id, pool')
        PROVE  id \in dropped \cup UNION {work[q] : q \in connected}
    <2>1. Ready(orphanage, id, pool) /\ id \in Ids(orphanage)
      BY <1>3 DEF Without, Ready
    <2> QED BY <2>1 DEF OrphanInv
  <1> QED BY <1>1, <1>2, <1>3 DEF OrphanInv, OrphanTypes, Without

\* In particular one that leaves the orphanage alone.
LEMMA SameOrphans ==
    ASSUME OrphanInv, UNCHANGED <<orphanage, work, dropped, connected>>, pool' \subseteq pool,
           chain' \subseteq Tx, EventOK(event', chain')
    PROVE  OrphanInv'
  <1>1. Without(orphanage, {}, orphanage')
    BY DEF Without, OrphanInv
  <1> QED BY <1>1, FewerOrphans

\* AcceptToMemoryPool finds inputs that are in the pool.
LEMMA ReadyDecided ==
    ASSUME NEW pl, NEW t \in Tx, \A op \in Inputs[t] : \E u \in pl : Txid[u] = op
    PROVE  "TX_MISSING_INPUTS" \notin AcceptToMemoryPool(t, pl)
  <1>1. \A op \in Inputs[t] : HaveCoin(op, pl)
    BY DEF HaveCoin
  <1>2. Verdict[t] # "TX_MISSING_INPUTS"
    BY TxAssumption
  <1> QED BY <1>1, <1>2 DEF AcceptToMemoryPool

\* The children of a transaction are the orphans that spend one of its outputs.
LEMMA ChildrenSpend ==
    ASSUME NEW o, Consistent(o), NEW t \in Tx
    PROVE  Children(o, t) = {id \in Ids(o) : Txid[t] \in Inputs[o.orphans[id].tx]}
  <1>1. Txid[t] \in Outpoint
    BY DEF Outpoint
  <1> QED BY <1>1 DEF Children, Consistent

\* An orphanage knows orphans by their txids.
LEMMA IdsAreHashes ==
    ASSUME NEW o, Consistent(o)
    PROVE  Ids(o) \subseteq TxHash
  <1>1. ASSUME NEW id \in Ids(o) PROVE id \in TxHash
    <2>1. o.orphans[id].tx \in Tx /\ Txid[o.orphans[id].tx] = id
      BY DEF Consistent
    <2>2. Txid \in [Tx -> TxHash]
      BY TxAssumption
    <2> QED BY <2>1, <2>2
  <1> QED BY <1>1

\* ProcessOrphanTx passes over no orphan that is ready.
LEMMA ProcessOrphanKeeps ==
    ASSUME OrphanInv, NEW p \in connected, NEW w \in SUBSET TxHash, NEW pl \in SUBSET Tx, NEW rj,
           QueuedWith(p, w, pl, orphanage), ProcessOrphanTx(p, w, pl, orphanage, rj),
           UNCHANGED <<dropped, connected, chain, event>>
    PROVE  OrphanInv'
  <1> DEFINE o == orphanage
             verdicts(id) == AcceptToMemoryPool(OrphanTx(o, id), pl)
             passable     == {id \in w : id \in DOMAIN o.orphans => "TX_MISSING_INPUTS" \in verdicts(id)}
  <1>1. p \in Peer /\ work \in [Peer -> SUBSET TxHash] /\ connected \subseteq Peer /\ Consistent(o)
    BY DEF OrphanInv, OrphanTypes
  <1>2. ASSUME NEW id \in Ids(o), Ready(o, id, pl), id \in w PROVE id \notin passable
    <2>1. o.orphans[id].tx \in Tx
      BY <1>1 DEF Consistent
    <2> QED BY <1>2, <2>1, ReadyDecided DEF Ready, Ids, OrphanTx
  <1>3. CASE passable = w /\ work' = [work EXCEPT ![p] = {}] /\ pool' = pl /\ orphanage' = o
    <2>1. ASSUME NEW id \in Ids(o), Ready(o, id, pl)
          PROVE  id \in dropped \cup UNION {work'[q] : q \in connected}
      <3>1. id \notin w
        BY <1>2, <1>3, <2>1
      <3>2. id \in dropped \/ \E q \in connected \ {p} : id \in work[q]
        BY <2>1, <3>1 DEF QueuedWith
      <3>3. \A q \in connected \ {p} : work'[q] = work[q]
        BY <1>1, <1>3
      <3> QED BY <3>2, <3>3
    <2>2. work' \in [Peer -> SUBSET TxHash]
      BY <1>1, <1>3
    <2> QED BY <1>3, <2>1, <2>2 DEF OrphanInv, OrphanTypes
  <1>4. ASSUME NEW id \in w \cap DOMAIN o.orphans, NEW passed \in SUBSET passable,
               orphanage' = EraseTx(o, id),
               \/ /\ pool' = pl \cup {OrphanTx(o, id)}
                  /\ work' = [work EXCEPT ![p] = (w \ (passed \cup {id})) \cup Children(o, OrphanTx(o, id))]
               \/ /\ pool' = pl
                  /\ work' = [work EXCEPT ![p] = w \ (passed \cup {id})]
        PROVE  OrphanInv'
    <2> DEFINE t == OrphanTx(o, id)
               n == orphanage'
    <2>1. id \in Ids(o) /\ t \in Tx
      BY <1>1 DEF Ids, Consistent, OrphanTx
    <2>2. Without(o, {id}, n)
      BY <1>1, <1>4, <2>1, EraseTxConsistent
    <2>3. pool' \in SUBSET Tx /\ pool' \subseteq pl \cup {t}
      BY <1>4, <2>1
    <2>4. /\ work' \in [Peer -> SUBSET TxHash]
          /\ \A q \in connected \ {p} : work'[q] = work[q]
          /\ w \ (passed \cup {id}) \subseteq work'[p]
      <3>1. Children(o, t) \subseteq TxHash
        <4>1. Children(o, t) = {x \in Ids(o) : Txid[t] \in Inputs[o.orphans[x].tx]}
          BY <1>1, <2>1, ChildrenSpend
        <4> QED BY <1>1, <4>1, IdsAreHashes
      <3> QED BY <1>1, <1>4, <3>1
    <2>5. ASSUME NEW i \in Ids(n), Ready(n, i, pool')
          PROVE  i \in dropped \cup UNION {work'[q] : q \in connected}
      <3>1. i \in Ids(o) /\ i # id /\ Ready(o, i, pool')
        BY <2>2, <2>5 DEF Without, Ready
      <3>2. CASE Ready(o, i, pl)
        <4>1. i \notin w \/ i \in w \ (passed \cup {id})
          BY <1>2, <3>1, <3>2
        <4>2. i \in dropped \/ i \in w \/ \E q \in connected \ {p} : i \in work[q]
          BY <3>1, <3>2 DEF QueuedWith
        <4> QED BY <2>4, <4>1, <4>2
      <3>3. CASE ~Ready(o, i, pl)
        <4>1. /\ pool' = pl \cup {t}
              /\ work' = [work EXCEPT ![p] = (w \ (passed \cup {id})) \cup Children(o, t)]
          BY <1>4, <3>1, <3>3
        <4>2. Txid[t] \in Inputs[o.orphans[i].tx]
          BY <3>1, <3>3, <4>1 DEF Ready
        <4>3. i \in Children(o, t)
          <5>1. Children(o, t) = {x \in Ids(o) : Txid[t] \in Inputs[o.orphans[x].tx]}
            BY <1>1, <2>1, ChildrenSpend
          <5> QED BY <3>1, <4>2, <5>1
        <4>4. work'[p] = (w \ (passed \cup {id})) \cup Children(o, t)
          BY <1>1, <4>1
        <4> QED BY <4>3, <4>4
      <3> QED BY <3>2, <3>3
    <2>6. ASSUME NEW i \in Ids(n) PROVE n.orphans[i].from \in connected
      BY <2>2 DEF Without, OrphanInv
    <2>7. Len(n.list) <= MaxOrphans
      BY <1>1, <2>2, WithoutShorter, OrphanAssumption, SMTT(40) DEF OrphanInv
    <2> QED BY <2>2, <2>3, <2>4, <2>5, <2>6, <2>7 DEF OrphanInv, OrphanTypes, Without
  <1>5. \/ /\ passable = w /\ work' = [work EXCEPT ![p] = {}] /\ pool' = pl /\ orphanage' = o
        \/ \E id \in w \cap DOMAIN o.orphans, passed \in SUBSET passable :
              /\ orphanage' = EraseTx(o, id)
              /\ \/ /\ pool' = pl \cup {OrphanTx(o, id)}
                    /\ work' = [work EXCEPT ![p] = (w \ (passed \cup {id})) \cup Children(o, OrphanTx(o, id))]
                 \/ /\ pool' = pl
                    /\ work' = [work EXCEPT ![p] = w \ (passed \cup {id})]
    BY DEF ProcessOrphanTx
  <1> QED BY <1>3, <1>4, <1>5

\* The work set of a peer is worked off.
LEMMA ProcessWorkSetOrphans ==
    ASSUME OrphanInv, NEW p \in Peer, ProcessWorkSet(p)
    PROVE  OrphanInv'
  <1>1. p \in connected /\ work[p] \in SUBSET TxHash /\ pool \in SUBSET Tx
    BY DEF ProcessWorkSet, Handling, OrphanInv, OrphanTypes
  <1>2. QueuedWith(p, work[p], pool, orphanage)
    BY DEF QueuedWith, OrphanInv
  <1>3. ProcessOrphanTx(p, work[p], pool, orphanage, rejects)
    BY DEF ProcessWorkSet
  <1>4. UNCHANGED <<dropped, connected, chain, event>>
    BY DEF ProcessWorkSet
  <1> QED BY <1>1, <1>2, <1>3, <1>4, ProcessOrphanKeeps

\* An accepted transaction puts its children in the work set.
LEMMA TxAcceptedOrphans ==
    ASSUME OrphanInv, NEW p \in Peer, NEW t \in Tx, TxAccepted(p, t)
    PROVE  OrphanInv'
  <1> DEFINE w == work[p] \cup Children(orphanage, t)
  <1>1. /\ p \in connected /\ Consistent(orphanage) /\ pool \cup {t} \in SUBSET Tx
        /\ work[p] \in SUBSET TxHash
    BY DEF TxAccepted, ReceiveTx, Handling, OrphanInv, OrphanTypes
  <1>2. w \in SUBSET TxHash
    <2>1. Children(orphanage, t) \subseteq Ids(orphanage)
      BY <1>1, ChildrenSpend
    <2> QED BY <1>1, <2>1, IdsAreHashes
  <1>3. QueuedWith(p, w, pool \cup {t}, orphanage)
    <2>1. ASSUME NEW id \in Ids(orphanage), Ready(orphanage, id, pool \cup {t})
          PROVE  id \in dropped \cup w \cup UNION {work[q] : q \in connected \ {p}}
      <3>1. CASE Ready(orphanage, id, pool)
        BY <3>1 DEF OrphanInv
      <3>2. CASE ~Ready(orphanage, id, pool)
        <4>1. Txid[t] \in Inputs[orphanage.orphans[id].tx]
          BY <2>1, <3>2 DEF Ready
        <4> QED BY <1>1, <4>1, ChildrenSpend
      <3> QED BY <3>1, <3>2
    <2> QED BY <2>1 DEF QueuedWith
  <1>4. ProcessOrphanTx(p, w, pool \cup {t}, orphanage, RecentRejects)
    BY DEF TxAccepted
  <1>5. UNCHANGED <<dropped, connected, chain, event>>
    BY DEF TxAccepted, ReceiveTx
  <1> HIDE DEF w
  <1> QED BY <1>1, <1>2, <1>3, <1>4, <1>5, ProcessOrphanKeeps

\* A new orphan lacks an input, and the orphanage is kept within its limit.
LEMMA TxMissingInputsOrphans ==
    ASSUME OrphanInv, NEW p \in Peer, NEW t \in Tx, TxMissingInputs(p, t)
    PROVE  OrphanInv'
  <1> DEFINE o == orphanage
             a == AddTx(o, t, p)
  <1>1. /\ p \in connected /\ Consistent(o) /\ Len(o.list) <= MaxOrphans
        /\ orphanage' \in LimitOrphans(a, Txid[t])
        /\ "TX_MISSING_INPUTS" \in AcceptToMemoryPool(t, pool)
        /\ UNCHANGED <<work, dropped, pool, connected, chain, event>>
    BY DEF TxMissingInputs, ReceiveTx, Handling, OrphanInv
  <1>2. /\ Consistent(a) /\ Len(a.list) <= MaxOrphans + 1
        /\ \A id \in Ids(a) : a.orphans[id].from \in connected
        /\ \A id \in Ids(a) : Ready(a, id, pool) => id \in Ids(o) /\ Ready(o, id, pool)
    <2>1. CASE a = o
      <3>1. Len(o.list) <= MaxOrphans + 1
        <4>1. Len(o.list) \in Nat
          <5>1. Len(o.list) = Cardinality(Ids(o)) /\ IsFiniteSet(Ids(o))
            BY <1>1 DEF Consistent
          <5> QED BY <5>1, FS_CardinalityType
        <4> QED BY <1>1, <4>1, OrphanAssumption, SMTT(40)
      <3> HIDE DEF a
      <3> QED BY <1>1, <2>1, <3>1 DEF OrphanInv
    <2>2. CASE a # o
      <3>1. /\ Consistent(a)
            /\ Txid[t] \notin Ids(o) /\ Ids(a) = Ids(o) \cup {Txid[t]}
            /\ Len(a.list) = Len(o.list) + 1
            /\ a.orphans[Txid[t]].tx = t /\ a.orphans[Txid[t]].from = p
            /\ \A i \in Ids(o) : a.orphans[i] = o.orphans[i]
        BY <1>1, <2>2, AddTxConsistent, SMTT(40)
      <3> HIDE DEF a
      <3>2. Len(a.list) <= MaxOrphans + 1
        <4>1. Len(o.list) \in Nat
          <5>1. Len(o.list) = Cardinality(Ids(o)) /\ IsFiniteSet(Ids(o))
            BY <1>1 DEF Consistent
          <5> QED BY <5>1, FS_CardinalityType
        <4> QED BY <1>1, <3>1, <4>1, OrphanAssumption, SMTT(40)
      <3>3. \A id \in Ids(a) : a.orphans[id].from \in connected
        BY <1>1, <3>1 DEF OrphanInv
      <3>4. ~Ready(a, Txid[t], pool)
        BY <1>1, <3>1, ReadyDecided DEF Ready
      <3>5. \A id \in Ids(o) : Ready(a, id, pool) => Ready(o, id, pool)
        BY <3>1 DEF Ready
      <3> QED BY <3>1, <3>2, <3>3, <3>4, <3>5
    <2> QED BY <2>1, <2>2
  <1> HIDE DEF a
  <1>3. PICK s \in SUBSET Ids(a) : Without(a, s, orphanage')
    BY <1>1, <1>2, LimitOrphansConsistent
  <1>4. Len(orphanage'.list) <= MaxOrphans
    BY <1>1, <1>2, LimitOrphansConsistent
  <1>5. ASSUME NEW id \in Ids(orphanage') PROVE orphanage'.orphans[id].from \in connected
    BY <1>2, <1>3 DEF Without
  <1>6. ASSUME NEW id \in Ids(orphanage'), Ready(orphanage', id, pool)
        PROVE  id \in dropped \cup UNION {work[q] : q \in connected}
    <2>1. id \in Ids(a) /\ Ready(a, id, pool)
      BY <1>3, <1>6 DEF Without, Ready
    <2>2. id \in Ids(o) /\ Ready(o, id, pool)
      BY <1>2, <2>1
    <2> QED BY <2>2 DEF OrphanInv
  <1> QED BY <1>1, <1>3, <1>4, <1>5, <1>6 DEF OrphanInv, OrphanTypes, Without

\* A peer leaves: its orphans go, and what it had in its work set is not looked at again.
LEMMA DisconnectOrphans ==
    ASSUME OrphanInv, NEW p \in Peer, Disconnect(p)
    PROVE  OrphanInv'
  <1> DEFINE o == orphanage
             s == {id \in Ids(o) : o.orphans[id].from = p}
  <1>1. /\ Consistent(o) /\ connected' = connected \ {p} /\ orphanage' = EraseForPeer(o, p)
        /\ work' = [work EXCEPT ![p] = {}] /\ dropped' = dropped \cup work[p]
        /\ UNCHANGED <<pool, chain, event>>
    BY DEF Disconnect, OrphanInv
  <1>2. Without(o, s, orphanage')
    BY <1>1, EraseForPeerConsistent
  <1>3. Len(orphanage'.list) <= MaxOrphans
    BY <1>1, <1>2, WithoutShorter, OrphanAssumption, SMTT(40) DEF OrphanInv
  <1>4. ASSUME NEW id \in Ids(orphanage') PROVE orphanage'.orphans[id].from \in connected'
    BY <1>1, <1>2 DEF Without, OrphanInv
  <1>5. work \in [Peer -> SUBSET TxHash] /\ connected \subseteq Peer
    BY DEF OrphanInv, OrphanTypes
  <1>6. ASSUME NEW id \in Ids(orphanage'), Ready(orphanage', id, pool)
        PROVE  id \in dropped' \cup UNION {work'[q] : q \in connected'}
    <2>1. id \in Ids(o) /\ Ready(o, id, pool)
      BY <1>2, <1>6 DEF Without, Ready
    <2>2. id \in dropped \/ \E q \in connected : id \in work[q]
      BY <2>1 DEF OrphanInv
    <2>3. \A q \in connected \ {p} : work'[q] = work[q]
      BY <1>1, <1>5
    <2> QED BY <1>1, <2>2, <2>3
  <1>7. work' \in [Peer -> SUBSET TxHash] /\ connected' \subseteq Peer
    BY <1>1, <1>5
  <1> QED BY <1>1, <1>2, <1>3, <1>4, <1>6, <1>7 DEF OrphanInv, OrphanTypes, Without

\* The orphanage is empty at the start.
LEMMA InitOrphans == Init => OrphanInv
  <1> SUFFICES ASSUME Init PROVE OrphanInv
    OBVIOUS
  <1>1. /\ orphanage.orphans = [id \in {} |-> <<>>] /\ orphanage.list = <<>>
        /\ orphanage.byPrev = [op \in Outpoint |-> {}]
    BY DEF Init, EmptyOrphanage
  <1>2. Ids(orphanage) = {}
    BY <1>1 DEF Ids
  <1>3. Len(orphanage.list) = 0 /\ orphanage.list \in Seq({})
    BY <1>1, SMTT(40)
  <1>4. IsFiniteSet({}) /\ Cardinality({}) = 0
    BY FS_EmptySet
  <1>5. \A op \in Outpoint : orphanage.byPrev[op] = {}
    BY <1>1
  <1>6. 1 .. 0 = {} /\ 0 <= MaxOrphans
    BY OrphanAssumption, SMTT(40)
  <1>7. Consistent(orphanage)
    BY <1>2, <1>3, <1>4, <1>5, <1>6 DEF Consistent
  <1>8. OrphanTypes
    <2>1. 0 \in 0 .. 3
      BY SMTT(40)
    <2> QED BY <2>1 DEF Init, NoEvent, OrphanTypes, EventOK
  <1> QED BY <1>2, <1>3, <1>6, <1>7, <1>8 DEF OrphanInv

\* Every step keeps the orphanage in order.
LEMMA NextOrphans ==
    ASSUME OrphanInv, [Next]_vars
    PROVE  OrphanInv'
  <1>0. pool \subseteq Tx /\ chain \subseteq Tx /\ EventOK(event, chain) /\ Consistent(orphanage)
    BY DEF OrphanInv, OrphanTypes
  <1>1. ASSUME NEW p \in Peer, NEW h \in TxHash,
               Inv(p, h) \/ NotFound(p, h) \/ MoveTime(h, p) \/ ClockForward(h, p) \/ ClockBackward(h, p)
        PROVE  OrphanInv'
    <2>1. UNCHANGED <<orphanage, work, dropped, connected, pool, chain, event>>
      BY <1>1 DEF Inv, NotFound, MoveTime, ClockForward, ClockBackward, orphans, world
    <2> QED BY <1>0, <2>1, SameOrphans
  <1>2. ASSUME NEW p \in Peer, NEW t \in Tx, ProcessTx(p, t) PROVE OrphanInv'
    <2>1. CASE TxKnown(p, t) \/ TxRejectedParents(p, t) \/ TxRejected(p, t)
      <3>1. UNCHANGED <<orphanage, work, dropped, connected, pool, chain, event>>
        BY <2>1 DEF TxKnown, TxRejectedParents, TxRejected, ReceiveTx
      <3> QED BY <1>0, <3>1, SameOrphans
    <2> QED BY <1>2, <2>1, TxAcceptedOrphans, TxMissingInputsOrphans DEF ProcessTx
  <1>3. ASSUME NEW p \in Peer, GetRequestable(p) PROVE OrphanInv'
    <2>1. UNCHANGED <<orphanage, work, dropped, connected, pool, chain, event>>
      BY <1>3 DEF GetRequestable, orphans, world
    <2> QED BY <1>0, <2>1, SameOrphans
  <1>4. ASSUME NEW h \in TxHash, RequestOrForget(h) PROVE OrphanInv'
    <2>1. UNCHANGED <<orphanage, work, dropped, connected, pool, chain, event>>
      BY <1>4 DEF RequestOrForget, orphans, world
    <2> QED BY <1>0, <2>1, SameOrphans
  <1>5. ASSUME NEW block \in Blocks, ConnectBlock(block) PROVE OrphanInv'
    <2>1. block \subseteq Tx
      BY TxAssumption
    <2>2. /\ UNCHANGED <<orphanage, work, dropped, connected>> /\ pool' \subseteq pool
          /\ chain' = block /\ event' = [step |-> 1, txs |-> block]
      BY <1>5 DEF ConnectBlock, orphans
    <2>3. 1 \in 0 .. 3
      BY SMTT(40)
    <2>4. EventOK(event', chain')
      BY <2>1, <2>2, <2>3 DEF EventOK
    <2> QED BY <2>1, <2>2, <2>4, SameOrphans
  <1>6. CASE EraseOrphansOfBlock
    <2>1. /\ orphanage' = EraseForBlock(orphanage, event.txs)
          /\ UNCHANGED <<work, dropped, connected, pool, chain>> /\ event' = [event EXCEPT !.step = 2]
      BY <1>6 DEF EraseOrphansOfBlock
    <2>2. PICK s \in SUBSET Ids(orphanage) : Without(orphanage, s, orphanage')
      BY <1>0, <2>1, EraseForBlockConsistent DEF EventOK
    <2>3. EventOK(event', chain')
      <3>1. 2 \in 0 .. 3
        BY SMTT(40)
      <3> QED BY <1>0, <2>1, <3>1 DEF EventOK
    <2> QED BY <1>0, <2>1, <2>2, <2>3, FewerOrphans
  <1>7. CASE RememberConfirmed \/ ForgetConfirmed
    <2>1. UNCHANGED <<orphanage, work, dropped, connected, pool, chain>>
      BY <1>7 DEF RememberConfirmed, ForgetConfirmed, orphans
    <2>2. 3 \in 0 .. 3 /\ 0 \in 0 .. 3
      BY SMTT(40)
    <2>3. CASE event' = [event EXCEPT !.step = 3]
      <3>1. EventOK(event', chain')
        BY <1>0, <2>1, <2>2, <2>3 DEF EventOK
      <3> QED BY <1>0, <2>1, <3>1, SameOrphans
    <2>4. CASE event' = NoEvent
      <3>1. EventOK(event', chain')
        BY <2>2, <2>4 DEF EventOK, NoEvent
      <3> QED BY <1>0, <2>1, <3>1, SameOrphans
    <2>5. event' = [event EXCEPT !.step = 3] \/ event' = NoEvent
      BY <1>7 DEF RememberConfirmed, ForgetConfirmed
    <2> QED BY <2>3, <2>4, <2>5
  <1>8. CASE UNCHANGED vars
    <2>1. UNCHANGED <<orphanage, work, dropped, connected, pool, chain, event>>
      BY <1>8 DEF vars
    <2> QED BY <1>0, <2>1, SameOrphans
  <1> QED BY <1>1, <1>2, <1>3, <1>4, <1>5, <1>6, <1>7, <1>8, ProcessWorkSetOrphans, DisconnectOrphans DEF Next

\* The orphanage invariant holds always.
THEOREM OrphanInvariance == Spec => []OrphanInv
  <1>1. OrphanInv /\ [Next]_vars => OrphanInv'
    BY NextOrphans
  <1> QED BY InitOrphans, <1>1, PTL DEF Spec

\* m_orphans, m_orphan_list and m_outpoint_to_orphan_it always describe the same orphans,
\* at most -maxorphantx of them and all from connected peers.
THEOREM OrphanageAlwaysConsistent == Spec => []OrphanageConsistent
  <1>1. OrphanInv => OrphanageConsistent
    <2> SUFFICES ASSUME OrphanInv PROVE OrphanageConsistent
      OBVIOUS
    <2>1. Consistent(orphanage) /\ OrphanIds = Ids(orphanage)
      BY DEF OrphanInv, Ids, OrphanIds
    <2>2. DOMAIN orphanage.list = 1 .. Len(orphanage.list)
      BY <2>1, SMTT(40) DEF Consistent
    <2>3. \A id \in OrphanIds : orphanage.orphans[id].pos \in DOMAIN orphanage.list
      BY <2>1, <2>2 DEF Consistent
    <2> QED BY <2>1, <2>3 DEF OrphanInv, Consistent, OrphanageConsistent, OrphanTx
  <1> QED BY OrphanInvariance, <1>1, PTL

\* No orphan whose parents are all in the mempool is ever left out of the work sets,
\* unless the peer that had it in its own has left.
THEOREM NoReadyOrphanLost == Spec => []ReadyOrphansQueued
  <1>1. OrphanInv => ReadyOrphansQueued
    BY DEF OrphanInv, ReadyOrphansQueued, Ready, OrphanIds, OrphanTx, Ids
  <1> QED BY OrphanInvariance, <1>1, PTL

-----------------------------------------------------------------------------
(* Announcements of known transactions.                                     *)

\* The transactions in the orphanage.
OrphanTxs(o) == {o.orphans[id].tx : id \in Ids(o)}

\* The hashes under which AlreadyHaveTx finds a transaction.
Known == (UNION {Hashes(t) : t \in OrphanTxs(orphanage) \cup pool}) \cup (confirmed \cup RecentRejects)

\* Peers that announce by wtxid announce no txid of a transaction with a witness, and
\* the others no wtxid of one.
AnnouncedByType ==
    \A p \in Peer, h \in TxHash : <<p, h>> \in Announces =>
        IF p \in WtxidRelay THEN \A t \in Tx : Txid[t] = h => Wtxid[t] = h ELSE ~IsWtxid(h)

\* No announcement is kept of a known transaction, but those of the block that
\* BlockConnected is at.
KnownInv ==
    \A h \in TxHash \cap Known : ann[h] = NoAnnouncements \/ \E t \in event.txs : h \in Hashes(t)

\* A transaction is looked up by exactly its two hashes.
LEMMA LookupHashes ==
    ASSUME NEW t \in Tx, NEW h
    PROVE  (h = IF IsWtxid(h) THEN Wtxid[t] ELSE Txid[t]) <=> h \in Hashes(t)
  <1>1. ASSUME h = Wtxid[t], ~IsWtxid(h) PROVE h = Txid[t]
    BY <1>1 DEF IsWtxid
  <1>2. ASSUME h = Txid[t], IsWtxid(h) PROVE FALSE
    <2>1. PICK u \in Tx : Wtxid[u] = h /\ Txid[u] # h
      BY <1>2 DEF IsWtxid
    <2> QED BY <1>2, <2>1, HashAssumption
  <1> QED BY <1>1, <1>2 DEF Hashes

\* AlreadyHaveTx, asked for a hash as what it is.
LEMMA KnownHashes ==
    ASSUME OrphanInv, NEW h
    PROVE  AlreadyHaveTx(h, IsWtxid(h)) <=> h \in Known
  <1>0. pool \subseteq Tx /\ Consistent(orphanage)
    BY DEF OrphanInv, OrphanTypes
  <1>1. InPool(h, IsWtxid(h)) <=> \E t \in pool : h \in Hashes(t)
    BY <1>0, LookupHashes DEF InPool
  <1>2. \A id \in Ids(orphanage) : orphanage.orphans[id].tx \in Tx /\ Txid[orphanage.orphans[id].tx] = id
    BY <1>0 DEF Consistent
  <1>3. HaveOrphan(orphanage, h, IsWtxid(h)) <=> \E t \in OrphanTxs(orphanage) : h \in Hashes(t)
    <2>1. HaveOrphan(orphanage, h, IsWtxid(h)) <=>
             \E id \in Ids(orphanage) :
                 h = IF IsWtxid(h) THEN Wtxid[orphanage.orphans[id].tx] ELSE Txid[orphanage.orphans[id].tx]
      BY <1>2 DEF HaveOrphan, Ids, OrphanTx
    <2>2. \A id \in Ids(orphanage) :
              (h = IF IsWtxid(h) THEN Wtxid[orphanage.orphans[id].tx] ELSE Txid[orphanage.orphans[id].tx])
                  <=> h \in Hashes(orphanage.orphans[id].tx)
      BY <1>2, LookupHashes
    <2>3. (\E t \in OrphanTxs(orphanage) : h \in Hashes(t))
              <=> \E id \in Ids(orphanage) : h \in Hashes(orphanage.orphans[id].tx)
      BY DEF OrphanTxs
    <2> QED BY <2>1, <2>2, <2>3
  <1> QED BY <1>1, <1>3 DEF AlreadyHaveTx, Known

\* The other way to ask can only miss a transaction asked for by the wrong hash.
LEMMA KnownByWtxid ==
    ASSUME OrphanInv, NEW h, h \in Known, \A t \in Tx : Txid[t] = h => Wtxid[t] = h
    PROVE  AlreadyHaveTx(h, TRUE)
  <1>0. pool \subseteq Tx /\ Consistent(orphanage)
    BY DEF OrphanInv, OrphanTypes
  <1>1. \A id \in Ids(orphanage) : orphanage.orphans[id].tx \in Tx
    BY <1>0 DEF Consistent
  <1>2. CASE h \in confirmed \cup RecentRejects
    BY <1>2 DEF AlreadyHaveTx
  <1>3. ASSUME NEW t \in pool, h \in Hashes(t) PROVE AlreadyHaveTx(h, TRUE)
    BY <1>0, <1>3 DEF AlreadyHaveTx, InPool, Hashes
  <1>4. ASSUME NEW id \in Ids(orphanage), h \in Hashes(orphanage.orphans[id].tx) PROVE AlreadyHaveTx(h, TRUE)
    BY <1>1, <1>4 DEF AlreadyHaveTx, HaveOrphan, Hashes, OrphanTx, Ids
  <1> QED BY <1>2, <1>3, <1>4 DEF Known, OrphanTxs

\* What a step must do.
LEMMA KnownKeeps ==
    ASSUME KnownInv, event'.txs = event.txs,
           \A h \in TxHash \cap Known' : h \in Known \/ ann'[h] = NoAnnouncements,
           \A h \in TxHash \cap Known : ann[h] = NoAnnouncements => ann'[h] = NoAnnouncements
    PROVE  KnownInv'
  BY DEF KnownInv

\* A row without announcements answers nothing.
LEMMA EmptyRow ==
    ASSUME NEW h, NEW p \in Peer
    PROVE  /\ ReceivedResponse(h, NoAnnouncements, p) = NoAnnouncements
           /\ DisconnectedPeer(h, NoAnnouncements, p) = NoAnnouncements
           /\ NoAnnouncements[p] = NONE
  BY DEF ReceivedResponse, DisconnectedPeer, NoAnnouncements

\* The transactions of an orphanage without some orphans.
LEMMA WithoutTxs ==
    ASSUME NEW o, NEW s, NEW n, Without(o, s, n)
    PROVE  OrphanTxs(n) \subseteq OrphanTxs(o)
  BY DEF Without, OrphanTxs

\* Nothing becomes known when transactions only leave the orphanage, the pool and the filter.
LEMMA KnownShrinks ==
    ASSUME OrphanTxs(orphanage') \subseteq OrphanTxs(orphanage), pool' \subseteq pool,
           confirmed' = confirmed, RecentRejects' \subseteq RecentRejects
    PROVE  Known' \subseteq Known
  <1>1. ASSUME NEW h, NEW t \in OrphanTxs(orphanage') \cup pool', h \in Hashes(t) PROVE h \in Known
    <2>1. t \in OrphanTxs(orphanage) \cup pool
      OBVIOUS
    <2> QED BY <1>1, <2>1 DEF Known
  <1>2. ASSUME NEW h \in confirmed' \cup RecentRejects' PROVE h \in Known
    BY <1>2 DEF Known
  <1> QED BY <1>1, <1>2 DEF Known

\* Only t and the hashes hs become known.
LEMMA KnownGrows ==
    ASSUME NEW t, NEW hs, OrphanTxs(orphanage') \cup pool' \subseteq OrphanTxs(orphanage) \cup (pool \cup {t}),
           confirmed' = confirmed,
           \A h \in RecentRejects' : \/ h \in RecentRejects \cup hs
                                     \/ \E u \in OrphanTxs(orphanage) : h \in Hashes(u)
    PROVE  \A h \in Known' : h \in Known \/ h \in Hashes(t) \/ h \in hs
  <1>1. ASSUME NEW h, NEW u \in OrphanTxs(orphanage') \cup pool', h \in Hashes(u)
        PROVE  h \in Known \/ h \in Hashes(t)
    <2>1. u \in OrphanTxs(orphanage) \cup pool \/ u = t
      OBVIOUS
    <2> QED BY <1>1, <2>1 DEF Known
  <1>2. ASSUME NEW h \in RecentRejects' PROVE h \in Known \/ h \in hs
    BY <1>2 DEF Known
  <1>3. ASSUME NEW h \in confirmed' PROVE h \in Known
    BY <1>3 DEF Known
  <1> QED BY <1>1, <1>2, <1>3 DEF Known

\* ProcessOrphanTx only moves or rejects transactions that are known.
LEMMA ProcessOrphanKnown ==
    ASSUME OrphanInv, NEW p, NEW w, NEW pl, NEW rj, ProcessOrphanTx(p, w, pl, orphanage, rj)
    PROVE  /\ OrphanTxs(orphanage') \cup pool' \subseteq OrphanTxs(orphanage) \cup pl
           /\ \A h \in rejects' : h \in rj \/ \E t \in OrphanTxs(orphanage) : h \in Hashes(t)
  <1> DEFINE o == orphanage
  <1>1. Consistent(o)
    BY DEF OrphanInv
  <1>2. CASE pool' = pl /\ orphanage' = o /\ rejects' = rj
    BY <1>2
  <1>3. ASSUME NEW id \in w \cap DOMAIN o.orphans, NEW verdict, orphanage' = EraseTx(o, id),
               \/ pool' = pl \cup {OrphanTx(o, id)} /\ rejects' = rj
               \/ pool' = pl /\ rejects' = rj \cup Rejected(OrphanTx(o, id), verdict)
        PROVE  /\ OrphanTxs(orphanage') \cup pool' \subseteq OrphanTxs(orphanage) \cup pl
               /\ \A h \in rejects' : h \in rj \/ \E t \in OrphanTxs(orphanage) : h \in Hashes(t)
    <2>1. id \in Ids(o) /\ OrphanTx(o, id) \in OrphanTxs(o)
      BY DEF Ids, OrphanTx, OrphanTxs
    <2>2. OrphanTxs(orphanage') \subseteq OrphanTxs(o)
      BY <1>1, <1>3, <2>1, EraseTxConsistent, WithoutTxs
    <2>3. Rejected(OrphanTx(o, id), verdict) \subseteq Hashes(OrphanTx(o, id))
      BY DEF Rejected, Hashes
    <2> QED BY <1>3, <2>1, <2>2, <2>3
  <1>4. \/ pool' = pl /\ orphanage' = o /\ rejects' = rj
        \/ \E id \in w \cap DOMAIN o.orphans : \E verdict :
              /\ orphanage' = EraseTx(o, id)
              /\ \/ pool' = pl \cup {OrphanTx(o, id)} /\ rejects' = rj
                 \/ pool' = pl /\ rejects' = rj \cup Rejected(OrphanTx(o, id), verdict)
    BY DEF ProcessOrphanTx
  <1> QED BY <1>2, <1>3, <1>4

\* A handler of a message that looks at the filters empties them after a new tip.
LEMMA RejectsReset ==
    ASSUME NEW rj, rejects' = RecentRejects \cup rj, tipChanged' = FALSE
    PROVE  RecentRejects' = RecentRejects \cup rj
  BY DEF RecentRejects

\* One that adds nothing to them.
LEMMA RejectsKept ==
    ASSUME rejects' = RecentRejects, tipChanged' = FALSE
    PROVE  RecentRejects' = RecentRejects
  BY DEF RecentRejects

\* What the message tx leaves of the rows before the verdict.
LEMMA AnsweredEmpty ==
    ASSUME NEW p \in Peer, NEW t \in Tx, NEW h \in TxHash, ann[h] = NoAnnouncements
    PROVE  Answered(p, t)[h] = NoAnnouncements
  BY EmptyRow DEF Answered

\* An announcement of a known transaction is not taken (Inv).
LEMMA InvKnown ==
    ASSUME AnnouncedByType, OrphanInv, KnownInv, NEW p \in Peer, NEW h \in TxHash, Inv(p, h)
    PROVE  KnownInv'
  <1>1. /\ <<p, h>> \in Announces /\ rejects' = RecentRejects /\ tipChanged' = FALSE
        /\ UNCHANGED <<orphanage, pool, confirmed, event>>
    BY DEF Inv, orphans, world
  <1>2. RecentRejects' = RecentRejects
    BY <1>1, RejectsKept
  <1>3. Known' = Known
    BY <1>1, <1>2 DEF Known
  <1>4. ASSUME NEW g \in TxHash \cap Known, ann[g] = NoAnnouncements PROVE ann'[g] = NoAnnouncements
    <2>1. CASE AlreadyHaveTx(h, p \in WtxidRelay)
      BY <1>4, <2>1 DEF Inv
    <2>2. CASE ~AlreadyHaveTx(h, p \in WtxidRelay)
      <3>1. h \notin Known
        <4>1. CASE p \in WtxidRelay
          <5>1. ~AlreadyHaveTx(h, TRUE)
            BY <2>2, <4>1
          <5> QED BY <1>1, <4>1, <5>1, KnownByWtxid DEF AnnouncedByType
        <4>2. CASE p \notin WtxidRelay
          <5>1. ~IsWtxid(h)
            BY <1>1, <4>2 DEF AnnouncedByType
          <5>2. ~AlreadyHaveTx(h, IsWtxid(h))
            BY <2>2, <4>2, <5>1 DEF AlreadyHaveTx, HaveOrphan, InPool
          <5> QED BY <5>2, KnownHashes
        <4> QED BY <4>1, <4>2
      <3>2. PICK s \in Announceable(ann, p, {h}) : ann' = AddTxAnnouncement(ann, p, s)
        BY <2>2 DEF Inv
      <3>3. g \notin s
        BY <1>4, <3>1, <3>2 DEF Announceable
      <3> QED BY <1>4, <3>2, <3>3 DEF AddTxAnnouncement
    <2> QED BY <2>1, <2>2
  <1> QED BY <1>1, <1>3, <1>4, KnownKeeps

\* Steps that move the rows of hashes with announcements only, or touch no row.
LEMMA LiveRowKnown ==
    ASSUME OrphanInv, KnownInv, ann \in [TxHash -> Row], UNCHANGED <<orphanage, pool, filters, event>>,
           \A h \in TxHash : ann'[h] = ann[h] \/ ann[h] # NoAnnouncements
    PROVE  KnownInv'
  <1>1. Known' = Known
    BY DEF Known, RecentRejects, filters
  <1> QED BY <1>1, KnownKeeps

\* A notfound moves an announcement that is there.
LEMMA NotFoundKnown ==
    ASSUME OrphanInv, KnownInv, ann \in [TxHash -> Row], NEW p \in Peer, NEW h \in TxHash, NotFound(p, h)
    PROVE  KnownInv'
  <1>1. /\ ann' = [ann EXCEPT ![h] = ReceivedResponse(h, ann[h], p)]
        /\ UNCHANGED <<orphanage, pool, filters, event>>
    BY DEF NotFound, orphans, world
  <1>2. ReceivedResponse(h, ann[h], p) = ann[h] \/ ann[h] # NoAnnouncements
    BY EmptyRow
  <1>3. \A g \in TxHash : ann'[g] = ann[g] \/ ann[g] # NoAnnouncements
    BY <1>1, <1>2
  <1> QED BY <1>1, <1>3, LiveRowKnown

\* SetTimePoint moves announcements that are there.
LEMMA MoveTimeKnown ==
    ASSUME OrphanInv, KnownInv, ann \in [TxHash -> Row], NEW p \in Peer, NEW h \in TxHash, MoveTime(h, p)
    PROVE  KnownInv'
  <1>1. /\ ann' = [ann EXCEPT ![h] = SetTimePoint(h, ann[h], p, <<h, p>> \in due)]
        /\ UNCHANGED <<orphanage, pool, filters, event>>
    BY DEF MoveTime, orphans, world
  <1>2. ann[h][p] \in IsWaiting \cup IsSelectable
    BY DEF MoveTime, Expiring, Premature
  <1>3. ann[h] # NoAnnouncements
    BY <1>2, EmptyRow DEF NONE, IsWaiting, IsSelectable
  <1>4. \A g \in TxHash : ann'[g] = ann[g] \/ ann[g] # NoAnnouncements
    BY <1>1, <1>3
  <1> QED BY <1>1, <1>4, LiveRowKnown

\* SendMessages requests nothing that is known.
LEMMA RequestOrForgetKnown ==
    ASSUME OrphanInv, KnownInv, ann \in [TxHash -> Row], NEW h \in TxHash, RequestOrForget(h)
    PROVE  KnownInv'
  <1>1. /\ rejects' = RecentRejects /\ tipChanged' = FALSE
        /\ UNCHANGED <<orphanage, pool, confirmed, event>>
    BY DEF RequestOrForget, orphans, world
  <1>2. RecentRejects' = RecentRejects
    BY <1>1, RejectsKept
  <1>3. Known' = Known
    BY <1>1, <1>2 DEF Known
  <1>4. ASSUME NEW g \in TxHash \cap Known, ann[g] = NoAnnouncements PROVE ann'[g] = NoAnnouncements
    <2>1. CASE AlreadyHaveTx(h, IsWtxid(h))
      <3>1. ann' = ForgetTxHash(ann, {h})
        BY <2>1 DEF RequestOrForget
      <3> QED BY <1>4, <3>1 DEF ForgetTxHash
    <2>2. CASE ~AlreadyHaveTx(h, IsWtxid(h))
      <3>1. ann' = [ann EXCEPT ![h] = RequestedTx(ann[h], send.peer)]
        BY <2>2 DEF RequestOrForget
      <3>2. g # h
        BY <1>4, <2>2, KnownHashes
      <3> QED BY <1>4, <3>1, <3>2
    <2> QED BY <2>1, <2>2
  <1> QED BY <1>1, <1>3, <1>4, KnownKeeps

\* A peer that leaves adds no announcement.
LEMMA DisconnectKnown ==
    ASSUME OrphanInv, KnownInv, NEW p \in Peer, Disconnect(p)
    PROVE  KnownInv'
  <1>1. /\ orphanage' = EraseForPeer(orphanage, p)
        /\ ann' = [h \in TxHash |-> DisconnectedPeer(h, ann[h], p)]
        /\ UNCHANGED <<pool, confirmed, rejects, tipChanged, event>>
    BY DEF Disconnect, filters
  <1>2. OrphanTxs(orphanage') \subseteq OrphanTxs(orphanage)
    BY <1>1, EraseForPeerConsistent, WithoutTxs DEF OrphanInv
  <1>3. Known' \subseteq Known
    <2>1. RecentRejects' = RecentRejects
      BY <1>1 DEF RecentRejects
    <2> QED BY <1>1, <1>2, <2>1, KnownShrinks
  <1>4. \A h \in TxHash : ann[h] = NoAnnouncements => ann'[h] = NoAnnouncements
    BY <1>1, EmptyRow
  <1> QED BY <1>1, <1>3, <1>4, KnownKeeps

\* Orphans that are accepted or rejected were known before.
LEMMA ProcessWorkSetKnown ==
    ASSUME OrphanInv, KnownInv, NEW p \in Peer, ProcessWorkSet(p)
    PROVE  KnownInv'
  <1>1. /\ ProcessOrphanTx(p, work[p], pool, orphanage, rejects)
        /\ UNCHANGED <<ann, confirmed, tipChanged, event>>
    BY DEF ProcessWorkSet, tracker
  <1>2. /\ OrphanTxs(orphanage') \cup pool' \subseteq OrphanTxs(orphanage) \cup pool
        /\ \A h \in rejects' : h \in rejects \/ \E t \in OrphanTxs(orphanage) : h \in Hashes(t)
    BY <1>1, ProcessOrphanKnown
  <1>3. \A h \in RecentRejects' : h \in RecentRejects \/ \E t \in OrphanTxs(orphanage) : h \in Hashes(t)
    BY <1>1, <1>2 DEF RecentRejects
  <1>4. Known' \subseteq Known
    BY <1>1, <1>2, <1>3 DEF Known
  <1> QED BY <1>1, <1>4, KnownKeeps

\* A new tip makes nothing known until BlockConnected runs.
LEMMA ConnectBlockKnown ==
    ASSUME OrphanInv, KnownInv, NEW block \in Blocks, ConnectBlock(block)
    PROVE  KnownInv'
  <1>1. /\ chain = {} /\ pool' \subseteq pool /\ tipChanged' = TRUE
        /\ UNCHANGED <<ann, orphanage, confirmed>>
    BY DEF ConnectBlock, tracker, orphans
  <1>2. event.txs = {}
    BY <1>1 DEF OrphanInv, OrphanTypes, EventOK
  <1>3. Known' \subseteq Known
    BY <1>1 DEF Known, RecentRejects
  <1> QED BY <1>1, <1>2, <1>3 DEF KnownInv

\* BlockConnected forgets the transactions that it has made known.
LEMMA EventKnown ==
    ASSUME OrphanInv, KnownInv, ann \in [TxHash -> Row],
           EraseOrphansOfBlock \/ RememberConfirmed \/ ForgetConfirmed
    PROVE  KnownInv'
  <1>0. EventOK(event, chain) /\ chain \subseteq Tx /\ Consistent(orphanage)
    BY DEF OrphanInv, OrphanTypes
  <1>1. CASE EraseOrphansOfBlock
    <2>1. /\ orphanage' = EraseForBlock(orphanage, event.txs) /\ event' = [event EXCEPT !.step = 2]
          /\ UNCHANGED <<ann, pool, confirmed, rejects, tipChanged>>
      BY <1>1 DEF EraseOrphansOfBlock, filters, tracker
    <2>2. PICK s \in SUBSET Ids(orphanage) : Without(orphanage, s, orphanage')
      BY <1>0, <2>1, EraseForBlockConsistent DEF EventOK
    <2>3. OrphanTxs(orphanage') \subseteq OrphanTxs(orphanage)
      BY <2>2, WithoutTxs
    <2>4. Known' \subseteq Known
      <3>1. RecentRejects' = RecentRejects
        BY <2>1 DEF RecentRejects
      <3> QED BY <2>1, <2>3, <3>1, KnownShrinks
    <2>5. event'.txs = event.txs
      BY <1>0, <2>1 DEF EventOK
    <2> QED BY <2>1, <2>4, <2>5, KnownKeeps
  <1>2. CASE RememberConfirmed
    <2>1. /\ confirmed' = confirmed \cup UNION {Hashes(t) : t \in event.txs} /\ event' = [event EXCEPT !.step = 3]
          /\ UNCHANGED <<ann, orphanage, pool, rejects, tipChanged>>
      BY <1>2 DEF RememberConfirmed, orphans, tracker
    <2>2. event'.txs = event.txs
      BY <1>0, <2>1 DEF EventOK
    <2>3. \A h \in Known' : h \in Known \/ \E t \in event.txs : h \in Hashes(t)
      <3>1. RecentRejects' = RecentRejects
        BY <2>1 DEF RecentRejects
      <3>2. ASSUME NEW h \in confirmed' PROVE h \in Known \/ \E t \in event.txs : h \in Hashes(t)
        BY <2>1, <3>2 DEF Known
      <3> QED BY <2>1, <3>1, <3>2 DEF Known
    <2> QED BY <2>1, <2>2, <2>3 DEF KnownInv
  <1>3. CASE ForgetConfirmed
    <2>1. /\ ann' = ForgetTxHash(ann, UNION {Hashes(t) : t \in event.txs})
          /\ UNCHANGED <<orphanage, pool, confirmed, rejects, tipChanged>>
      BY <1>3 DEF ForgetConfirmed, orphans, filters
    <2>2. Known' = Known
      BY <2>1 DEF Known, RecentRejects
    <2>3. \A h \in TxHash : IF \E t \in event.txs : h \in Hashes(t)
                            THEN ann'[h] = NoAnnouncements ELSE ann'[h] = ann[h]
      BY <2>1 DEF ForgetTxHash
    <2> QED BY <2>2, <2>3 DEF KnownInv
  <1> QED BY <1>1, <1>2, <1>3

\* The message tx forgets the announcements of what it makes known, and fetches only
\* parents that are not known.
LEMMA ProcessTxKnown ==
    ASSUME OrphanInv, KnownInv, ann \in [TxHash -> Row], NEW p \in Peer, NEW t \in Tx, ProcessTx(p, t)
    PROVE  KnownInv'
  <1> DEFINE a == Answered(p, t)
  <1>0. /\ ReceiveTx(p, t) /\ UNCHANGED <<confirmed, event>> /\ tipChanged' = FALSE
    BY DEF ProcessTx, TxKnown, TxAccepted, TxMissingInputs, TxRejectedParents, TxRejected, ReceiveTx
  <1>1. \A h \in TxHash : ann[h] = NoAnnouncements => a[h] = NoAnnouncements
    BY AnsweredEmpty
  <1> HIDE DEF a
  <1>2. ASSUME NEW b, NEW hs \in SUBSET Hashes(t), ann' = ForgetTxHash(b, hs),
               \A h \in TxHash \cap Known : ann[h] = NoAnnouncements => b[h] = NoAnnouncements,
               \A h \in Known' : h \in Known \/ h \in hs
        PROVE  KnownInv'
    <2>1. \A h \in TxHash : ann'[h] = IF h \in hs THEN NoAnnouncements ELSE b[h]
      BY <1>2 DEF ForgetTxHash
    <2> QED BY <1>0, <1>2, <2>1, KnownKeeps
  <1>3. CASE TxKnown(p, t)
    <2>1. /\ ann' = a /\ rejects' = RecentRejects /\ UNCHANGED <<orphanage, pool>>
      BY <1>3 DEF TxKnown, a
    <2>2. RecentRejects' = RecentRejects
      BY <1>0, <2>1, RejectsKept
    <2>3. Known' = Known
      BY <1>0, <2>1, <2>2 DEF Known
    <2> QED BY <1>0, <1>1, <2>1, <2>3, KnownKeeps
  <1>4. CASE TxAccepted(p, t)
    <2>1. /\ ann' = ForgetTxHash(a, Hashes(t))
          /\ ProcessOrphanTx(p, work[p] \cup Children(orphanage, t), pool \cup {t}, orphanage, RecentRejects)
      BY <1>4 DEF TxAccepted, a
    <2>2. /\ OrphanTxs(orphanage') \cup pool' \subseteq OrphanTxs(orphanage) \cup (pool \cup {t})
          /\ \A h \in rejects' : h \in RecentRejects \/ \E u \in OrphanTxs(orphanage) : h \in Hashes(u)
      BY <2>1, ProcessOrphanKnown
    <2>3. \A h \in RecentRejects' : h \in RecentRejects \/ \E u \in OrphanTxs(orphanage) : h \in Hashes(u)
      BY <1>0, <2>2 DEF RecentRejects
    <2>4. \A h \in Known' : h \in Known \/ h \in Hashes(t)
      BY <1>0, <2>2, <2>3 DEF Known
    <2> QED BY <1>1, <1>2, <2>1, <2>4
  <1>5. CASE TxMissingInputs(p, t)
    <2>1. /\ orphanage' \in LimitOrphans(AddTx(orphanage, t, p), Txid[t]) /\ pool' = pool
          /\ rejects' = RecentRejects
      BY <1>5 DEF TxMissingInputs
    <2>2. PICK s \in Announceable(a, p, {h \in Inputs[t] : ~AlreadyHaveTx(h, FALSE)}) :
              ann' = ForgetTxHash(AddTxAnnouncement(a, p, s), Hashes(t))
      BY <1>5 DEF TxMissingInputs, a
    <2>3. ASSUME NEW h \in s PROVE h \notin Known
      <3>1. h \in Inputs[t] /\ ~AlreadyHaveTx(h, FALSE)
        BY <2>2 DEF Announceable
      <3>2. ~IsWtxid(h)
        BY <3>1, HashAssumption DEF IsWtxid
      <3>3. ~AlreadyHaveTx(h, IsWtxid(h))
        BY <3>1, <3>2 DEF AlreadyHaveTx, HaveOrphan, InPool
      <3> QED BY <3>3, KnownHashes
    <2>4. \A h \in TxHash \cap Known : ann[h] = NoAnnouncements => AddTxAnnouncement(a, p, s)[h] = NoAnnouncements
      BY <1>1, <2>3 DEF AddTxAnnouncement
    <2>5. OrphanTxs(orphanage') \subseteq OrphanTxs(orphanage) \cup {t}
      <3> DEFINE n == AddTx(orphanage, t, p)
      <3>1. Consistent(n) /\ OrphanTxs(n) \subseteq OrphanTxs(orphanage) \cup {t}
        <4>1. CASE n = orphanage
          BY <4>1 DEF OrphanInv
        <4>2. CASE n # orphanage
          <5>1. /\ Consistent(n) /\ Ids(n) = Ids(orphanage) \cup {Txid[t]}
                /\ n.orphans[Txid[t]].tx = t
                /\ \A i \in Ids(orphanage) : n.orphans[i] = orphanage.orphans[i]
            BY <4>2, AddTxConsistent, SMTT(40) DEF OrphanInv
          <5> HIDE DEF n
          <5> QED BY <5>1 DEF OrphanTxs
        <4> QED BY <4>1, <4>2
      <3>2. orphanage' \in LimitOrphans(n, Txid[t])
        BY <2>1
      <3> HIDE DEF n
      <3>3. PICK x \in SUBSET Ids(n) : Without(n, x, orphanage')
        BY <3>1, <3>2, LimitOrphansConsistent
      <3> QED BY <3>1, <3>3, WithoutTxs
    <2>6. RecentRejects' = RecentRejects
      BY <1>0, <2>1, RejectsKept
    <2>7. \A h \in Known' : h \in Known \/ h \in Hashes(t)
      <3>1. OrphanTxs(orphanage') \cup pool' \subseteq OrphanTxs(orphanage) \cup (pool \cup {t})
        BY <2>1, <2>5
      <3>2. \A h \in RecentRejects' : h \in RecentRejects \cup Hashes(t)
        BY <2>6
      <3> QED BY <1>0, <3>1, <3>2, KnownGrows
    <2> QED BY <1>2, <2>2, <2>4, <2>7
  <1>6. CASE TxRejectedParents(p, t)
    <2>1. /\ ann' = ForgetTxHash(a, Hashes(t)) /\ rejects' = RecentRejects \cup Hashes(t)
          /\ UNCHANGED <<orphanage, pool>>
      BY <1>6 DEF TxRejectedParents, a
    <2>2. RecentRejects' = RecentRejects \cup Hashes(t)
      BY <1>0, <2>1, RejectsReset
    <2>3. \A h \in Known' : h \in Known \/ h \in Hashes(t)
      BY <1>0, <2>1, <2>2 DEF Known
    <2> QED BY <1>1, <1>2, <2>1, <2>3
  <1>7. CASE TxRejected(p, t)
    <2>0. PICK verdict : /\ ann' = ForgetTxHash(a, Rejected(t, verdict))
                         /\ rejects' = RecentRejects \cup Rejected(t, verdict)
                         /\ UNCHANGED <<orphanage, pool>>
      BY <1>7 DEF TxRejected, a
    <2> DEFINE hs == Rejected(t, verdict)
    <2>1. /\ ann' = ForgetTxHash(a, hs) /\ rejects' = RecentRejects \cup hs
          /\ UNCHANGED <<orphanage, pool>>
      BY <2>0
    <2>2. hs \in SUBSET Hashes(t)
      BY DEF Rejected, Hashes
    <2> HIDE DEF hs
    <2>3. RecentRejects' = RecentRejects \cup hs
      BY <1>0, <2>1, RejectsReset
    <2>4. \A h \in Known' : h \in Known \/ h \in hs
      BY <1>0, <2>1, <2>3 DEF Known
    <2> QED BY <1>1, <1>2, <2>1, <2>2, <2>4
  <1> QED BY <1>3, <1>4, <1>5, <1>6, <1>7 DEF ProcessTx

\* Every step forgets what it makes known.
LEMMA NextKnown ==
    ASSUME AnnouncedByType, OrphanInv, KnownInv, ann \in [TxHash -> Row], [Next]_vars
    PROVE  KnownInv'
  <1>1. ASSUME NEW p \in Peer, NEW h \in TxHash, ClockForward(h, p) \/ ClockBackward(h, p) PROVE KnownInv'
    <2>1. UNCHANGED <<ann, orphanage, pool, filters, event>>
      BY <1>1 DEF ClockForward, ClockBackward, orphans, world
    <2> QED BY <2>1, LiveRowKnown
  <1>2. ASSUME NEW p \in Peer, GetRequestable(p) PROVE KnownInv'
    <2>1. UNCHANGED <<ann, orphanage, pool, filters, event>>
      BY <1>2 DEF GetRequestable, orphans, world
    <2> QED BY <2>1, LiveRowKnown
  <1>3. CASE UNCHANGED vars
    <2>1. UNCHANGED <<ann, orphanage, pool, filters, event>>
      BY <1>3 DEF vars, filters
    <2> QED BY <2>1, LiveRowKnown
  <1> QED BY <1>1, <1>2, <1>3, InvKnown, NotFoundKnown, MoveTimeKnown, ProcessTxKnown, ProcessWorkSetKnown,
             DisconnectKnown, RequestOrForgetKnown, ConnectBlockKnown, EventKnown DEF Next

\* Nothing is announced at the start.
LEMMA InitKnown == Init => KnownInv
  <1> SUFFICES ASSUME Init PROVE KnownInv
    OBVIOUS
  <1>1. ann = [h \in TxHash |-> NoAnnouncements]
    BY DEF Init
  <1> QED BY <1>1 DEF KnownInv

\* If peers announce transactions by the kind of hash they are known to use, no
\* announcement of a transaction that AlreadyHaveTx finds is ever kept once
\* BlockConnected is done, as the comment in SendMessages has it.
THEOREM KnownTxAlwaysForgotten ==
    ASSUME AnnouncedByType
    PROVE  Spec => []KnownTxForgotten
  <1>1. Init => TrackerInv /\ OrphanInv /\ KnownInv
    BY TrackerInit, InitOrphans, InitKnown
  <1>2. TrackerInv => ann \in [TxHash -> Row]
    BY DEF TrackerInv
  <1>3. TrackerInv /\ OrphanInv /\ KnownInv /\ [Next]_vars => (TrackerInv /\ OrphanInv /\ KnownInv)'
    BY <1>2, TrackerNext, NextOrphans, NextKnown
  <1>4. OrphanInv /\ KnownInv => KnownTxForgotten
    <2> SUFFICES ASSUME OrphanInv, KnownInv, NEW h \in TxHash, AlreadyHaveTx(h, IsWtxid(h)), event = NoEvent
                 PROVE  ann[h] = NoAnnouncements
      BY DEF KnownTxForgotten
    <2>1. h \in Known
      BY KnownHashes
    <2> QED BY <2>1 DEF KnownInv, NoEvent
  <1> QED BY <1>1, <1>3, <1>4, PTL DEF Spec
=============================================================================
