----------------------------- MODULE TxRequest -----------------------------
(***************************************************************************)
(* TxRequestTracker (src/txrequest.cpp): which peer is asked for which      *)
(* transaction.  Every operation of the tracker works on the announcements  *)
(* of one transaction hash at a time, so the operations are functions of a  *)
(* row: the state of each peer's announcement of one hash.  TxDownload      *)
(* holds the rows and calls the operations as PeerManager does.             *)
(*                                                                          *)
(* The times of announcements are seen only through comparisons with the    *)
(* clock: `due' in TxDownload is the set of announcements whose m_time has  *)
(* passed.  m_peerinfo caches counts of the index and is changed by Erase   *)
(* and Modify only; Count and CountInFlight count.                          *)
(***************************************************************************)
EXTENDS Integers, FiniteSets

CONSTANTS
    Peer,           \* the NodeIds, each used for one connection
    TxHash,         \* txids and wtxids
    Preferred,      \* peers with fPreferredDownload
    SaltMax,        \* the largest value of the hash, 2^63 - 1
    Salt            \* Salt[h][p], the salted hash of the pair without its last bit

ASSUME PreferredArePeers == Preferred \subseteq Peer
ASSUME SaltsDiffer ==
    /\ SaltMax \in Nat /\ Salt \in [TxHash -> [Peer -> 0..SaltMax]]
    /\ \A h \in TxHash : \A p, q \in Peer : Salt[h][p] = Salt[h][q] => p = q

\* PriorityComputer: the highest bit says whether the peer is preferred.
Priority(h, p) == Salt[h][p] + IF p \in Preferred THEN SaltMax + 1 ELSE 0

\* Whether p comes before q among the announcements of h.
Better(h, p, q) == Priority(h, p) > Priority(h, q)

State == {"CANDIDATE_DELAYED", "CANDIDATE_READY", "CANDIDATE_BEST", "REQUESTED", "COMPLETED"}
NONE  == "NONE"
Row   == [Peer -> State \cup {NONE}]

IsSelected   == {"CANDIDATE_BEST", "REQUESTED"}
IsWaiting    == {"CANDIDATE_DELAYED", "REQUESTED"}
IsSelectable == {"CANDIDATE_READY", "CANDIDATE_BEST"}
Candidate    == {"CANDIDATE_DELAYED", "CANDIDATE_READY", "CANDIDATE_BEST"}

In(row, states) == {p \in Peer : row[p] \in states}

NoAnnouncements == [p \in Peer |-> NONE]

-----------------------------------------------------------------------------
(* Helpers.  The ByTxHash index sorts a row by state and then by priority, so *)
(* the neighbours the code looks at are the best CANDIDATE_READY announcement *)
(* and the selected one.                                                      *)

IsBestReady(h, row, p) ==
    /\ row[p] = "CANDIDATE_READY"
    /\ \A q \in In(row, {"CANDIDATE_READY"}) \ {p} : Better(h, p, q)

\* CANDIDATE_DELAYED becomes CANDIDATE_READY, or CANDIDATE_BEST when no other
\* announcement of the row comes before it.
PromoteCandidateReady(h, row, p) ==
    IF /\ \A q \in In(row, {"CANDIDATE_READY"}) : Better(h, p, q)
       /\ \A q \in In(row, IsSelected) : row[q] = "CANDIDATE_BEST" /\ Better(h, p, q)
    THEN [q \in Peer |-> IF q = p THEN "CANDIDATE_BEST"
                         ELSE IF row[q] = "CANDIDATE_BEST" THEN "CANDIDATE_READY" ELSE row[q]]
    ELSE [row EXCEPT ![p] = "CANDIDATE_READY"]

\* p's announcement gets the state new; if it was selected the best
\* CANDIDATE_READY takes its place.
ChangeAndReselect(h, row, p, new) ==
    [q \in Peer |-> IF q = p THEN new
                    ELSE IF row[p] \in IsSelected /\ IsBestReady(h, row, q) THEN "CANDIDATE_BEST"
                    ELSE row[q]]

IsOnlyNonCompleted(row, p) ==
    \A q \in Peer \ {p} : row[q] \in {NONE, "COMPLETED"}

\* Mutated form: a row of COMPLETED announcements is kept.
MakeCompleted_Kept(h, row, p) ==
    IF row[p] = "COMPLETED" THEN row ELSE ChangeAndReselect(h, row, p, "COMPLETED")

\* The announcement has failed or was answered.  When only COMPLETED ones are
\* left the whole row is deleted.
MakeCompleted(h, row, p) ==
    IF row[p] = "COMPLETED" THEN row
    ELSE IF IsOnlyNonCompleted(row, p) THEN NoAnnouncements
    ELSE ChangeAndReselect(h, row, p, "COMPLETED")

-----------------------------------------------------------------------------
(* The operations of the tracker.                                           *)

ReceivedInv(row, p) ==
    IF row[p] = NONE THEN [row EXCEPT ![p] = "CANDIDATE_DELAYED"] ELSE row

ReceivedResponse(h, row, p) ==
    IF row[p] = NONE THEN row ELSE MakeCompleted(h, row, p)

DisconnectedPeer(h, row, p) ==
    IF row[p] = NONE THEN row ELSE [MakeCompleted(h, row, p) EXCEPT ![p] = NONE]

\* Any candidate may be requested; another selected announcement gives way.
RequestedTx(row, p) ==
    IF row[p] = "CANDIDATE_BEST" THEN [row EXCEPT ![p] = "REQUESTED"]
    ELSE IF row[p] \in Candidate
    THEN [q \in Peer |-> IF q = p THEN "REQUESTED"
                         ELSE CASE row[q] = "CANDIDATE_BEST" -> "CANDIDATE_READY"
                                [] row[q] = "REQUESTED" -> "COMPLETED"
                                [] OTHER -> row[q]]
    ELSE row

\* One iteration of the loops of SetTimePoint on p's announcement; past says
\* whether its time has come.
SetTimePoint(h, row, p, past) ==
    CASE row[p] = "CANDIDATE_DELAYED" /\ past   -> PromoteCandidateReady(h, row, p)
      [] row[p] = "REQUESTED" /\ past           -> MakeCompleted(h, row, p)
      [] row[p] \in IsSelectable /\ ~past       -> ChangeAndReselect(h, row, p, "CANDIDATE_DELAYED")
      [] OTHER                                  -> row

-----------------------------------------------------------------------------
(* What SanityCheck asserts of a row.                                       *)
Sane(h, row) ==
    /\ \A p \in Peer : row[p] = "COMPLETED" => \E q \in Peer : row[q] \in Candidate \cup {"REQUESTED"}
    /\ \A p, q \in In(row, IsSelected) : p = q
    /\ In(row, {"CANDIDATE_READY"}) # {} => In(row, IsSelected) # {}
    /\ \A p, q \in Peer : row[p] = "CANDIDATE_BEST" /\ row[q] = "CANDIDATE_READY" => Better(h, p, q)

\* The state of an announcement as the contract in txrequest.h knows it.
Abstract(state) == IF state \in Candidate THEN "CANDIDATE" ELSE state

=============================================================================
