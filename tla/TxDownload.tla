----------------------------- MODULE TxDownload -----------------------------
(***************************************************************************)
(* How PeerManager (src/net_processing.cpp) downloads transactions: the     *)
(* request tracker (TxRequest), the orphanage (TxOrphanage), the filters of *)
(* rejected and recently confirmed transactions, and the handlers that tie  *)
(* them together.                                                           *)
(*                                                                          *)
(* One thread processes messages; disconnections and validation events come *)
(* from other threads.  An action is what runs under one hold of cs_main.   *)
(* SendMessages holds cs_main over several actions: `send' says whose call  *)
(* is under way, and while it is not idle only it may take cs_main.         *)
(*                                                                          *)
(* AcceptToMemoryPool is external: its verdict depends on the inputs that   *)
(* are there and otherwise on the transaction.  The rolling bloom filters   *)
(* are sets, without false positives.  Transactions enter the mempool from  *)
(* peers only: one submitted by RPC, and one that a reorganisation puts     *)
(* back, enters without ForgetTxHash and AddChildrenToWorkSet.              *)
(***************************************************************************)
EXTENDS TxRequest, TxOrphanage

CONSTANTS
    NoPeer,
    WtxidRelay,     \* peers that announce by wtxid
    Honest,         \* peers that answer every request, with the transaction if they have it
    Announces,      \* pairs of a peer and a hash it may announce
    Sends,          \* pairs of a peer and a transaction it may send, asked or not
    Coin,           \* outpoints of transactions confirmed before the start
    RecentCoin,     \* those that m_recent_confirmed_transactions holds at the start
    Verdict,        \* Verdict[t], what AcceptToMemoryPool says when all inputs are there
    Blocks,         \* sets of transactions that may be confirmed by a block
    MaxAnnouncements,   \* MAX_PEER_TX_ANNOUNCEMENTS
    MaxInFlight,        \* MAX_PEER_TX_REQUEST_IN_FLIGHT
    MaxBack             \* bound on the steps of the clock backwards

ASSUME PeerAssumption ==
    /\ NoPeer \notin Peer /\ WtxidRelay \subseteq Peer /\ Honest \subseteq Peer
    /\ Announces \subseteq Peer \X TxHash /\ Sends \subseteq Peer \X Tx

ASSUME TxAssumption ==
    /\ Txid \in [Tx -> TxHash] /\ Wtxid \in [Tx -> TxHash]
    /\ Inputs \in [Tx -> SUBSET TxHash] /\ Coin \subseteq TxHash
    /\ RecentCoin \subseteq Coin /\ \A t \in Tx : Txid[t] \notin Coin
    /\ Verdict \in [Tx -> {"VALID", "TX_WITNESS_STRIPPED", "TX_INPUTS_NOT_STANDARD", "TX_CONSENSUS"}]
    /\ \A t, u \in Tx : Inputs[t] \cap Inputs[u] \cap Coin # {} => Txid[t] = Txid[u]
    /\ Blocks \subseteq SUBSET {t \in Tx : Inputs[t] \subseteq Coin}

\* Hashes do not collide, and outpoints are named by txids.
ASSUME HashAssumption ==
    \A t, u \in Tx : /\ Wtxid[t] \in {Txid[u], Wtxid[u]} => Txid[t] = Txid[u]
                     /\ Wtxid[t] \in Inputs[u] => Wtxid[t] = Txid[t]

ASSUME BoundAssumption == MaxAnnouncements \in Nat /\ MaxInFlight \in Nat /\ MaxBack \in Nat

VARIABLES
    ann,            \* m_txrequest: ann[h], the row of each hash
    due,            \* the pairs <<h, p>> whose m_time the clock has reached
    send,           \* the call of SendMessages under way
    asked,          \* requests that honest peers have not answered yet
    orphanage,      \* m_orphanage
    work,           \* work[p], m_orphan_work_set
    dropped,        \* orphans in the work sets of peers that left
    pool,           \* the mempool
    chain,          \* transactions confirmed since the start
    confirmed,      \* m_recent_confirmed_transactions
    rejects,        \* recentRejects
    tipChanged,     \* the tip is not hashRecentRejectsChainTip
    event,          \* the BlockConnected event under way: its step and transactions
    connected,
    back            \* steps of the clock backwards so far

vars == <<ann, due, send, asked, orphanage, work, dropped, pool, chain, confirmed, rejects,
          tipChanged, event, connected, back>>

tracker == <<ann, due, send, asked>>
orphans == <<orphanage, work, dropped>>
filters == <<confirmed, rejects, tipChanged>>
world   == <<pool, chain, event, connected, back>>

Idle == [peer |-> NoPeer, phase |-> "idle", todo |-> {}]
NoEvent == [step |-> 0, txs |-> {}]

Init ==
    /\ ann = [h \in TxHash |-> NoAnnouncements]
    /\ due = {} /\ send = Idle /\ asked = {}
    /\ orphanage = EmptyOrphanage /\ work = [p \in Peer |-> {}] /\ dropped = {}
    /\ pool = {} /\ chain = {} /\ confirmed = RecentCoin /\ rejects = {} /\ tipChanged = FALSE
    /\ event = NoEvent /\ connected = Peer /\ back = 0

Hashes(t) == {Txid[t], Wtxid[t]}

\* Announcements that are COMPLETED or gone have no time that matters.
Timed(d, a) == {x \in d : a[x[1]][x[2]] \in Candidate \cup {"REQUESTED"}}

-----------------------------------------------------------------------------
(* AcceptToMemoryPool as the handlers see it.                               *)

InChain(op)  == op \in Coin \/ \E t \in chain : Txid[t] = op
Spent(op)    == \E t \in chain : op \in Inputs[t]
HaveCoin(op, pl) == (InChain(op) /\ ~Spent(op)) \/ \E t \in pl : Txid[t] = op

\* The possible verdicts.  When inputs are missing, the transaction is known to
\* be confirmed only if one of its outputs happens to be in the coins cache.
AcceptToMemoryPool(t, pl) ==
    IF \E u \in pl : Txid[u] = Txid[t] THEN {"TX_CONFLICT"}
    ELSE IF \A op \in Inputs[t] : HaveCoin(op, pl) THEN {Verdict[t]}
    ELSE {"TX_MISSING_INPUTS"} \cup {v \in {"TX_CONFLICT"} : InChain(Txid[t]) /\ ~Spent(Txid[t])}

\* Mutated form: a transaction without its witness is remembered as rejected.
Rejected_Stripped(t, verdict) ==
    IF verdict = "TX_INPUTS_NOT_STANDARD" THEN Hashes(t) ELSE {Wtxid[t]}

\* The hashes that a rejected transaction adds to recentRejects.
Rejected(t, verdict) ==
    CASE verdict = "TX_WITNESS_STRIPPED"    -> {}
      [] verdict = "TX_INPUTS_NOT_STANDARD" -> Hashes(t)
      [] OTHER                              -> {Wtxid[t]}

\* AlreadyHaveTx first empties recentRejects if the tip has changed.
RecentRejects == IF tipChanged THEN {} ELSE rejects

InPool(h, isWtxid) == \E t \in pool : h = IF isWtxid THEN Wtxid[t] ELSE Txid[t]

AlreadyHaveTx(h, isWtxid) ==
    \/ HaveOrphan(orphanage, h, isWtxid)
    \/ h \in confirmed \cup RecentRejects
    \/ InPool(h, isWtxid)

\* A hash that differs from the txid it belongs to is requested as a wtxid; for
\* a transaction without witness both lookups find the same.
IsWtxid(h) == \E t \in Tx : Wtxid[t] = h /\ Txid[t] # h

-----------------------------------------------------------------------------
(* AddTxAnnouncement: p announces one of the hashes hs after the other, until *)
(* it has too many.                                                           *)

Count(a, p)         == Cardinality({h \in TxHash : a[h][p] # NONE})
CountInFlight(a, p) == Cardinality({h \in TxHash : a[h][p] = "REQUESTED"})

NoDelay(a, p, isWtxid) ==
    /\ p \in Preferred
    /\ isWtxid \/ connected \cap WtxidRelay = {}
    /\ CountInFlight(a, p) < MaxInFlight

\* The sets of hashes of hs that get a new announcement of p.
Announceable(a, p, hs) ==
    LET new  == {h \in hs : a[h][p] = NONE}
        room == IF Count(a, p) < MaxAnnouncements THEN MaxAnnouncements - Count(a, p) ELSE 0
    IN  {s \in SUBSET new : Cardinality(s) = IF Cardinality(new) < room THEN Cardinality(new) ELSE room}

AddTxAnnouncement(a, p, s) ==
    [h \in TxHash |-> IF h \in s THEN ReceivedInv(a[h], p) ELSE a[h]]

DueAtOnce(a, p, s, isWtxid) == IF NoDelay(a, p, isWtxid) THEN {<<h, p>> : h \in s} ELSE {}

-----------------------------------------------------------------------------
(* ProcessMessages: messages of a peer wait while its work set is not empty.  *)

Handling(p) == send = Idle /\ p \in connected

Inv(p, h) ==
    /\ <<p, h>> \in Announces /\ Handling(p) /\ work[p] = {}
    /\ rejects' = RecentRejects /\ tipChanged' = FALSE
    /\ IF AlreadyHaveTx(h, p \in WtxidRelay)
       THEN UNCHANGED <<ann, due>>
       ELSE \E s \in Announceable(ann, p, {h}) :
                /\ ann' = AddTxAnnouncement(ann, p, s)
                /\ due' = due \cup DueAtOnce(ann, p, s, p \in WtxidRelay)
    /\ UNCHANGED <<send, asked, confirmed, orphans, world>>

\* The message notfound counts as an answer whatever the state of the announcement;
\* without one it changes nothing.
NotFound(p, h) ==
    /\ ann[h][p] # NONE \/ <<p, h>> \in asked
    /\ Handling(p) /\ work[p] = {}
    /\ p \in Honest => <<p, h>> \in asked /\ \A t \in Tx : <<p, t>> \in Sends => h \notin Hashes(t)
    /\ ann' = [ann EXCEPT ![h] = ReceivedResponse(h, ann[h], p)]
    /\ due' = Timed(due, ann')
    /\ asked' = asked \ {<<p, h>>}
    /\ UNCHANGED <<send, orphans, filters, world>>

\* ProcessOrphanTx on the work set w: entries that are gone or still lack inputs
\* are passed over, in the order of their hashes, until one is accepted or
\* rejected.
ProcessOrphanTx(p, w, pl, o, rj) ==
    LET verdicts(id) == AcceptToMemoryPool(OrphanTx(o, id), pl)
        passable     == {id \in w : id \in DOMAIN o.orphans => "TX_MISSING_INPUTS" \in verdicts(id)}
    IN  \/ /\ passable = w
           /\ work' = [work EXCEPT ![p] = {}]
           /\ pool' = pl /\ orphanage' = o /\ rejects' = rj
        \/ \E id \in w \cap DOMAIN o.orphans, passed \in SUBSET passable :
           \E verdict \in verdicts(id) \ {"TX_MISSING_INPUTS"} :
               LET t    == OrphanTx(o, id)
                   rest == w \ (passed \cup {id})
               IN  /\ orphanage' = EraseTx(o, id)
                   /\ IF verdict = "VALID"
                      THEN /\ pool' = pl \cup {t} /\ rejects' = rj
                           /\ work' = [work EXCEPT ![p] = rest \cup Children(o, t)]
                      ELSE /\ pool' = pl /\ rejects' = rj \cup Rejected(t, verdict)
                           /\ work' = [work EXCEPT ![p] = rest]

ProcessWorkSet(p) ==
    /\ Handling(p) /\ work[p] # {}
    /\ ProcessOrphanTx(p, work[p], pool, orphanage, rejects)
    /\ UNCHANGED <<tracker, dropped, chain, confirmed, tipChanged, event, connected, back>>

\* The message tx, up to the verdict: the requests it answers are complete.
Answered(p, t) ==
    [h \in TxHash |-> IF h \in Hashes(t) THEN ReceivedResponse(h, ann[h], p) ELSE ann[h]]

ForgetTxHash(a, hs) == [h \in TxHash |-> IF h \in hs THEN NoAnnouncements ELSE a[h]]

ReceiveTx(p, t) ==
    /\ <<p, t>> \in Sends /\ Handling(p) /\ work[p] = {}
    /\ p \in Honest => \E h \in Hashes(t) : <<p, h>> \in asked
    /\ asked' = {x \in asked : x[1] # p \/ x[2] \notin Hashes(t)}
    /\ tipChanged' = FALSE
    /\ UNCHANGED <<send, dropped, chain, confirmed, event, connected, back>>

TxKnown(p, t) ==
    /\ ReceiveTx(p, t)
    /\ AlreadyHaveTx(Wtxid[t], TRUE)
    /\ ann' = Answered(p, t) /\ due' = Timed(due, ann')
    /\ rejects' = RecentRejects
    /\ UNCHANGED <<orphanage, work, pool>>

TxAccepted(p, t) ==
    /\ ReceiveTx(p, t)
    /\ ~AlreadyHaveTx(Wtxid[t], TRUE) /\ "VALID" \in AcceptToMemoryPool(t, pool)
    /\ ann' = ForgetTxHash(Answered(p, t), Hashes(t)) /\ due' = Timed(due, ann')
    /\ ProcessOrphanTx(p, work[p] \cup Children(orphanage, t), pool \cup {t}, orphanage, RecentRejects)

\* The parents of an orphan are fetched from the peer that sent it, by txid.
TxMissingInputs(p, t) ==
    LET answered == Answered(p, t)
    IN  /\ ReceiveTx(p, t)
        /\ ~AlreadyHaveTx(Wtxid[t], TRUE) /\ "TX_MISSING_INPUTS" \in AcceptToMemoryPool(t, pool)
        /\ Inputs[t] \cap RecentRejects = {}
        /\ \E s \in Announceable(answered, p, {h \in Inputs[t] : ~AlreadyHaveTx(h, FALSE)}) :
               /\ ann' = ForgetTxHash(AddTxAnnouncement(answered, p, s), Hashes(t))
               /\ due' = Timed(due \cup DueAtOnce(answered, p, s, FALSE), ann')
        /\ orphanage' \in LimitOrphans(AddTx(orphanage, t, p), Txid[t])
        /\ rejects' = RecentRejects
        /\ UNCHANGED <<work, pool>>

TxRejectedParents(p, t) ==
    /\ ReceiveTx(p, t)
    /\ ~AlreadyHaveTx(Wtxid[t], TRUE) /\ "TX_MISSING_INPUTS" \in AcceptToMemoryPool(t, pool)
    /\ Inputs[t] \cap RecentRejects # {}
    /\ ann' = ForgetTxHash(Answered(p, t), Hashes(t)) /\ due' = Timed(due, ann')
    /\ rejects' = RecentRejects \cup Hashes(t)
    /\ UNCHANGED <<orphanage, work, pool>>

TxRejected(p, t) ==
    /\ ReceiveTx(p, t)
    /\ ~AlreadyHaveTx(Wtxid[t], TRUE)
    /\ \E verdict \in AcceptToMemoryPool(t, pool) \ {"VALID", "TX_MISSING_INPUTS"} :
           /\ ann' = ForgetTxHash(Answered(p, t), Rejected(t, verdict)) /\ due' = Timed(due, ann')
           /\ rejects' = RecentRejects \cup Rejected(t, verdict)
    /\ UNCHANGED <<orphanage, work, pool>>

ProcessTx(p, t) ==
    \/ TxKnown(p, t)
    \/ TxAccepted(p, t)
    \/ TxMissingInputs(p, t)
    \/ TxRejectedParents(p, t)
    \/ TxRejected(p, t)

-----------------------------------------------------------------------------
(* SendMessages: GetRequestable moves the tracker to the present time, one    *)
(* announcement after the other, and selects what to request from the peer;   *)
(* then each transaction is requested or, if it is known by now, forgotten.   *)
(* SetTimePoint does the same for every peer, so the peer of the call is      *)
(* chosen when it selects; a call that changes nothing is no step.            *)

Expiring  == {x \in TxHash \X Peer : ann[x[1]][x[2]] \in IsWaiting /\ x \in due}
\* Mutated form: a clock that went backwards is not noticed.
Premature_Never == {}

Premature == {x \in TxHash \X Peer : ann[x[1]][x[2]] \in IsSelectable /\ x \notin due}

MoveTime(h, q) ==
    /\ send.phase \in {"idle", "time"}
    /\ <<h, q>> \in Expiring \/ (<<h, q>> \in Premature /\ Expiring = {})
    /\ ann' = [ann EXCEPT ![h] = SetTimePoint(h, ann[h], q, <<h, q>> \in due)]
    /\ due' = Timed(due, ann')
    /\ send' = [send EXCEPT !.phase = "time"]
    /\ UNCHANGED <<asked, orphans, filters, world>>

Sending(p, todo) == IF todo = {} THEN Idle ELSE [peer |-> p, phase |-> "request", todo |-> todo]

GetRequestable(p) ==
    /\ send.phase \in {"idle", "time"} /\ p \in connected
    /\ Expiring = {} /\ Premature = {}
    /\ send' = Sending(p, {h \in TxHash : ann[h][p] = "CANDIDATE_BEST"})
    /\ UNCHANGED <<ann, due, asked, orphans, filters, world>>

RequestOrForget(h) ==
    LET p == send.peer
    IN  /\ send.phase = "request" /\ h \in send.todo
        /\ send' = Sending(p, send.todo \ {h})
        /\ rejects' = RecentRejects /\ tipChanged' = FALSE
        /\ IF AlreadyHaveTx(h, IsWtxid(h))
           THEN /\ ann' = ForgetTxHash(ann, {h}) /\ due' = Timed(due, ann')
                /\ UNCHANGED asked
           ELSE /\ ann' = [ann EXCEPT ![h] = RequestedTx(ann[h], p)]
                /\ due' = due \ {<<h, p>>}
                /\ asked' = asked \cup (({p} \cap Honest) \X {h})
        /\ UNCHANGED <<confirmed, orphans, world>>

-----------------------------------------------------------------------------
(* The other threads.                                                       *)

\* FinalizeNode.
Disconnect(p) ==
    /\ Handling(p)
    /\ connected' = connected \ {p}
    /\ orphanage' = EraseForPeer(orphanage, p)
    /\ ann' = [h \in TxHash |-> DisconnectedPeer(h, ann[h], p)]
    /\ due' = Timed(due, ann')
    /\ asked' = {x \in asked : x[1] # p}
    /\ work' = [work EXCEPT ![p] = {}]
    /\ dropped' = dropped \cup work[p]
    /\ UNCHANGED <<send, filters, pool, chain, event, back>>

\* A block becomes the tip; the mempool loses its transactions.
ConnectBlock(block) ==
    /\ send = Idle /\ chain = {} /\ block \in Blocks
    /\ chain' = block
    /\ pool' = {t \in pool : \A b \in block : Txid[b] # Txid[t]}
    /\ tipChanged' = TRUE
    /\ event' = [step |-> 1, txs |-> block]
    /\ UNCHANGED <<tracker, orphans, confirmed, rejects, connected, back>>

\* PeerManagerImpl::BlockConnected takes three locks one after the other.
EraseOrphansOfBlock ==
    /\ event.step = 1
    /\ event' = [event EXCEPT !.step = 2]
    /\ orphanage' = EraseForBlock(orphanage, event.txs)
    /\ UNCHANGED <<tracker, work, dropped, filters, pool, chain, connected, back>>

RememberConfirmed ==
    /\ event.step = 2
    /\ event' = [event EXCEPT !.step = 3]
    /\ confirmed' = confirmed \cup UNION {Hashes(t) : t \in event.txs}
    /\ UNCHANGED <<tracker, orphans, rejects, tipChanged, pool, chain, connected, back>>

\* Mutated form: only txids are forgotten.
ForgetConfirmed_Txids ==
    /\ event.step = 3 /\ send = Idle
    /\ event' = NoEvent
    /\ ann' = ForgetTxHash(ann, {Txid[t] : t \in event.txs})
    /\ due' = Timed(due, ann')
    /\ UNCHANGED <<send, asked, orphans, filters, pool, chain, connected, back>>

ForgetConfirmed ==
    /\ event.step = 3 /\ send = Idle
    /\ event' = NoEvent
    /\ ann' = ForgetTxHash(ann, UNION {Hashes(t) : t \in event.txs})
    /\ due' = Timed(due, ann')
    /\ UNCHANGED <<send, asked, orphans, filters, pool, chain, connected, back>>

ClockForward(h, p) ==
    /\ send = Idle /\ <<h, p>> \notin due
    /\ ann[h][p] \in Candidate \cup {"REQUESTED"}
    /\ due' = due \cup {<<h, p>>}
    /\ UNCHANGED <<ann, send, asked, orphans, filters, world>>

ClockBackward(h, p) ==
    /\ send = Idle /\ <<h, p>> \in due /\ back < MaxBack
    /\ due' = due \ {<<h, p>>} /\ back' = back + 1
    /\ UNCHANGED <<ann, send, asked, orphans, filters, pool, chain, event, connected>>

Next ==
    \/ \E p \in Peer, h \in TxHash :
           Inv(p, h) \/ NotFound(p, h) \/ MoveTime(h, p) \/ ClockForward(h, p) \/ ClockBackward(h, p)
    \/ \E p \in Peer, t \in Tx : ProcessTx(p, t)
    \/ \E p \in Peer : ProcessWorkSet(p) \/ GetRequestable(p) \/ Disconnect(p)
    \/ \E h \in TxHash : RequestOrForget(h)
    \/ \E block \in Blocks : ConnectBlock(block)
    \/ EraseOrphansOfBlock \/ RememberConfirmed \/ ForgetConfirmed

Spec == Init /\ [][Next]_vars

(* The message thread visits every peer again and again: each call of          *)
(* SendMessages ends with the tracker at the present time and nothing left to   *)
(* request from its peer, and ProcessMessages works off the peer's work set.    *)
(* The time of every announcement comes, honest peers answer, and validation    *)
(* events run to their end.                                                     *)
Fairness ==
    /\ WF_vars(\E h \in TxHash : RequestOrForget(h))
    /\ WF_vars(send.phase = "time" /\ \E p \in Peer : GetRequestable(p))
    /\ []<>(Expiring \cup Premature = {})
    /\ \A p \in Peer :
           /\ []<>(\A h \in TxHash : ann[h][p] # "CANDIDATE_BEST")
           /\ []<>(work[p] = {})
    /\ \A h \in TxHash :
           /\ \A p \in Peer : []<>(<<h, p>> \in due \/ ann[h][p] \in {NONE, "COMPLETED"})
           /\ \A p \in Honest : []<>(<<p, h>> \notin asked)
    /\ []<>(event = NoEvent)

FairSpec == Spec /\ Fairness

-----------------------------------------------------------------------------
OrphanIds == DOMAIN orphanage.orphans

\* The tracker is always as TxRequestTracker::SanityCheck asserts (at most one
\* selected peer per hash, the best ready one; never only COMPLETED ones), and
\* what SendMessages is about to request is still CANDIDATE_BEST, as the comment
\* in RequestedTx says.
TrackerSane ==
    /\ \A h \in TxHash : Sane(h, ann[h])
    /\ \A h \in send.todo : ann[h][send.peer] = "CANDIDATE_BEST"
    /\ \A h \in TxHash : In(ann[h], State) \subseteq connected

\* The contract of one hash.
Contract(h) == INSTANCE TxRequestSpec WITH
    Before <- {pq \in Peer \X Peer : Better(h, pq[1], pq[2])},
    ann    <- [p \in Peer |-> Abstract(ann[h][p])],
    past   <- {p \in Peer : <<h, p>> \in due}

\* For every hash the tracker, with its bookkeeping of a best candidate, does what
\* the rules at the head of txrequest.h allow: a request goes to the best candidate
\* that is due while none is outstanding, and nobody is asked twice.
ImplementsTracker ==
    /\ \A h \in TxHash : Contract(h)!Init
    /\ [][\A h \in TxHash : Contract(h)!Step]_vars

\* m_orphans, the positions in m_orphan_list and m_outpoint_to_orphan_it describe
\* the same orphans, no more than -maxorphantx, each from a peer that is connected
\* (FinalizeNode erases the others).
OrphanageConsistent ==
    /\ Len(orphanage.list) = Cardinality(OrphanIds) /\ Len(orphanage.list) <= MaxOrphans
    /\ \A id \in OrphanIds :
           /\ orphanage.orphans[id].pos \in DOMAIN orphanage.list
           /\ orphanage.list[orphanage.orphans[id].pos] = id
           /\ orphanage.orphans[id].from \in connected
    /\ \A op \in Outpoint :
           orphanage.byPrev[op] = {id \in OrphanIds : op \in Inputs[OrphanTx(orphanage, id)]}

\* An orphan whose parents were all accepted is in the work set of a connected
\* peer, so it is looked at again; it is passed over if the peer that had it in its
\* work set has left, or a parent came by a block.  (A parent that comes by RPC or
\* is put back by a reorganisation queues no orphan either; neither is modelled.)
ReadyOrphansQueued ==
    \A id \in OrphanIds :
        (\A op \in Inputs[OrphanTx(orphanage, id)] : \E t \in pool : Txid[t] = op)
            => id \in dropped \cup UNION {work[p] : p \in connected}

\* No announcement is kept of a transaction that AlreadyHaveTx finds, as the
\* comment at the end of SendMessages says, except while BlockConnected is under way.
\* (Announcements also stay of transactions that come by RPC or are put back by a
\* reorganisation, until SendMessages gets to them; neither is modelled.)
KnownTxForgotten ==
    \A h \in TxHash : AlreadyHaveTx(h, IsWtxid(h)) => ann[h] = NoAnnouncements \/ event # NoEvent

\* A valid transaction with confirmed inputs that an honest peer announces, or is
\* asked for as a parent, is eventually in the mempool or confirmed, whatever the
\* others announce, send or leave unanswered.
HonestTxArrives ==
    \A p \in Honest :
        \A t \in {x \in Tx : Verdict[x] = "VALID" /\ Inputs[x] \subseteq Coin /\ <<p, x>> \in Sends} :
            (\E h \in Hashes(t) : ann[h][p] # NONE) ~> (t \in pool \cup chain \/ p \notin connected)
=============================================================================
