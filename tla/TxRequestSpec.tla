--------------------------- MODULE TxRequestSpec ---------------------------
(***************************************************************************)
(* What TxRequestTracker promises for one transaction hash, as the rules at *)
(* the head of src/txrequest.h put it: each peer has at most one            *)
(* announcement; a request goes to the best candidate whose time has come,  *)
(* while no other request is outstanding; an announcement that has failed   *)
(* is not tried again; and when only failed ones are left all are forgotten.*)
(* There is no bookkeeping of a best candidate here: who is best is decided *)
(* at the moment of the request.                                            *)
(***************************************************************************)
CONSTANTS
    Peer,
    Before          \* pairs of peers, the first to be preferred to the second

VARIABLES
    ann,            \* ann[p]: "NONE", "CANDIDATE", "REQUESTED" or "COMPLETED"
    past            \* peers whose reqtime or expiry has passed, as the clock says

Live == {"CANDIDATE", "REQUESTED"}

\* Once nothing is left to try, what has failed is forgotten.
Settle(a) == IF \E p \in Peer : a[p] \in Live THEN a ELSE [p \in Peer |-> "NONE"]

Init == ann = [p \in Peer |-> "NONE"]

Announce(p) == ann[p] = "NONE" /\ ann' = [ann EXCEPT ![p] = "CANDIDATE"]

Requestable(p) ==
    /\ ann[p] = "CANDIDATE" /\ p \in past
    /\ \A q \in Peer : ann[q] # "REQUESTED"
    /\ \A q \in past \ {p} : ann[q] = "CANDIDATE" => <<p, q>> \in Before

Request(p) == Requestable(p) /\ ann' = [ann EXCEPT ![p] = "REQUESTED"]

\* An answer, or the expiry of a request.
Complete(p) == ann[p] \in Live /\ ann' = Settle([ann EXCEPT ![p] = "COMPLETED"])

Leave(p) == ann[p] # "NONE" /\ ann' = Settle([ann EXCEPT ![p] = "NONE"])

Forget == ann' = [p \in Peer |-> "NONE"]

Next ==
    \/ \E p \in Peer : Announce(p) \/ Request(p) \/ Complete(p) \/ Leave(p)
    \/ Forget

Step == UNCHANGED ann \/ Next

Spec == Init /\ [][Step]_ann
=============================================================================
