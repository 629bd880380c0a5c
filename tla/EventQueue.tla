------------------------------ MODULE EventQueue ------------------------------
(***************************************************************************)
(* What the queue of validation events promises: events are executed one   *)
(* at a time, each once, in the order they were added, and all of them     *)
(* are, except that the last one may be left when the queue is closed.     *)
(* Which threads do it, and when they sleep, does not show.                *)
(***************************************************************************)
EXTENDS Naturals, Sequences

CONSTANT NoEvent

VARIABLES
    pending,    \* the events that wait, oldest first
    current,    \* the one being executed
    added,      \* how many were ever added; events are numbered
    open

vars == <<pending, current, added, open>>

Init == pending = <<>> /\ current = NoEvent /\ added = 0 /\ open = TRUE

Add ==
    /\ open
    /\ added' = added + 1
    /\ pending' = Append(pending, added')
    /\ UNCHANGED <<current, open>>

Begin ==
    /\ current = NoEvent /\ pending # <<>>
    /\ current' = Head(pending)
    /\ pending' = Tail(pending)
    /\ UNCHANGED <<added, open>>

End ==
    /\ current # NoEvent
    /\ current' = NoEvent
    /\ UNCHANGED <<pending, added, open>>

Close ==
    /\ open
    /\ current = NoEvent /\ Len(pending) <= 1
    /\ pending' = <<>>
    /\ open' = FALSE
    /\ UNCHANGED <<current, added>>

Next == Add \/ Begin \/ End \/ Close

Safety == Init /\ [][Next]_vars

Spec == Safety /\ WF_vars(Begin) /\ WF_vars(End)

===============================================================================
