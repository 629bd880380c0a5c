------------------------------- MODULE UtxoView -------------------------------
(***************************************************************************)
(* What the coins view hierarchy promises: one UTXO set, one set of spent  *)
(* peg-ins and one best block, changed through a working copy that is      *)
(* either committed as a whole or dropped.  There are no caches, no flags  *)
(* and no disk here; CoinsCache is shown to implement this specification.  *)
(***************************************************************************)
CONSTANTS Outpoint, Pegin, CoinValue, NoCoin, Unspendable, Block

VARIABLES
    coins,      \* what the chainstate tip holds: the unspent coin of each outpoint
    pegins,     \* the peg-ins it records as spent
    best,       \* the block it describes
    wcoins,     \* the same three, as seen through the working copy
    wpegins,
    wbest,
    open        \* whether a working copy is in use

committed == <<coins, pegins, best>>
working == <<wcoins, wpegins, wbest>>
vars == <<committed, working, open>>

Coin == CoinValue \cup {NoCoin}

\* Every variable has its type.
TypeOK ==
    /\ coins \in [Outpoint -> Coin] /\ wcoins \in [Outpoint -> Coin]
    /\ pegins \in SUBSET Pegin /\ wpegins \in SUBSET Pegin
    /\ best \in Block /\ wbest \in Block
    /\ open \in BOOLEAN

Init ==
    /\ coins \in [Outpoint -> (CoinValue \ Unspendable) \cup {NoCoin}]
    /\ pegins \in SUBSET Pegin
    /\ best \in Block
    /\ working = committed
    /\ open = FALSE

Open ==
    /\ ~open
    /\ open' = TRUE
    /\ UNCHANGED <<committed, working>>

\* An output that can never be spent is not recorded.
Add(o, v) ==
    /\ open
    /\ v \notin Unspendable
    /\ wcoins' = [wcoins EXCEPT ![o] = v]
    /\ UNCHANGED <<wpegins, wbest, committed, open>>

Spend(o) ==
    /\ open
    /\ wcoins' = [wcoins EXCEPT ![o] = NoCoin]
    /\ UNCHANGED <<wpegins, wbest, committed, open>>

ClaimPegin(p) ==
    /\ open
    /\ wpegins' = wpegins \cup {p}
    /\ UNCHANGED <<wcoins, wbest, committed, open>>

ReleasePegin(p) ==
    /\ open
    /\ wpegins' = wpegins \ {p}
    /\ UNCHANGED <<wcoins, wbest, committed, open>>

SetBest(b) ==
    /\ open
    /\ wbest' = b
    /\ UNCHANGED <<wcoins, wpegins, committed, open>>

\* The working copy becomes the state of the tip, all of it at once.
Commit ==
    /\ open
    /\ committed' = working
    /\ UNCHANGED <<working, open>>

Drop ==
    /\ open
    /\ open' = FALSE
    /\ working' = committed
    /\ UNCHANGED committed

\* Loading a snapshot writes coins straight into the tip.
Load(o, v) ==
    /\ ~open
    /\ coins[o] = NoCoin
    /\ coins' = [coins EXCEPT ![o] = v]
    /\ wcoins' = coins'
    /\ UNCHANGED <<pegins, best, wpegins, wbest, open>>

Next ==
    \/ Open
    \/ \E o \in Outpoint, v \in CoinValue : Add(o, v)
    \/ \E o \in Outpoint : Spend(o)
    \/ \E p \in Pegin : ClaimPegin(p)
    \/ \E p \in Pegin : ReleasePegin(p)
    \/ \E b \in Block : SetBest(b)
    \/ Commit
    \/ Drop
    \/ \E o \in Outpoint, v \in CoinValue : Load(o, v)

Spec == Init /\ [][Next]_vars

===============================================================================
