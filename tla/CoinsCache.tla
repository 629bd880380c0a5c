------------------------------ MODULE CoinsCache ------------------------------
(***************************************************************************)
(* The coins views of coins.h and coins.cpp as the chainstate stacks them: *)
(* the coins database, CoinsTip() - a CCoinsViewCache over it - and the    *)
(* short-lived CCoinsViewCache that ConnectTip, DisconnectTip and VerifyDB *)
(* put over CoinsTip().  A miss in a cache reads through to its parent and *)
(* fills both; the DIRTY and FRESH flags decide what a flush writes down   *)
(* and what it may forget; peg-in entries share the map under their own    *)
(* keys and flag.  cachedCoinsUsage is a running count: every path adds    *)
(* and subtracts for itself, and nothing ever recounts the map.            *)
(***************************************************************************)
EXTENDS Integers, FiniteSets, Functions

CONSTANTS
    Outpoint,     \* keys <null hash, outpoint> of the map: native coins
    Pegin,        \* keys <genesis hash, outpoint> of the map: peg-ins
    CoinValue,    \* contents of an unspent coin
    NoCoin,       \* the null coin: spent, or never seen
    Unspendable,  \* the coins whose scriptPubKey can never be spent
    Usage,        \* Coin::DynamicMemoryUsage
    Block,        \* hashes of blocks
    NullBlock,    \* the null hash
    NoEntry       \* cacheCoins.end()

Coin == CoinValue \cup {NoCoin}
Key == Outpoint \cup Pegin
Flag == {"DIRTY", "FRESH", "PEGIN"}

\* CCoinsCacheEntry
Entry == [coin : Coin, peginSpent : BOOLEAN, flags : SUBSET Flag]
CoinsMap == [Key -> Entry \cup {NoEntry}]
Empty == [k \in Key |-> NoEntry]

ASSUME KeyAssumption == Outpoint \cap Pegin = {} /\ IsFiniteSet(Outpoint) /\ IsFiniteSet(Pegin)
ASSUME CoinAssumption == NoCoin \notin CoinValue /\ Unspendable \subseteq CoinValue
ASSUME UsageAssumption == Usage \in [Coin -> Nat] /\ Usage[NoCoin] = 0
ASSUME EntryAssumption == NoEntry \notin Entry
ASSUME BlockAssumption == NullBlock \notin Block

VARIABLES
    dbCoins, dbPegins, dbBest,   \* the database: coins, peg-ins marked spent, DB_BEST_BLOCK
    tip, tipBlock, tipUsage,     \* CoinsTip(): cacheCoins, hashBlock, cachedCoinsUsage
    view, viewBlock, viewUsage,  \* the view over it
    viewOpen                     \* whether such a view exists

dbVars == <<dbCoins, dbPegins, dbBest>>
tipVars == <<tip, tipBlock, tipUsage>>
viewVars == <<view, viewBlock, viewUsage>>
vars == <<dbVars, tipVars, viewVars, viewOpen>>

-------------------------------------------------------------------------------
(* What the lookups answer at each level: the entry, or else the parent's  *)
(* answer.  c is the parent's coins, s the peg-ins it has as spent.        *)

CoinsOf(m, c) == [o \in Outpoint |-> IF m[o] = NoEntry THEN c[o] ELSE m[o].coin]
PeginsOf(m, s) == {p \in Pegin : IF m[p] = NoEntry THEN p \in s ELSE m[p].peginSpent}

TipCoins == CoinsOf(tip, dbCoins)
ViewCoins == CoinsOf(view, TipCoins)

TipPegins == PeginsOf(tip, dbPegins)
ViewPegins == PeginsOf(view, TipPegins)

TipBest == IF tipBlock = NullBlock THEN dbBest ELSE tipBlock
ViewBest == IF viewBlock = NullBlock THEN TipBest ELSE viewBlock

-------------------------------------------------------------------------------
(* CCoinsViewCache, on a map m whose parent answers the coin c for the     *)
(* key, and has the peg-ins s as spent.                                    *)

CoinEntry(c, flags) == [coin |-> c, peginSpent |-> FALSE, flags |-> flags]
PeginEntry(s, flags) == [coin |-> NoCoin, peginSpent |-> s, flags |-> flags]

\* FetchCoin: only an unspent coin of the parent is cached, and it is clean.
FetchCoin(m, o, c) ==
    IF m[o] = NoEntry /\ c # NoCoin
    THEN [m EXCEPT ![o] = CoinEntry(c, {})]
    ELSE m

\* Mutated form: a spent entry not flushed yet becomes FRESH when re-added.
AddCoinFlags_ForgetDirty(m, o, possibleOverwrite) ==
    LET old == IF m[o] = NoEntry THEN {} ELSE m[o].flags
    IN  old \cup {"DIRTY"} \cup (IF possibleOverwrite THEN {} ELSE {"FRESH"})

\* Mutated form: possible_overwrite is not looked at.
AddCoinFlags_IgnoreOverwrite(m, o, possibleOverwrite) ==
    LET old == IF m[o] = NoEntry THEN {} ELSE m[o].flags
    IN  old \cup {"DIRTY"} \cup (IF "DIRTY" \in old THEN {} ELSE {"FRESH"})

\* AddCoin: a new or a clean spent entry is FRESH, unless the caller says that
\* the coin may be there already; a DIRTY one keeps the flags it has.
AddCoinFlags(m, o, possibleOverwrite) ==
    LET old == IF m[o] = NoEntry THEN {} ELSE m[o].flags
    IN  old \cup {"DIRTY"} \cup
        (IF possibleOverwrite \/ "DIRTY" \in old THEN {} ELSE {"FRESH"})

AddCoin(m, o, v, possibleOverwrite) ==
    [m EXCEPT ![o] = CoinEntry(v, AddCoinFlags(m, o, possibleOverwrite))]

\* SpendCoin, on a map that FetchCoin has filled.
SpendCoin(m, o) ==
    IF m[o] = NoEntry THEN m
    ELSE IF "FRESH" \in m[o].flags THEN [m EXCEPT ![o] = NoEntry]
    ELSE [m EXCEPT ![o] = CoinEntry(NoCoin, m[o].flags \cup {"DIRTY"})]

\* IsPeginSpent caches the parent's answer, whatever it is.
FetchPegin(m, p, s) ==
    IF m[p] # NoEntry THEN m
    ELSE [m EXCEPT ![p] = IF p \in s THEN PeginEntry(TRUE, {"PEGIN"})
                          ELSE PeginEntry(FALSE, {"PEGIN", "FRESH"})]

SetPeginSpent(m, p, s, fSpent) ==
    LET hadSpent == IF m[p] = NoEntry THEN p \in s ELSE m[p].peginSpent
        old == IF m[p] # NoEntry THEN m[p].flags
               ELSE IF hadSpent THEN {} ELSE {"FRESH"}
    IN  IF hadSpent <=> fSpent THEN m
        ELSE [m EXCEPT ![p] = PeginEntry(fSpent, old \cup {"PEGIN", "DIRTY"})]

\* Mutated form: a peg-in is pruned by the rule for coins.
Prunable_CoinRule(e) == e.coin = NoCoin

\* An entry with nothing behind it: a peg-in not spent, or a spent coin.
Prunable(e) == IF "PEGIN" \in e.flags THEN ~e.peginSpent ELSE e.coin = NoCoin

\* The entry that BatchWrite leaves for the DIRTY entry e of the child: the
\* parent's up, or a new one with e's flags, takes over the coin or the spent
\* mark, whichever the key is for.
MergeEntry(up, e) ==
    LET old   == IF up = NoEntry THEN CoinEntry(NoCoin, e.flags) ELSE up
        pegin == "PEGIN" \in e.flags
    IN  [coin       |-> IF pegin THEN old.coin ELSE e.coin,
         peginSpent |-> IF pegin THEN e.peginSpent ELSE old.peginSpent,
         flags      |-> old.flags \cup {"DIRTY"}]

\* A prunable entry is forgotten if it is FRESH: in the parent if that has an
\* entry for the key, else in the child.
Forgotten(up, e) ==
    Prunable(e) /\ "FRESH" \in (IF up = NoEntry THEN e.flags ELSE up.flags)

Ignored(e) == IF e = NoEntry THEN TRUE ELSE "DIRTY" \notin e.flags

\* One round of BatchWrite's loop, for the entry e of the child.
BatchWriteEntry(up, e) ==
    IF Ignored(e) THEN up
    ELSE IF Forgotten(up, e) THEN NoEntry
    ELSE MergeEntry(up, e)

\* The logic_error of BatchWrite: the child calls FRESH a coin that the parent
\* holds unspent.
FreshMisapplied(up, e) ==
    /\ e # NoEntry /\ up # NoEntry
    /\ {"DIRTY", "FRESH"} \subseteq e.flags
    /\ up.coin # NoCoin

-------------------------------------------------------------------------------
(* What each path of CCoinsViewCache adds to cachedCoinsUsage.             *)

\* A coin read from the parent is added when it is cached.
FetchCoinUsage(m, o, c) == IF m[o] = NoEntry /\ c # NoCoin THEN Usage[c] ELSE 0

\* The coin in an entry that was there already is subtracted (before the check
\* that throws if the caller has ruled out an overwrite), the new one added.
AddCoinUsage(m, o, v) == Usage[v] - (IF m[o] = NoEntry THEN 0 ELSE Usage[m[o].coin])

\* The coin is subtracted before the entry is erased or cleared.
SpendCoinUsage(m, o) == IF m[o] = NoEntry THEN 0 ELSE -Usage[m[o].coin]

\* Mutated form: the entry that is erased from the parent stays counted.
BatchWriteUsage_EraseCounted(up, e) ==
    IF Ignored(e) \/ Forgotten(up, e) THEN 0
    ELSE IF up = NoEntry THEN Usage[MergeEntry(up, e).coin]
    ELSE Usage[MergeEntry(up, e).coin] - Usage[up.coin]

\* BatchWrite: nothing for an entry that is skipped, the coin of a created entry,
\* minus that of an erased one, and both for an entry that is modified.
BatchWriteUsage(up, e) ==
    IF Ignored(e) THEN 0
    ELSE IF up = NoEntry
         THEN IF Forgotten(up, e) THEN 0 ELSE Usage[MergeEntry(up, e).coin]
    ELSE IF Forgotten(up, e) THEN -Usage[up.coin]
    ELSE Usage[MergeEntry(up, e).coin] - Usage[up.coin]

-------------------------------------------------------------------------------
(* CoinsTip().                                                             *)

TipFetchCoin(o) ==
    /\ tip' = FetchCoin(tip, o, dbCoins[o])
    /\ tipUsage' = tipUsage + FetchCoinUsage(tip, o, dbCoins[o])

TipHaveCoin(o) ==
    /\ TipFetchCoin(o)
    /\ UNCHANGED <<dbVars, tipBlock, viewVars, viewOpen>>

TipIsPeginSpent(p) ==
    /\ tip' = FetchPegin(tip, p, dbPegins)
    /\ UNCHANGED <<dbVars, tipBlock, tipUsage, viewVars, viewOpen>>

\* Mutated form: a DIRTY entry may be evicted too.
Uncache_Dirty(o) ==
    /\ tip[o] # NoEntry
    /\ "FRESH" \notin tip[o].flags
    /\ tip' = [tip EXCEPT ![o] = NoEntry]
    /\ tipUsage' = tipUsage - Usage[tip[o].coin]
    /\ UNCHANGED <<dbVars, tipBlock, viewVars, viewOpen>>

\* Uncache: only an entry with no flag at all may be forgotten.
Uncache(o) ==
    /\ tip[o] # NoEntry
    /\ tip[o].flags = {}
    /\ tip' = [tip EXCEPT ![o] = NoEntry]
    /\ tipUsage' = tipUsage - Usage[tip[o].coin]
    /\ UNCHANGED <<dbVars, tipBlock, viewVars, viewOpen>>

\* EmplaceCoinInternalDANGER, which a snapshot calls for distinct outpoints on a
\* cache that nothing else uses yet.  The coin is counted whether or not the map
\* takes it, which is right because the map has no entry for it.
EmplaceCoinInternalDANGER(o, v) ==
    /\ ~viewOpen
    /\ tip[o] = NoEntry
    /\ dbCoins[o] = NoCoin
    /\ tip' = [tip EXCEPT ![o] = IF @ = NoEntry THEN CoinEntry(v, {"DIRTY"}) ELSE @]
    /\ tipUsage' = tipUsage + Usage[v]
    /\ UNCHANGED <<dbVars, tipBlock, viewVars, viewOpen>>

\* Flush into CCoinsViewDB::BatchWrite: the DIRTY entries are written or erased.
\* FlushStateToDisk asks CoinsTip() for its best block first.
FlushTip ==
    /\ dbCoins' = [o \in Outpoint |->
           IF tip[o] # NoEntry /\ "DIRTY" \in tip[o].flags THEN tip[o].coin ELSE dbCoins[o]]
    /\ dbPegins' = {p \in Pegin :
           IF tip[p] # NoEntry /\ "DIRTY" \in tip[p].flags THEN tip[p].peginSpent ELSE p \in dbPegins}
    /\ dbBest' = TipBest
    /\ tipBlock' = TipBest
    /\ tip' = Empty
    /\ tipUsage' = 0
    /\ UNCHANGED <<viewVars, viewOpen>>

-------------------------------------------------------------------------------
(* The view over CoinsTip().                                               *)

OpenView ==
    /\ ~viewOpen
    /\ viewOpen' = TRUE
    /\ UNCHANGED <<dbVars, tipVars, viewVars>>

\* A lookup that misses in the view reads, and fills, CoinsTip().
ReadThrough(o) ==
    IF view[o] = NoEntry THEN TipFetchCoin(o) ELSE UNCHANGED <<tip, tipUsage>>

\* GetCoin, HaveCoin and AccessCoin.
HaveCoin(o) ==
    /\ viewOpen
    /\ ReadThrough(o)
    /\ view' = FetchCoin(view, o, TipCoins[o])
    /\ viewUsage' = viewUsage + FetchCoinUsage(view, o, TipCoins[o])
    /\ UNCHANGED <<dbVars, tipBlock, viewBlock, viewOpen>>

\* A caller that rules out an overwrite has looked the coin up, or knows it.
ViewAddCoin(o, v, possibleOverwrite) ==
    /\ viewOpen
    /\ v \notin Unspendable
    /\ possibleOverwrite \/ ViewCoins[o] = NoCoin
    /\ view' = AddCoin(view, o, v, possibleOverwrite)
    /\ viewUsage' = viewUsage + AddCoinUsage(view, o, v)
    /\ UNCHANGED <<dbVars, tipVars, viewBlock, viewOpen>>

ViewSpendCoin(o) ==
    /\ viewOpen
    /\ ReadThrough(o)
    /\ LET fetched == FetchCoin(view, o, TipCoins[o])
       IN  /\ view' = SpendCoin(fetched, o)
           /\ viewUsage' = viewUsage + FetchCoinUsage(view, o, TipCoins[o])
                                      + SpendCoinUsage(fetched, o)
    /\ UNCHANGED <<dbVars, tipBlock, viewBlock, viewOpen>>

ReadThroughPegin(p) ==
    tip' = IF view[p] = NoEntry THEN FetchPegin(tip, p, dbPegins) ELSE tip

IsPeginSpent(p) ==
    /\ viewOpen
    /\ ReadThroughPegin(p)
    /\ view' = FetchPegin(view, p, TipPegins)
    /\ UNCHANGED <<dbVars, tipBlock, tipUsage, viewBlock, viewUsage, viewOpen>>

ViewSetPeginSpent(p, fSpent) ==
    /\ viewOpen
    /\ ReadThroughPegin(p)
    /\ view' = SetPeginSpent(view, p, TipPegins, fSpent)
    /\ UNCHANGED <<dbVars, tipBlock, tipUsage, viewBlock, viewUsage, viewOpen>>

\* The best block is asked for once and then remembered, at both levels.
GetBestBlock ==
    /\ viewOpen
    /\ viewBlock' = ViewBest
    /\ tipBlock' = IF viewBlock = NullBlock THEN TipBest ELSE tipBlock
    /\ UNCHANGED <<dbVars, tip, tipUsage, view, viewUsage, viewOpen>>

SetBestBlock(b) ==
    /\ viewOpen
    /\ viewBlock' = b
    /\ UNCHANGED <<dbVars, tipVars, view, viewUsage, viewOpen>>

\* Flush into CCoinsViewCache::BatchWrite.  Whoever flushes a view has set or
\* asked for its best block before.
FlushView ==
    /\ viewOpen
    /\ viewBlock # NullBlock
    /\ \A k \in Key : ~FreshMisapplied(tip[k], view[k])
    /\ tip' = [k \in Key |-> BatchWriteEntry(tip[k], view[k])]
    /\ tipUsage' = tipUsage + SumFunction([k \in Key |-> BatchWriteUsage(tip[k], view[k])])
    /\ tipBlock' = viewBlock
    /\ view' = Empty
    /\ viewUsage' = 0
    /\ UNCHANGED <<dbVars, viewBlock, viewOpen>>

\* The view goes out of scope.
CloseView ==
    /\ viewOpen
    /\ viewOpen' = FALSE
    /\ view' = Empty
    /\ viewBlock' = NullBlock
    /\ viewUsage' = 0
    /\ UNCHANGED <<dbVars, tipVars>>

-------------------------------------------------------------------------------
Init ==
    /\ dbCoins \in [Outpoint -> (CoinValue \ Unspendable) \cup {NoCoin}]
    /\ dbPegins \in SUBSET Pegin
    /\ dbBest \in Block
    /\ tip = Empty /\ tipBlock = NullBlock /\ tipUsage = 0
    /\ view = Empty /\ viewBlock = NullBlock /\ viewUsage = 0
    /\ viewOpen = FALSE

Next ==
    \/ \E o \in Outpoint : TipHaveCoin(o)
    \/ \E p \in Pegin : TipIsPeginSpent(p)
    \/ \E o \in Outpoint : Uncache(o)
    \/ \E o \in Outpoint, v \in CoinValue : EmplaceCoinInternalDANGER(o, v)
    \/ FlushTip
    \/ OpenView
    \/ \E o \in Outpoint : HaveCoin(o)
    \/ \E o \in Outpoint, v \in CoinValue, ow \in BOOLEAN : ViewAddCoin(o, v, ow)
    \/ \E o \in Outpoint : ViewSpendCoin(o)
    \/ \E p \in Pegin : IsPeginSpent(p)
    \/ \E p \in Pegin, fSpent \in BOOLEAN : ViewSetPeginSpent(p, fSpent)
    \/ GetBestBlock
    \/ \E b \in Block : SetBestBlock(b)
    \/ FlushView
    \/ CloseView

Spec == Init /\ [][Next]_vars

-------------------------------------------------------------------------------
\* Every variable has its type.
TypeOK ==
    /\ dbCoins \in [Outpoint -> Coin]
    /\ dbPegins \in SUBSET Pegin
    /\ dbBest \in Block
    /\ tip \in CoinsMap /\ view \in CoinsMap
    /\ tipBlock \in Block \cup {NullBlock} /\ viewBlock \in Block \cup {NullBlock}
    /\ tipUsage \in Int /\ viewUsage \in Int
    /\ viewOpen \in BOOLEAN

\* FRESH is never misapplied (the logic_error of CCoinsViewCache::BatchWrite is
\* unreachable): whenever the view calls a changed coin FRESH, CoinsTip() does
\* not hold that coin unspent, whatever reads, flushes and evictions came
\* between.
FlushNeverThrows == \A k \in Key : ~FreshMisapplied(tip[k], view[k])

\* What the coins of a map really use.
CoinUsage(e) == IF e = NoEntry THEN 0 ELSE Usage[e.coin]
TotalUsage(m) == SumFunction([k \in Key |-> CoinUsage(m[k])])

\* cachedCoinsUsage of either cache, counted up and down by every path for
\* itself, is what the coins in the map really use: it neither drifts nor wraps
\* below zero.  The flush triggers depend on it.
UsageExact == tipUsage = TotalUsage(tip) /\ viewUsage = TotalUsage(view)

\* Evicting a clean entry of CoinsTip(), or writing all of it to disk, is
\* invisible to whoever looks a coin or a peg-in up, through the open view too.
EvictionInvisible ==
    [][(FlushTip \/ \E o \in Outpoint : Uncache(o)) =>
          UNCHANGED <<TipCoins, ViewCoins, TipPegins, ViewPegins>>]_vars

\* The caches implement one UTXO set with a working copy: reads, evictions,
\* and flushes to disk change nothing, a flush of the view commits exactly
\* its contents, and dropping the view leaves no trace.
Abstract == INSTANCE UtxoView WITH
    coins <- TipCoins, pegins <- TipPegins, best <- TipBest,
    wcoins <- ViewCoins, wpegins <- ViewPegins, wbest <- ViewBest,
    open <- viewOpen

ImplementsUtxoView == Abstract!Spec

-------------------------------------------------------------------------------
(* The inductive invariant.                                                *)

\* What the flags of an entry e say of the parent's answer: a clean entry
\* repeats it, and a FRESH one knows that the parent has nothing.
CoinFlagsSound(e, c) ==
    e # NoEntry =>
        /\ "PEGIN" \notin e.flags
        /\ "DIRTY" \notin e.flags => e.coin = c
        /\ "FRESH" \in e.flags => c = NoCoin

PeginFlagsSound(e, p, s) ==
    e # NoEntry =>
        /\ "PEGIN" \in e.flags
        /\ e.coin = NoCoin
        /\ "DIRTY" \notin e.flags => (e.peginSpent <=> p \in s)
        /\ "FRESH" \in e.flags => p \notin s

Sound(m, c, s) ==
    /\ m \in CoinsMap
    /\ \A o \in Outpoint : CoinFlagsSound(m[o], c[o])
    /\ \A p \in Pegin : PeginFlagsSound(m[p], p, s)

\* The flags of both caches are sound for what their parents answer: a clean
\* entry is never stale and a FRESH one never hides a coin of the parent.
FlagsSound == Sound(tip, dbCoins, dbPegins) /\ Sound(view, TipCoins, TipPegins)

\* Without a view over CoinsTip() there is nothing in it.
ClosedViewEmpty == ~viewOpen => view = Empty /\ viewBlock = NullBlock

IInv == TypeOK /\ FlagsSound /\ UsageExact /\ ClosedViewEmpty

===============================================================================
