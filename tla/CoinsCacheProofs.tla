--------------------------- MODULE CoinsCacheProofs ---------------------------
(***************************************************************************)
(* Proofs about CoinsCache, for all finite sets of outpoints and peg-ins   *)
(* and any coins and blocks: the flags of both caches stay sound and their *)
(* usage counters exact (IInv), hence no flush of a view meets a           *)
(* misapplied FRESH flag, evictions and flushes to disk are invisible, and *)
(* the stack of caches implements UtxoView.                                *)
(***************************************************************************)
EXTENDS CoinsCache, FiniteSetTheorems, WellFoundedInduction, TLAPS

\* The provers, and their time, for a leaf that names none.
USE ZenonT(20), SMTT(40)

-------------------------------------------------------------------------------
(* Operations on one map m, whose parent has the coins c and the spent     *)
(* peg-ins s.  Each keeps the flags sound, and does to the answers of the  *)
(* lookups what its name says.                                             *)

\* An entry made for a coin is an entry, not the end of the map.
LEMMA CoinEntryType ==
    ASSUME NEW c \in Coin, NEW f \in SUBSET Flag
    PROVE  CoinEntry(c, f) \in Entry /\ CoinEntry(c, f) # NoEntry
<1>1. CoinEntry(c, f) \in Entry
    BY DEF CoinEntry, Entry
<1> QED
    BY <1>1, EntryAssumption

\* So is one made for a peg-in.
LEMMA PeginEntryType ==
    ASSUME NEW s \in BOOLEAN, NEW f \in SUBSET Flag
    PROVE  PeginEntry(s, f) \in Entry /\ PeginEntry(s, f) # NoEntry
<1>1. PeginEntry(s, f) \in Entry
    BY DEF PeginEntry, Entry, Coin
<1> QED
    BY <1>1, EntryAssumption

\* The answers of the lookups are coins and peg-ins.
LEMMA AnswersType ==
    ASSUME NEW m \in CoinsMap, NEW c \in [Outpoint -> Coin], NEW s \in SUBSET Pegin
    PROVE  CoinsOf(m, c) \in [Outpoint -> Coin] /\ PeginsOf(m, s) \in SUBSET Pegin
BY DEF CoinsOf, PeginsOf, CoinsMap, Entry, Key

\* Writing a sound entry for the coin o keeps a map sound and changes no answer
\* but that for o (SetCoin is how FetchCoin, AddCoin and SpendCoin write).
LEMMA PutCoin ==
    ASSUME NEW m, NEW c \in [Outpoint -> Coin], NEW s \in SUBSET Pegin,
           Sound(m, c, s), NEW o \in Outpoint, NEW v \in Coin, NEW f \in SUBSET Flag,
           CoinFlagsSound(CoinEntry(v, f), c[o])
    PROVE  LET n == [m EXCEPT ![o] = CoinEntry(v, f)]
           IN  /\ Sound(n, c, s)
               /\ CoinsOf(n, c) = [CoinsOf(m, c) EXCEPT ![o] = v]
               /\ PeginsOf(n, s) = PeginsOf(m, s)
<1> DEFINE n == [m EXCEPT ![o] = CoinEntry(v, f)]
<1>1. CoinEntry(v, f) \in Entry /\ CoinEntry(v, f) # NoEntry
    BY CoinEntryType
<1>2. CoinEntry(v, f).coin = v
    BY DEF CoinEntry
<1>3. m \in CoinsMap /\ n \in CoinsMap
    BY <1>1 DEF Sound, CoinsMap, Key
<1>4. /\ n[o] = CoinEntry(v, f)
      /\ \A k \in Key \ {o} : n[k] = m[k]
    BY <1>3 DEF CoinsMap, Key
<1>5. \A p \in Pegin : n[p] = m[p]
    BY <1>4, KeyAssumption DEF Key
<1>6. Sound(n, c, s)
    BY <1>3, <1>4, <1>5 DEF Sound, Key
<1>7. CoinsOf(n, c) = [CoinsOf(m, c) EXCEPT ![o] = v]
  <2> HIDE DEF n
  <2>1. \A x \in Outpoint : x # o => n[x] = m[x]
    BY <1>4 DEF Key
  <2> QED
    BY <1>1, <1>2, <1>4, <2>1 DEF CoinsOf
<1>8. PeginsOf(n, s) = PeginsOf(m, s)
    BY <1>5 DEF PeginsOf
<1> QED
    BY <1>6, <1>7, <1>8

\* The same for a peg-in p.
LEMMA PutPegin ==
    ASSUME NEW m, NEW c \in [Outpoint -> Coin], NEW s \in SUBSET Pegin,
           Sound(m, c, s), NEW p \in Pegin, NEW e \in Entry, PeginFlagsSound(e, p, s)
    PROVE  LET n == [m EXCEPT ![p] = e]
           IN  /\ Sound(n, c, s)
               /\ CoinsOf(n, c) = CoinsOf(m, c)
               /\ e.peginSpent => PeginsOf(n, s) = PeginsOf(m, s) \cup {p}
               /\ ~e.peginSpent => PeginsOf(n, s) = PeginsOf(m, s) \ {p}
<1> DEFINE n == [m EXCEPT ![p] = e]
<1>1. e # NoEntry
    BY EntryAssumption
<1>2. m \in CoinsMap /\ n \in CoinsMap
    BY DEF Sound, CoinsMap, Key
<1>3. n[p] = e /\ \A k \in Key \ {p} : n[k] = m[k]
    BY <1>2 DEF CoinsMap, Key
<1>4. \A o \in Outpoint : n[o] = m[o]
    BY <1>3, KeyAssumption DEF Key
<1> HIDE DEF n
<1>5. Sound(n, c, s)
    BY <1>2, <1>3, <1>4 DEF Sound, Key
<1>6. CoinsOf(n, c) = CoinsOf(m, c)
    BY <1>4 DEF CoinsOf
<1>7. e.peginSpent => PeginsOf(n, s) = PeginsOf(m, s) \cup {p}
    BY <1>1, <1>3 DEF PeginsOf, Key
<1>8. ~e.peginSpent => PeginsOf(n, s) = PeginsOf(m, s) \ {p}
    BY <1>1, <1>3 DEF PeginsOf, Key
<1> QED
    BY <1>5, <1>6, <1>7, <1>8 DEF n

\* Erasing the entry of a coin keeps a map sound and uncovers the parent's coin.
LEMMA EraseCoin ==
    ASSUME NEW m, NEW c \in [Outpoint -> Coin], NEW s \in SUBSET Pegin,
           Sound(m, c, s), NEW o \in Outpoint
    PROVE  LET n == [m EXCEPT ![o] = NoEntry]
           IN  /\ Sound(n, c, s)
               /\ CoinsOf(n, c) = [CoinsOf(m, c) EXCEPT ![o] = c[o]]
               /\ PeginsOf(n, s) = PeginsOf(m, s)
<1> DEFINE n == [m EXCEPT ![o] = NoEntry]
<1>1. m \in CoinsMap /\ n \in CoinsMap
    BY DEF Sound, CoinsMap, Key
<1>2. n[o] = NoEntry /\ \A k \in Key \ {o} : n[k] = m[k]
    BY <1>1 DEF CoinsMap, Key
<1>3. \A p \in Pegin : n[p] = m[p]
    BY <1>2, KeyAssumption DEF Key
<1>4. Sound(n, c, s)
    BY <1>1, <1>2, <1>3 DEF Sound, Key, CoinFlagsSound
<1>5. CoinsOf(n, c) = [CoinsOf(m, c) EXCEPT ![o] = c[o]]
  <2> HIDE DEF n
  <2>1. \A x \in Outpoint : x # o => n[x] = m[x]
    BY <1>2 DEF Key
  <2> QED
    BY <1>2, <2>1 DEF CoinsOf
<1>6. PeginsOf(n, s) = PeginsOf(m, s)
    BY <1>3 DEF PeginsOf
<1> QED
    BY <1>4, <1>5, <1>6

\* FetchCoin: a lookup keeps the flags sound and changes no answer.
LEMMA FetchCoinSound ==
    ASSUME NEW m, NEW c \in [Outpoint -> Coin], NEW s \in SUBSET Pegin,
           Sound(m, c, s), NEW o \in Outpoint
    PROVE  LET n == FetchCoin(m, o, c[o])
           IN  /\ Sound(n, c, s)
               /\ CoinsOf(n, c) = CoinsOf(m, c)
               /\ PeginsOf(n, s) = PeginsOf(m, s)
<1>1. CASE m[o] = NoEntry /\ c[o] # NoCoin
  <2>1. CoinFlagsSound(CoinEntry(c[o], {}), c[o])
    BY DEF CoinFlagsSound, CoinEntry
  <2>2. CoinsOf(m, c) = [CoinsOf(m, c) EXCEPT ![o] = c[o]]
    BY <1>1 DEF CoinsOf
  <2>3. c[o] \in Coin /\ {} \in SUBSET Flag
    OBVIOUS
  <2> QED
    BY <1>1, <2>1, <2>2, <2>3, PutCoin, SMTT(40) DEF FetchCoin
<1>2. CASE ~(m[o] = NoEntry /\ c[o] # NoCoin)
    BY <1>2 DEF FetchCoin
<1> QED
    BY <1>1, <1>2

\* The flags AddCoin gives are flags, and include DIRTY.
LEMMA AddCoinFlagsType ==
    ASSUME NEW m \in CoinsMap, NEW o \in Outpoint, NEW ow \in BOOLEAN
    PROVE  AddCoinFlags(m, o, ow) \in SUBSET Flag /\ "DIRTY" \in AddCoinFlags(m, o, ow)
<1>1. m[o] = NoEntry \/ m[o].flags \in SUBSET Flag
    BY DEF CoinsMap, Entry, Key
<1> QED
    BY <1>1 DEF AddCoinFlags, Flag

\* AddCoin: a coin added where none is, or where one may be overwritten, is
\* what the map then answers, and FRESH is not set too often.
LEMMA AddCoinSound ==
    ASSUME NEW m, NEW c \in [Outpoint -> Coin], NEW s \in SUBSET Pegin,
           Sound(m, c, s), NEW o \in Outpoint, NEW v \in CoinValue, NEW ow \in BOOLEAN,
           ow \/ CoinsOf(m, c)[o] = NoCoin
    PROVE  LET n == AddCoin(m, o, v, ow)
           IN  /\ Sound(n, c, s)
               /\ CoinsOf(n, c) = [CoinsOf(m, c) EXCEPT ![o] = v]
               /\ PeginsOf(n, s) = PeginsOf(m, s)
<1> DEFINE f == AddCoinFlags(m, o, ow)
<1>1. m \in CoinsMap
    BY DEF Sound
<1>2. f \in SUBSET Flag /\ "DIRTY" \in f
    BY <1>1, AddCoinFlagsType
<1>3. CoinFlagsSound(m[o], c[o])
    BY DEF Sound
<1>4. "FRESH" \in f => c[o] = NoCoin
  <2>1. CASE m[o] = NoEntry
    BY <2>1 DEF AddCoinFlags, CoinsOf
  <2>2. CASE m[o] # NoEntry
    BY <1>3, <2>2 DEF AddCoinFlags, CoinsOf, CoinFlagsSound
  <2> QED
    BY <2>1, <2>2
<1>5. "PEGIN" \notin f
    BY <1>3 DEF AddCoinFlags, CoinFlagsSound
<1>6. CoinFlagsSound(CoinEntry(v, f), c[o])
  <2> HIDE DEF f
  <2> QED
    BY <1>2, <1>4, <1>5 DEF CoinFlagsSound, CoinEntry
<1>7. v \in Coin
    BY DEF Coin
<1> HIDE DEF f
<1>8. AddCoin(m, o, v, ow) = [m EXCEPT ![o] = CoinEntry(v, f)]
    BY DEF AddCoin, f
<1>9. LET n == [m EXCEPT ![o] = CoinEntry(v, f)]
      IN  /\ Sound(n, c, s)
          /\ CoinsOf(n, c) = [CoinsOf(m, c) EXCEPT ![o] = v]
          /\ PeginsOf(n, s) = PeginsOf(m, s)
    BY <1>2, <1>6, <1>7, PutCoin, SMTT(40)
<1> QED
    BY <1>8, <1>9

\* SpendCoin: what the map answers for the coin is that there is none, also when
\* the entry was FRESH and is dropped altogether.
LEMMA SpendCoinSound ==
    ASSUME NEW m, NEW c \in [Outpoint -> Coin], NEW s \in SUBSET Pegin,
           Sound(m, c, s), NEW o \in Outpoint, NEW g, g = FetchCoin(m, o, c[o])
    PROVE  LET n == SpendCoin(g, o)
           IN  /\ Sound(n, c, s)
               /\ CoinsOf(n, c) = [CoinsOf(m, c) EXCEPT ![o] = NoCoin]
               /\ PeginsOf(n, s) = PeginsOf(m, s)
<1>1. /\ Sound(g, c, s)
      /\ CoinsOf(g, c) = CoinsOf(m, c)
      /\ PeginsOf(g, s) = PeginsOf(m, s)
    BY FetchCoinSound
<1>2. g[o] = NoEntry => c[o] = NoCoin
  <2>1. m \in CoinsMap
    BY DEF Sound
  <2>2. c[o] \in Coin
    OBVIOUS
  <2>3. CoinEntry(c[o], {}) # NoEntry
    BY <2>2, CoinEntryType
  <2> QED
    BY <2>1, <2>3 DEF FetchCoin, CoinsMap, Key
<1>3. CASE g[o] = NoEntry
  <2>1. CoinsOf(g, c) = [CoinsOf(g, c) EXCEPT ![o] = NoCoin]
    BY <1>2, <1>3 DEF CoinsOf
  <2>2. SpendCoin(g, o) = g
    BY <1>3 DEF SpendCoin
  <2> QED
    BY <1>1, <2>1, <2>2
<1>4. CASE g[o] # NoEntry /\ "FRESH" \in g[o].flags
  <2>1. c[o] = NoCoin
    BY <1>1, <1>4 DEF Sound, CoinFlagsSound
  <2>2. SpendCoin(g, o) = [g EXCEPT ![o] = NoEntry]
    BY <1>4 DEF SpendCoin
  <2>3. LET n == [g EXCEPT ![o] = NoEntry]
        IN  /\ Sound(n, c, s)
            /\ CoinsOf(n, c) = [CoinsOf(g, c) EXCEPT ![o] = c[o]]
            /\ PeginsOf(n, s) = PeginsOf(g, s)
    BY <1>1, EraseCoin, SMTT(40)
  <2> QED
    BY <1>1, <2>1, <2>2, <2>3
<1>5. CASE g[o] # NoEntry /\ "FRESH" \notin g[o].flags
  <2> DEFINE f == g[o].flags \cup {"DIRTY"}
  <2>1. f \in SUBSET Flag
    BY <1>1, <1>5 DEF Sound, CoinsMap, Key, Entry, Flag
  <2>2. CoinFlagsSound(g[o], c[o])
    BY <1>1 DEF Sound
  <2>3. "PEGIN" \notin f /\ "FRESH" \notin f /\ "DIRTY" \in f
    BY <1>5, <2>2 DEF CoinFlagsSound
  <2>4. SpendCoin(g, o) = [g EXCEPT ![o] = CoinEntry(NoCoin, f)]
    BY <1>5 DEF SpendCoin
  <2> HIDE DEF f
  <2>5. CoinFlagsSound(CoinEntry(NoCoin, f), c[o])
    BY <2>3 DEF CoinFlagsSound, CoinEntry
  <2>6. NoCoin \in Coin
    BY DEF Coin
  <2>7. LET n == [g EXCEPT ![o] = CoinEntry(NoCoin, f)]
        IN  /\ Sound(n, c, s)
            /\ CoinsOf(n, c) = [CoinsOf(g, c) EXCEPT ![o] = NoCoin]
            /\ PeginsOf(n, s) = PeginsOf(g, s)
    BY <1>1, <2>1, <2>5, <2>6, PutCoin, SMTT(40)
  <2> QED
    BY <1>1, <2>4, <2>7
<1> QED
    BY <1>3, <1>4, <1>5

\* IsPeginSpent: asking keeps the flags sound and changes no answer.
LEMMA FetchPeginSound ==
    ASSUME NEW m, NEW c \in [Outpoint -> Coin], NEW s \in SUBSET Pegin,
           Sound(m, c, s), NEW p \in Pegin
    PROVE  LET n == FetchPegin(m, p, s)
           IN  /\ Sound(n, c, s)
               /\ CoinsOf(n, c) = CoinsOf(m, c)
               /\ PeginsOf(n, s) = PeginsOf(m, s)
<1>1. CASE m[p] = NoEntry /\ p \in s
  <2> DEFINE e == PeginEntry(TRUE, {"PEGIN"})
  <2>1. FetchPegin(m, p, s) = [m EXCEPT ![p] = e]
    BY <1>1 DEF FetchPegin
  <2>2. {"PEGIN"} \in SUBSET Flag
    BY DEF Flag
  <2>3. e \in Entry
    BY <2>2, PeginEntryType
  <2>4. PeginFlagsSound(e, p, s)
    BY <1>1 DEF PeginFlagsSound, PeginEntry
  <2>5. e.peginSpent <=> p \in s
    BY <1>1 DEF PeginEntry
  <2> HIDE DEF e
  <2>6. LET n == [m EXCEPT ![p] = e]
        IN  /\ Sound(n, c, s)
            /\ CoinsOf(n, c) = CoinsOf(m, c)
            /\ e.peginSpent => PeginsOf(n, s) = PeginsOf(m, s) \cup {p}
            /\ ~e.peginSpent => PeginsOf(n, s) = PeginsOf(m, s) \ {p}
    BY <2>3, <2>4, <2>5, PutPegin
  <2>7. PeginsOf(m, s) \cup {p} = PeginsOf(m, s)
    BY <1>1 DEF PeginsOf
  <2> QED
    BY <1>1, <2>1, <2>5, <2>6, <2>7
<1>2. CASE m[p] = NoEntry /\ p \notin s
  <2> DEFINE e == PeginEntry(FALSE, {"PEGIN", "FRESH"})
  <2>1. FetchPegin(m, p, s) = [m EXCEPT ![p] = e]
    BY <1>2 DEF FetchPegin
  <2>2. {"PEGIN", "FRESH"} \in SUBSET Flag
    BY DEF Flag
  <2>3. e \in Entry
    BY <2>2, PeginEntryType
  <2>4. PeginFlagsSound(e, p, s)
    BY <1>2 DEF PeginFlagsSound, PeginEntry
  <2>5. e.peginSpent <=> p \in s
    BY <1>2 DEF PeginEntry
  <2> HIDE DEF e
  <2>6. LET n == [m EXCEPT ![p] = e]
        IN  /\ Sound(n, c, s)
            /\ CoinsOf(n, c) = CoinsOf(m, c)
            /\ e.peginSpent => PeginsOf(n, s) = PeginsOf(m, s) \cup {p}
            /\ ~e.peginSpent => PeginsOf(n, s) = PeginsOf(m, s) \ {p}
    BY <2>3, <2>4, <2>5, PutPegin
  <2>7. PeginsOf(m, s) \ {p} = PeginsOf(m, s)
    BY <1>2 DEF PeginsOf
  <2> QED
    BY <1>2, <2>1, <2>5, <2>6, <2>7
<1>3. CASE m[p] # NoEntry
    BY <1>3 DEF FetchPegin
<1> QED
    BY <1>1, <1>2, <1>3

\* SetPeginSpent: the map then answers what was set, also when nothing had to
\* be written.
LEMMA SetPeginSound ==
    ASSUME NEW m, NEW c \in [Outpoint -> Coin], NEW s \in SUBSET Pegin,
           Sound(m, c, s), NEW p \in Pegin, NEW b \in BOOLEAN
    PROVE  LET n == SetPeginSpent(m, p, s, b)
           IN  /\ Sound(n, c, s)
               /\ CoinsOf(n, c) = CoinsOf(m, c)
               /\ b => PeginsOf(n, s) = PeginsOf(m, s) \cup {p}
               /\ ~b => PeginsOf(n, s) = PeginsOf(m, s) \ {p}
<1> DEFINE had == IF m[p] = NoEntry THEN p \in s ELSE m[p].peginSpent
           old == IF m[p] # NoEntry THEN m[p].flags
                  ELSE IF had THEN {} ELSE {"FRESH"}
           f == old \cup {"PEGIN", "DIRTY"}
<1>1. m \in CoinsMap /\ PeginFlagsSound(m[p], p, s)
    BY DEF Sound
<1>2. had \in BOOLEAN /\ (had <=> p \in PeginsOf(m, s))
  <2>1. CASE m[p] = NoEntry
    BY <2>1, SMTT(40) DEF PeginsOf
  <2>2. CASE m[p] # NoEntry
    BY <1>1, <2>2 DEF PeginsOf, CoinsMap, Entry, Key
  <2> QED
    BY <2>1, <2>2
<1>3. f \in SUBSET Flag /\ "PEGIN" \in f /\ "DIRTY" \in f
    BY <1>1 DEF CoinsMap, Entry, Key, Flag
<1>4. "FRESH" \in f => p \notin s
    BY <1>1 DEF PeginFlagsSound
<1>5. CASE had <=> b
  <2>1. SetPeginSpent(m, p, s, b) = m
    BY <1>5 DEF SetPeginSpent
  <2> QED
    BY <1>2, <1>5, <2>1
<1>6. CASE ~(had <=> b)
  <2> DEFINE e == PeginEntry(b, f)
  <2>1. SetPeginSpent(m, p, s, b) = [m EXCEPT ![p] = e]
    BY <1>6 DEF SetPeginSpent
  <2> HIDE DEF had, old, f
  <2>2. e \in Entry
    BY <1>3, PeginEntryType
  <2>3. (e.peginSpent <=> b) /\ PeginFlagsSound(e, p, s)
    BY <1>3, <1>4 DEF PeginFlagsSound, PeginEntry
  <2> HIDE DEF e
  <2>4. LET n == [m EXCEPT ![p] = e]
        IN  /\ Sound(n, c, s)
            /\ CoinsOf(n, c) = CoinsOf(m, c)
            /\ e.peginSpent => PeginsOf(n, s) = PeginsOf(m, s) \cup {p}
            /\ ~e.peginSpent => PeginsOf(n, s) = PeginsOf(m, s) \ {p}
    BY <2>2, <2>3, PutPegin
  <2> QED
    BY <2>1, <2>3, <2>4
<1> QED
    BY <1>5, <1>6

\* The entry that BatchWrite leaves for a DIRTY entry of the child: a peg-in
\* keeps the parent's coin, a coin the parent's mark.
LEMMA MergeEntryType ==
    ASSUME NEW up \in Entry \cup {NoEntry}, NEW e \in Entry \cup {NoEntry}, ~Ignored(e)
    PROVE  LET w == MergeEntry(up, e)
               f == IF up = NoEntry THEN e.flags ELSE up.flags
           IN  /\ w \in Entry /\ w # NoEntry
               /\ w.flags = f \cup {"DIRTY"}
               /\ "PEGIN" \notin e.flags => w.coin = e.coin
               /\ "PEGIN" \in e.flags =>
                      /\ w.peginSpent = e.peginSpent
                      /\ w.coin = IF up = NoEntry THEN NoCoin ELSE up.coin
<1> DEFINE old == IF up = NoEntry THEN CoinEntry(NoCoin, e.flags) ELSE up
           w == MergeEntry(up, e)
           f == IF up = NoEntry THEN e.flags ELSE up.flags
<1>1. e \in Entry
    BY DEF Ignored
<1>2. /\ old \in Entry /\ old.flags = f
      /\ old.coin = IF up = NoEntry THEN NoCoin ELSE up.coin
  <2>1. NoCoin \in Coin /\ e.flags \in SUBSET Flag
    BY <1>1 DEF Coin, Entry
  <2>2. CASE up = NoEntry
    <3>1. old = CoinEntry(NoCoin, e.flags)
      BY <2>2
    <3>2. CoinEntry(NoCoin, e.flags) \in Entry
      BY <2>1, CoinEntryType
    <3>3. CoinEntry(NoCoin, e.flags).coin = NoCoin /\ CoinEntry(NoCoin, e.flags).flags = e.flags
      BY DEF CoinEntry
    <3> QED
      BY <2>2, <3>1, <3>2, <3>3
  <2>3. CASE up # NoEntry
    BY <2>3
  <2> QED
    BY <2>2, <2>3
<1>3. w = [coin       |-> IF "PEGIN" \in e.flags THEN old.coin ELSE e.coin,
           peginSpent |-> IF "PEGIN" \in e.flags THEN e.peginSpent ELSE old.peginSpent,
           flags      |-> old.flags \cup {"DIRTY"}]
    BY DEF MergeEntry
<1> HIDE DEF old, w, f
<1>4. /\ w \in Entry /\ w.flags = f \cup {"DIRTY"}
      /\ "PEGIN" \notin e.flags => w.coin = e.coin
      /\ "PEGIN" \in e.flags => w.peginSpent = e.peginSpent /\ w.coin = old.coin
  <2>1. /\ old.coin \in Coin /\ old.peginSpent \in BOOLEAN
        /\ e.coin \in Coin /\ e.peginSpent \in BOOLEAN
    BY <1>1, <1>2, SMTT(40) DEF Entry
  <2>2. old.flags \cup {"DIRTY"} \in SUBSET Flag
    BY <1>2 DEF Entry, Flag
  <2> QED
    BY <1>2, <1>3, <2>1, <2>2 DEF Entry
<1>5. w # NoEntry
    BY <1>4, EntryAssumption
<1> QED
    BY <1>2, <1>4, <1>5 DEF w, f

\* BatchWrite of one coin: the merged entry is sound for the grandparent c and
\* answers what the child did.
LEMMA MergeCoin ==
    ASSUME NEW up \in Entry \cup {NoEntry}, NEW e \in Entry \cup {NoEntry}, NEW c \in Coin,
           NEW mid, mid = IF up = NoEntry THEN c ELSE up.coin,
           CoinFlagsSound(up, c), CoinFlagsSound(e, mid)
    PROVE  LET n == BatchWriteEntry(up, e)
           IN  /\ n \in Entry \cup {NoEntry}
               /\ CoinFlagsSound(n, c)
               /\ (IF n = NoEntry THEN c ELSE n.coin) = (IF e = NoEntry THEN mid ELSE e.coin)
<1> DEFINE n == BatchWriteEntry(up, e)
           f == IF up = NoEntry THEN e.flags ELSE up.flags
           w == MergeEntry(up, e)
<1>1. CASE Ignored(e)
  <2>1. n = up
    BY <1>1 DEF BatchWriteEntry
  <2> QED
    BY <1>1, <2>1 DEF CoinFlagsSound, Ignored
<1>2. CASE ~Ignored(e)
  <2>0. e # NoEntry /\ e \in Entry
    BY <1>2 DEF Ignored
  <2>1. n = IF "FRESH" \in f /\ Prunable(e) THEN NoEntry ELSE w
    BY <1>2 DEF BatchWriteEntry, Forgotten
  <2>2. f \in SUBSET Flag /\ "PEGIN" \notin f /\ ("FRESH" \in f => c = NoCoin)
    BY <2>0 DEF Entry, CoinFlagsSound
  <2>3. w \in Entry /\ w # NoEntry /\ w.coin = e.coin /\ w.flags = f \cup {"DIRTY"}
    <3>1. "PEGIN" \notin e.flags
      BY <2>0 DEF CoinFlagsSound
    <3> QED
      BY <1>2, <3>1, MergeEntryType
  <2> HIDE DEF f
  <2>5. Prunable(e) <=> e.coin = NoCoin
    BY <2>0 DEF Prunable, CoinFlagsSound
  <2> HIDE DEF w, n
  <2>6. CASE "FRESH" \in f /\ e.coin = NoCoin
    BY <2>0, <2>1, <2>2, <2>5, <2>6 DEF CoinFlagsSound, n
  <2>7. CASE ~("FRESH" \in f /\ e.coin = NoCoin)
    BY <2>0, <2>1, <2>2, <2>3, <2>5, <2>7 DEF CoinFlagsSound, n
  <2> QED
    BY <2>6, <2>7
<1> QED
    BY <1>1, <1>2

\* BatchWrite of one peg-in.
LEMMA MergePegin ==
    ASSUME NEW up \in Entry \cup {NoEntry}, NEW e \in Entry \cup {NoEntry},
           NEW p \in Pegin, NEW s \in SUBSET Pegin, NEW mid \in SUBSET Pegin,
           p \in mid <=> IF up = NoEntry THEN p \in s ELSE up.peginSpent,
           PeginFlagsSound(up, p, s), PeginFlagsSound(e, p, mid)
    PROVE  LET n == BatchWriteEntry(up, e)
           IN  /\ n \in Entry \cup {NoEntry}
               /\ PeginFlagsSound(n, p, s)
               /\ (IF n = NoEntry THEN p \in s ELSE n.peginSpent)
                    <=> (IF e = NoEntry THEN p \in mid ELSE e.peginSpent)
<1> DEFINE n == BatchWriteEntry(up, e)
           f == IF up = NoEntry THEN e.flags ELSE up.flags
           w == MergeEntry(up, e)
<1>1. CASE Ignored(e)
  <2>1. n = up
    BY <1>1 DEF BatchWriteEntry
  <2> QED
    BY <1>1, <2>1 DEF PeginFlagsSound, Ignored
<1>2. CASE ~Ignored(e)
  <2>0. e # NoEntry /\ e \in Entry
    BY <1>2 DEF Ignored
  <2>1. n = IF "FRESH" \in f /\ Prunable(e) THEN NoEntry ELSE w
    BY <1>2 DEF BatchWriteEntry, Forgotten
  <2>2. f \in SUBSET Flag /\ "PEGIN" \in f /\ ("FRESH" \in f => p \notin s)
    BY <2>0 DEF Entry, PeginFlagsSound
  <2>3. /\ w \in Entry /\ w # NoEntry /\ w.coin = NoCoin /\ w.flags = f \cup {"DIRTY"}
        /\ w.peginSpent = e.peginSpent
    <3>1. "PEGIN" \in e.flags /\ (up # NoEntry => up.coin = NoCoin)
      BY <2>0 DEF PeginFlagsSound
    <3> QED
      BY <1>2, <3>1, MergeEntryType
  <2> HIDE DEF f
  <2>5. Prunable(e) <=> ~e.peginSpent
    BY <2>0 DEF Prunable, PeginFlagsSound
  <2> HIDE DEF w, n
  <2>6. CASE "FRESH" \in f /\ ~e.peginSpent
    BY <2>0, <2>1, <2>2, <2>5, <2>6 DEF PeginFlagsSound, n
  <2>7. CASE ~("FRESH" \in f /\ ~e.peginSpent)
    BY <2>0, <2>1, <2>2, <2>3, <2>5, <2>7, SMTT(40) DEF PeginFlagsSound, n
  <2> QED
    BY <2>6, <2>7
<1> QED
    BY <1>1, <1>2

\* BatchWrite of a whole child m into its parent up: the parent is sound for the
\* grandparent and answers what the child did.
LEMMA MergeSound ==
    ASSUME NEW up, NEW m, NEW c \in [Outpoint -> Coin], NEW s \in SUBSET Pegin,
           Sound(up, c, s), Sound(m, CoinsOf(up, c), PeginsOf(up, s))
    PROVE  LET n == [k \in Key |-> BatchWriteEntry(up[k], m[k])]
           IN  /\ Sound(n, c, s)
               /\ CoinsOf(n, c) = CoinsOf(m, CoinsOf(up, c))
               /\ PeginsOf(n, s) = PeginsOf(m, PeginsOf(up, s))
<1> DEFINE n == [k \in Key |-> BatchWriteEntry(up[k], m[k])]
           mc == CoinsOf(up, c)
           mp == PeginsOf(up, s)
<1>1. up \in CoinsMap /\ m \in CoinsMap
    BY DEF Sound
<1>2. mc \in [Outpoint -> Coin] /\ mp \in SUBSET Pegin
    BY <1>1, AnswersType
<1>3. ASSUME NEW o \in Outpoint
      PROVE  /\ n[o] \in Entry \cup {NoEntry}
             /\ CoinFlagsSound(n[o], c[o])
             /\ (IF n[o] = NoEntry THEN c[o] ELSE n[o].coin)
                  = (IF m[o] = NoEntry THEN mc[o] ELSE m[o].coin)
  <2>1. /\ up[o] \in Entry \cup {NoEntry} /\ m[o] \in Entry \cup {NoEntry}
        /\ n[o] = BatchWriteEntry(up[o], m[o])
    BY <1>1 DEF CoinsMap, Key
  <2>2. CoinFlagsSound(up[o], c[o]) /\ CoinFlagsSound(m[o], mc[o])
    BY DEF Sound
  <2>3. c[o] \in Coin /\ mc[o] = IF up[o] = NoEntry THEN c[o] ELSE up[o].coin
    BY DEF CoinsOf
  <2> HIDE DEF n, mc
  <2> QED
    BY <2>1, <2>2, <2>3, MergeCoin, SMTT(40)
<1>4. ASSUME NEW p \in Pegin
      PROVE  /\ n[p] \in Entry \cup {NoEntry}
             /\ PeginFlagsSound(n[p], p, s)
             /\ (IF n[p] = NoEntry THEN p \in s ELSE n[p].peginSpent)
                  <=> (IF m[p] = NoEntry THEN p \in mp ELSE m[p].peginSpent)
  <2>1. /\ up[p] \in Entry \cup {NoEntry} /\ m[p] \in Entry \cup {NoEntry}
        /\ n[p] = BatchWriteEntry(up[p], m[p])
    BY <1>1 DEF CoinsMap, Key
  <2>2. PeginFlagsSound(up[p], p, s) /\ PeginFlagsSound(m[p], p, mp)
    BY DEF Sound
  <2>3. p \in mp <=> IF up[p] = NoEntry THEN p \in s ELSE up[p].peginSpent
    BY DEF PeginsOf
  <2> HIDE DEF n, mp
  <2> QED
    BY <1>2, <2>1, <2>2, <2>3, MergePegin, SMTT(40)
<1>5. n \in CoinsMap
  <2>1. \A k \in Key : n[k] \in Entry \cup {NoEntry}
    BY <1>3, <1>4 DEF Key
  <2> QED
    BY <2>1 DEF CoinsMap
<1> HIDE DEF n, mc, mp
<1>6. Sound(n, c, s)
    BY <1>3, <1>4, <1>5 DEF Sound
<1>7. CoinsOf(n, c) = CoinsOf(m, mc)
    BY <1>3 DEF CoinsOf
<1>8. PeginsOf(n, s) = PeginsOf(m, mp)
    BY <1>4 DEF PeginsOf
<1> QED
    BY <1>6, <1>7, <1>8 DEF n, mc, mp

\* An empty map is sound for any parent and answers what the parent does.
LEMMA EmptySound ==
    ASSUME NEW c \in [Outpoint -> Coin], NEW s \in SUBSET Pegin
    PROVE  Sound(Empty, c, s) /\ CoinsOf(Empty, c) = c /\ PeginsOf(Empty, s) = s
<1>1. Empty \in CoinsMap /\ \A k \in Key : Empty[k] = NoEntry
    BY DEF Empty, CoinsMap
<1>2. Sound(Empty, c, s)
    BY <1>1 DEF Sound, CoinFlagsSound, PeginFlagsSound, Key
<1>3. CoinsOf(Empty, c) = c
    BY <1>1 DEF CoinsOf, Key
<1>4. PeginsOf(Empty, s) = s
    BY <1>1 DEF PeginsOf, Key
<1> QED
    BY <1>2, <1>3, <1>4

-------------------------------------------------------------------------------
(* Sums over the keys.                                                     *)

\* Induction on the number of elements.
LEMMA LevelInduction ==
    ASSUME NEW n \in Nat, NEW S, 0 \in S, \A i \in 1 .. n : i - 1 \in S => i \in S
    PROVE  n \in S
<1> DEFINE T == (0 .. n) \ S
           Less == {ss \in Nat \X Nat : ss[1] < ss[2]}
<1> SUFFICES ASSUME T # {} PROVE FALSE
    BY SMTT(40)
<1>1. T \in SUBSET Nat
    BY SMTT(40)
<1>2. Less = OpToRel(<, Nat)
    BY DEF OpToRel
<1>3. IsWellFoundedOn(Less, Nat)
    BY <1>2, NatLessThanWellFounded
<1> HIDE DEF T, Less
<1>4. PICK k \in T : \A j \in T : ~(<<j, k>> \in Less)
    BY <1>1, <1>3, WFMin
<1> USE DEF T
<1>5. k \in 1 .. n /\ k - 1 \in 0 .. n
    BY <1>4, SMTT(40)
<1>6. k - 1 \in S
  <2>1. <<k - 1, k>> \in Less
    BY <1>5, SMTT(40) DEF Less
  <2> QED
    BY <1>4, <1>5, <2>1
<1> QED
    BY <1>4, <1>5, <1>6, SMTT(40)

\* The key that SumFunction takes next.
Pick(s) == CHOOSE x \in s : TRUE

\* Taking it from a finite set.
LEMMA PickSmaller ==
    ASSUME NEW T, IsFiniteSet(T), NEW s \in SUBSET T, s # {}
    PROVE  /\ Pick(s) \in s
           /\ s \ {Pick(s)} \in SUBSET T
           /\ Cardinality(s) \in Nat \ {0}
           /\ Cardinality(s \ {Pick(s)}) = Cardinality(s) - 1
<1>1. Pick(s) \in s
    BY DEF Pick
<1>2. IsFiniteSet(s)
    BY FS_Subset
<1>3. Cardinality(s) \in Nat /\ Cardinality(s) # 0
    BY <1>2, FS_CardinalityType, FS_EmptySet
<1>4. Cardinality(s \ {Pick(s)}) = Cardinality(s) - 1
    BY <1>1, <1>2, FS_RemoveElement
<1> QED
    BY <1>1, <1>3, <1>4

\* What holds of the empty set, and of a set if it holds of the set without the
\* key taken next, holds of every subset (Q is the set of those it holds of).
LEMMA SubsetInduction ==
    ASSUME NEW T, IsFiniteSet(T), NEW Q, {} \in Q,
           \A s \in SUBSET T : s # {} /\ s \ {Pick(s)} \in Q => s \in Q
    PROVE  \A s \in SUBSET T : s \in Q
<1> DEFINE n == Cardinality(T)
           S == {k \in 0 .. n : \A s \in SUBSET T : Cardinality(s) <= k => s \in Q}
<1>1. n \in Nat
    BY FS_CardinalityType
<1>2. 0 \in S
  <2>1. ASSUME NEW s \in SUBSET T, Cardinality(s) <= 0 PROVE s \in Q
    <3>1. s # {} => Cardinality(s) \in Nat \ {0}
      BY PickSmaller
    <3> QED
      BY <2>1, <3>1, SMTT(40)
  <2> QED
    BY <1>1, <2>1, SMTT(40)
<1>3. ASSUME NEW k \in 1 .. n, k - 1 \in S PROVE k \in S
  <2>1. ASSUME NEW s \in SUBSET T, Cardinality(s) <= k, s # {} PROVE s \in Q
    <3>1. /\ s \ {Pick(s)} \in SUBSET T /\ Cardinality(s) \in Nat
          /\ Cardinality(s \ {Pick(s)}) = Cardinality(s) - 1
      BY <2>1, PickSmaller
    <3>2. Cardinality(s \ {Pick(s)}) <= k - 1
      BY <1>1, <2>1, <3>1, SMTT(40)
    <3> QED
      BY <1>3, <2>1, <3>1, <3>2
  <2> QED
    BY <1>1, <2>1, SMTT(40)
<1>4. n \in S
  <2> HIDE DEF S
  <2> QED
    BY <1>1, <1>2, <1>3, LevelInduction
<1>5. ASSUME NEW s \in SUBSET T PROVE Cardinality(s) <= n
    BY FS_Subset
<1> QED
    BY <1>4, <1>5

\* g[s] is the sum of f over s, for every s in D.
Tally(f, D, g) == g = [s \in D |-> IF s = {} THEN 0 ELSE f[Pick(s)] + g[s \ {Pick(s)}]]

\* The recursion of SumFunction is well-founded.
LEMMA TallyExists ==
    ASSUME NEW f, NEW T, IsFiniteSet(T)
    PROVE  \E g : Tally(f, SUBSET T, g)
<1> DEFINE n == Cardinality(T)
           Level(k) == {s \in SUBSET T : Cardinality(s) <= k}
           S == {k \in 0 .. n : \E g : Tally(f, Level(k), g)}
           After(h, s) == IF s = {} THEN 0 ELSE f[Pick(s)] + h[s \ {Pick(s)}]
<1>1. n \in Nat
    BY FS_CardinalityType
<1>2. 0 \in S
  <2>1. ASSUME NEW s \in Level(0), s # {} PROVE FALSE
    <3>1. Cardinality(s) \in Nat \ {0}
      BY <2>1, PickSmaller
    <3> QED
      BY <3>1, SMTT(40)
  <2>2. Tally(f, Level(0), [s \in Level(0) |-> 0])
    BY <2>1 DEF Tally
  <2> HIDE DEF Level
  <2> QED
    BY <1>1, <2>2, SMTT(40)
<1>3. ASSUME NEW k \in 1 .. n, k - 1 \in S PROVE k \in S
  <2>1. PICK g : Tally(f, Level(k - 1), g)
    BY <1>3
  <2> DEFINE h == [s \in Level(k) |-> After(g, s)]
  <2>2. ASSUME NEW s \in Level(k), s # {}
        PROVE  s \ {Pick(s)} \in Level(k - 1) /\ s \ {Pick(s)} \in Level(k)
    <3>1. /\ s \ {Pick(s)} \in SUBSET T
          /\ Cardinality(s) \in Nat \ {0}
          /\ Cardinality(s \ {Pick(s)}) = Cardinality(s) - 1
      BY <2>2, PickSmaller
    <3>2. Cardinality(s) <= k /\ k \in Nat
      BY <1>1, SMTT(40)
    <3>3. Cardinality(s) - 1 <= k - 1 /\ Cardinality(s) - 1 <= k
      BY <3>1, <3>2, SMTT(40)
    <3> QED
      BY <3>1, <3>3
  <2> HIDE DEF Level
  <2>3. ASSUME NEW s \in Level(k - 1), s \in Level(k) PROVE h[s] = g[s]
    <3>1. g[s] = After(g, s)
      BY <2>1, <2>3 DEF Tally
    <3> QED
      BY <2>3, <3>1
  <2>4. Tally(f, Level(k), h)
    <3>1. ASSUME NEW s \in Level(k) PROVE After(g, s) = After(h, s)
      <4> HIDE DEF h
      <4> QED
        BY <2>2, <2>3
    <3>2. h = [s \in Level(k) |-> After(g, s)]
      OBVIOUS
    <3> HIDE DEF h
    <3> QED
      BY <3>1, <3>2 DEF Tally
  <2> HIDE DEF h
  <2> QED
    BY <1>1, <2>4, SMTT(40)
<1>4. n \in S
  <2> HIDE DEF S
  <2> QED
    BY <1>1, <1>2, <1>3, LevelInduction
<1>5. ASSUME NEW s \in SUBSET T PROVE Cardinality(s) <= n
    BY FS_Subset
<1>6. Level(n) = SUBSET T
    BY <1>5
<1>7. \E g : Tally(f, Level(n), g)
    BY <1>4
<1> HIDE DEF Level, n
<1> QED
    BY <1>6, <1>7

\* The sums of a function over the subsets of its domain.
Sums(f, T) == CHOOSE g : Tally(f, SUBSET T, g)

\* They are computed one key after the other, and the last is SumFunction.
LEMMA SumsStep ==
    ASSUME NEW T, IsFiniteSet(T), NEW f \in [T -> Int]
    PROVE  /\ SumFunction(f) = Sums(f, T)[T]
           /\ Sums(f, T)[{}] = 0
           /\ \A s \in SUBSET T : s # {} =>
                  Sums(f, T)[s] = f[Pick(s)] + Sums(f, T)[s \ {Pick(s)}]
<1>1. SumFunction(f) = Sums(f, T)[T]
  <2>1. DOMAIN f = T
    OBVIOUS
  <2> QED
    BY <2>1 DEF SumFunction, SumFunctionOnSet, FoldFunctionOnSet, MapThenFoldSet, Sums, Tally, Pick
<1>2. Tally(f, SUBSET T, Sums(f, T))
    BY TallyExists DEF Sums
<1>3. {} \in SUBSET T
    OBVIOUS
<1> QED
    BY <1>1, <1>2, <1>3 DEF Tally

\* A sum of integers is an integer.
LEMMA SumType ==
    ASSUME NEW T, IsFiniteSet(T), NEW f \in [T -> Int]
    PROVE  \A s \in SUBSET T : Sums(f, T)[s] \in Int
<1> DEFINE Q == {s \in SUBSET T : Sums(f, T)[s] \in Int}
<1>1. {} \in Q
    BY SumsStep, SMTT(40)
<1>2. ASSUME NEW s \in SUBSET T, s # {}, s \ {Pick(s)} \in Q PROVE s \in Q
  <2>1. f[Pick(s)] \in Int
    BY <1>2, PickSmaller
  <2>2. Sums(f, T)[s] = f[Pick(s)] + Sums(f, T)[s \ {Pick(s)}]
    BY <1>2, SumsStep
  <2> QED
    BY <1>2, <2>1, <2>2, SMTT(40)
<1> HIDE DEF Q
<1>3. \A s \in SUBSET T : s \in Q
    BY <1>1, <1>2, SubsetInduction
<1> QED
    BY <1>3 DEF Q

\* The sum of sums.
LEMMA SumPlus ==
    ASSUME NEW T, IsFiniteSet(T), NEW f \in [T -> Int], NEW g \in [T -> Int], NEW h \in [T -> Int],
           \A x \in T : h[x] = f[x] + g[x]
    PROVE  SumFunction(h) = SumFunction(f) + SumFunction(g)
<1> DEFINE F == Sums(f, T)
           G == Sums(g, T)
           H == Sums(h, T)
           Q == {s \in SUBSET T : H[s] = F[s] + G[s]}
<1>1. /\ \A s \in SUBSET T : s # {} => F[s] = f[Pick(s)] + F[s \ {Pick(s)}]
      /\ \A s \in SUBSET T : s # {} => G[s] = g[Pick(s)] + G[s \ {Pick(s)}]
      /\ \A s \in SUBSET T : s # {} => H[s] = h[Pick(s)] + H[s \ {Pick(s)}]
      /\ F[{}] = 0 /\ G[{}] = 0 /\ H[{}] = 0
  <2>1. ASSUME NEW e \in [T -> Int]
        PROVE  /\ \A s \in SUBSET T : s # {} => Sums(e, T)[s] = e[Pick(s)] + Sums(e, T)[s \ {Pick(s)}]
               /\ Sums(e, T)[{}] = 0
    BY SumsStep
  <2> QED
    BY <2>1
<1>2. \A s \in SUBSET T : F[s] \in Int /\ G[s] \in Int /\ H[s] \in Int
    BY SumType
<1>3. SumFunction(f) = F[T] /\ SumFunction(g) = G[T] /\ SumFunction(h) = H[T]
    BY SumsStep
<1> HIDE DEF F, G, H
<1>4. {} \in Q
    BY <1>1, SMTT(40)
<1>5. ASSUME NEW s \in SUBSET T, s # {}, s \ {Pick(s)} \in Q PROVE s \in Q
  <2> DEFINE k == Pick(s)
             r == s \ {Pick(s)}
  <2>1. k \in T /\ r \in SUBSET T
    BY <1>5, PickSmaller
  <2>2. F[s] = f[k] + F[r] /\ G[s] = g[k] + G[r] /\ H[s] = h[k] + H[r]
    BY <1>1, <1>5
  <2>3. H[r] = F[r] + G[r]
    BY <1>5
  <2> HIDE DEF k, r
  <2>4. F[r] \in Int /\ G[r] \in Int /\ f[k] \in Int /\ g[k] \in Int /\ h[k] = f[k] + g[k]
    BY <1>2, <2>1
  <2> QED
    BY <2>2, <2>3, <2>4, SMTT(40)
<1> HIDE DEF Q
<1>6. T \in Q
  <2>1. \A s \in SUBSET T : s \in Q
    BY <1>4, <1>5, SubsetInduction
  <2> QED
    BY <2>1
<1> QED
    BY <1>3, <1>6 DEF Q

\* A function that is zero but for one key sums to its value there.
LEMMA SumPoint ==
    ASSUME NEW T, IsFiniteSet(T), NEW d \in [T -> Int], NEW k \in T,
           \A x \in T \ {k} : d[x] = 0
    PROVE  SumFunction(d) = d[k]
<1> DEFINE D == Sums(d, T)
           Q == {s \in SUBSET T : D[s] = IF k \in s THEN d[k] ELSE 0}
<1>1. /\ \A s \in SUBSET T : s # {} => D[s] = d[Pick(s)] + D[s \ {Pick(s)}]
      /\ D[{}] = 0 /\ SumFunction(d) = D[T]
    BY SumsStep
<1> HIDE DEF D
<1>2. {} \in Q
    BY <1>1
<1>3. ASSUME NEW s \in SUBSET T, s # {}, s \ {Pick(s)} \in Q PROVE s \in Q
  <2> DEFINE x == Pick(s)
             r == s \ {Pick(s)}
  <2>1. x \in s /\ x \in T /\ x \notin r
    BY <1>3, PickSmaller
  <2>2. D[s] = d[x] + D[r]
    BY <1>1, <1>3
  <2>3. D[r] = IF k \in r THEN d[k] ELSE 0
    BY <1>3
  <2>4. k \in s <=> (k = x \/ k \in r)
    BY <2>1
  <2> HIDE DEF x, r
  <2>5. d[x] \in Int /\ d[k] \in Int
    BY <2>1
  <2>6. D[s] = IF k \in s THEN d[k] ELSE 0
    <3>1. CASE k = x
      BY <2>1, <2>2, <2>3, <2>4, <2>5, <3>1, SMTT(40)
    <3>2. CASE k # x
      <4>1. d[x] = 0
        BY <2>1, <3>2
      <4> QED
        BY <2>2, <2>3, <2>4, <2>5, <3>2, <4>1, SMTT(40)
    <3> QED
      BY <3>1, <3>2
  <2> QED
    BY <2>6
<1> HIDE DEF Q
<1>4. T \in Q
  <2>1. \A s \in SUBSET T : s \in Q
    BY <1>2, <1>3, SubsetInduction
  <2> QED
    BY <2>1
<1> QED
    BY <1>1, <1>4 DEF Q

-------------------------------------------------------------------------------
(* cachedCoinsUsage.                                                       *)

\* The counter u is exact for the map m.
Counted(u, m) == u \in Int /\ u = TotalUsage(m)

\* What the entries of a map use, key by key.
UsageOf(m) == [k \in Key |-> CoinUsage(m[k])]

\* The usage of every entry is a number.
LEMMA CoinUsageType ==
    ASSUME NEW m \in CoinsMap
    PROVE  UsageOf(m) \in [Key -> Int] /\ \A k \in Key : UsageOf(m)[k] = CoinUsage(m[k])
<1>1. \A k \in Key : CoinUsage(m[k]) \in Int
    BY UsageAssumption, SMTT(40) DEF CoinUsage, CoinsMap, Entry
<1> QED
    BY <1>1 DEF UsageOf

\* The map has finitely many keys.
LEMMA KeyFinite == IsFiniteSet(Key)
BY KeyAssumption, FS_Union DEF Key

\* A map with another counter is exact if the counter moved by the sum of what
\* the entries moved.
LEMMA CountAll ==
    ASSUME NEW m \in CoinsMap, NEW n \in CoinsMap, NEW u, Counted(u, m),
           NEW d \in [Key -> Int], \A k \in Key : d[k] = CoinUsage(n[k]) - CoinUsage(m[k])
    PROVE  Counted(u + SumFunction(d), n)
<1>1. /\ UsageOf(m) \in [Key -> Int] /\ \A k \in Key : UsageOf(m)[k] = CoinUsage(m[k])
      /\ UsageOf(n) \in [Key -> Int] /\ \A k \in Key : UsageOf(n)[k] = CoinUsage(n[k])
    BY CoinUsageType
<1>2. \A k \in Key : UsageOf(n)[k] = UsageOf(m)[k] + d[k]
    BY <1>1, SMTT(40)
<1>3. SumFunction(UsageOf(n)) = SumFunction(UsageOf(m)) + SumFunction(d)
    BY <1>1, <1>2, KeyFinite, SumPlus
<1>4. SumFunction(d) \in Int
  <2>1. \A s \in SUBSET Key : Sums(d, Key)[s] \in Int
    BY KeyFinite, SumType
  <2>2. SumFunction(d) = Sums(d, Key)[Key]
    BY KeyFinite, SumsStep
  <2> QED
    BY <2>1, <2>2
<1>5. u \in Int /\ u = SumFunction(UsageOf(m))
    BY DEF Counted, TotalUsage, UsageOf
<1>6. TotalUsage(n) = SumFunction(UsageOf(n))
    BY DEF TotalUsage, UsageOf
<1> QED
    BY <1>3, <1>4, <1>5, <1>6, SMTT(40) DEF Counted

\* A change of one entry, and of the counter by as much.
LEMMA CountOne ==
    ASSUME NEW m \in CoinsMap, NEW n \in CoinsMap, NEW u, Counted(u, m),
           NEW k \in Key, \A x \in Key \ {k} : n[x] = m[x],
           NEW delta \in Int, delta = CoinUsage(n[k]) - CoinUsage(m[k])
    PROVE  Counted(u + delta, n)
<1> DEFINE d == [x \in Key |-> CoinUsage(n[x]) - CoinUsage(m[x])]
<1>1. \A x \in Key : CoinUsage(m[x]) \in Int /\ CoinUsage(n[x]) \in Int
  <2>1. /\ UsageOf(m) \in [Key -> Int] /\ \A x \in Key : UsageOf(m)[x] = CoinUsage(m[x])
        /\ UsageOf(n) \in [Key -> Int] /\ \A x \in Key : UsageOf(n)[x] = CoinUsage(n[x])
    BY CoinUsageType
  <2> QED
    BY <2>1
<1>2. d \in [Key -> Int]
    BY <1>1, SMTT(40)
<1>3. \A x \in Key \ {k} : d[x] = 0
    BY <1>1, SMTT(40)
<1>4. d[k] = delta /\ \A x \in Key : d[x] = CoinUsage(n[x]) - CoinUsage(m[x])
    OBVIOUS
<1> HIDE DEF d
<1>5. SumFunction(d) = delta
    BY <1>2, <1>3, <1>4, KeyFinite, SumPoint
<1> QED
    BY <1>2, <1>4, <1>5, CountAll

\* Peg-in entries hold no coin, so a counter that was exact still is when only
\* they change.
LEMMA PeginUsage ==
    ASSUME NEW m, NEW n, NEW c, NEW s, Sound(m, c, s), Sound(n, c, s),
           NEW u, Counted(u, m), \A o \in Outpoint : n[o] = m[o]
    PROVE  Counted(u, n)
<1>1. ASSUME NEW p \in Pegin
      PROVE  CoinUsage(m[p]) = 0 /\ CoinUsage(n[p]) = 0
  <2>1. PeginFlagsSound(m[p], p, s) /\ PeginFlagsSound(n[p], p, s)
    BY DEF Sound
  <2> QED
    BY <2>1, UsageAssumption DEF PeginFlagsSound, CoinUsage
<1>2. ASSUME NEW k \in Key PROVE CoinUsage(m[k]) = CoinUsage(n[k])
    BY <1>1 DEF Key
<1>3. TotalUsage(m) = TotalUsage(n)
    BY <1>2 DEF TotalUsage
<1> QED
    BY <1>3 DEF Counted

\* An empty map uses nothing.
LEMMA EmptyCounted == Counted(0, Empty)
<1> DEFINE z == UsageOf(Empty)
<1>1. z \in [Key -> Int] /\ \A k \in Key : z[k] = 0
    BY SMTT(40) DEF UsageOf, CoinUsage, Empty
<1>2. TotalUsage(Empty) = SumFunction(z)
    BY DEF TotalUsage, UsageOf
<1> HIDE DEF z
<1>3. \A k \in Key : z[k] = z[k] + z[k]
    BY <1>1, SMTT(40)
<1>4. SumFunction(z) = SumFunction(z) + SumFunction(z)
    BY <1>1, <1>3, KeyFinite, SumPlus
<1>5. SumFunction(z) \in Int
  <2>1. \A s \in SUBSET Key : Sums(z, Key)[s] \in Int
    BY <1>1, KeyFinite, SumType
  <2>2. SumFunction(z) = Sums(z, Key)[Key]
    BY <1>1, KeyFinite, SumsStep
  <2> QED
    BY <2>1, <2>2
<1> QED
    BY <1>2, <1>4, <1>5, SMTT(40) DEF Counted

\* FetchCoin adds to the counter what it adds to the map.
LEMMA FetchCoinCounted ==
    ASSUME NEW m \in CoinsMap, NEW o \in Outpoint, NEW c \in Coin
    PROVE  LET n == FetchCoin(m, o, c)
           IN  /\ FetchCoinUsage(m, o, c) \in Int
               /\ FetchCoinUsage(m, o, c) = CoinUsage(n[o]) - CoinUsage(m[o])
<1> DEFINE n == FetchCoin(m, o, c)
<1>1. Usage[c] \in Int
    BY UsageAssumption
<1>2. CASE m[o] = NoEntry /\ c # NoCoin
  <2>1. n[o] = CoinEntry(c, {}) /\ FetchCoinUsage(m, o, c) = Usage[c]
    BY <1>2 DEF FetchCoin, FetchCoinUsage, CoinsMap, Key
  <2>2. CoinEntry(c, {}) # NoEntry /\ CoinEntry(c, {}).coin = c
    BY CoinEntryType DEF CoinEntry
  <2>3. CoinUsage(n[o]) = Usage[c] /\ CoinUsage(m[o]) = 0
    BY <1>2, <2>1, <2>2 DEF CoinUsage
  <2> QED
    BY <1>1, <2>1, <2>3, SMTT(40)
<1>3. CASE ~(m[o] = NoEntry /\ c # NoCoin)
  <2>1. n[o] = m[o] /\ FetchCoinUsage(m, o, c) = 0
    BY <1>3 DEF FetchCoin, FetchCoinUsage
  <2>2. CoinUsage(m[o]) \in Int
    BY CoinUsageType DEF Key
  <2> QED
    BY <2>1, <2>2, SMTT(40)
<1> QED
    BY <1>2, <1>3

\* AddCoin subtracts the coin that it overwrites, and adds the one it writes.
LEMMA AddCoinCounted ==
    ASSUME NEW m \in CoinsMap, NEW o \in Outpoint, NEW v \in CoinValue, NEW ow \in BOOLEAN
    PROVE  LET n == AddCoin(m, o, v, ow)
           IN  /\ AddCoinUsage(m, o, v) \in Int
               /\ AddCoinUsage(m, o, v) = CoinUsage(n[o]) - CoinUsage(m[o])
<1> DEFINE n == AddCoin(m, o, v, ow)
           f == AddCoinFlags(m, o, ow)
<1>1. v \in Coin /\ Usage[v] \in Int
    BY UsageAssumption DEF Coin
<1>2. f \in SUBSET Flag
    BY DEF AddCoinFlags, Flag, CoinsMap, Entry, Key
<1>3. n[o] = CoinEntry(v, f)
    BY DEF AddCoin, CoinsMap, Key
<1> HIDE DEF f
<1>4. CoinEntry(v, f) # NoEntry /\ CoinEntry(v, f).coin = v
    BY <1>1, <1>2, CoinEntryType DEF CoinEntry
<1>5. CoinUsage(n[o]) = Usage[v]
    BY <1>3, <1>4 DEF CoinUsage
<1>6. CoinUsage(m[o]) \in Int
    BY CoinUsageType DEF Key
<1>7. AddCoinUsage(m, o, v) = Usage[v] - CoinUsage(m[o])
    BY DEF AddCoinUsage, CoinUsage
<1> QED
    BY <1>1, <1>5, <1>6, <1>7, SMTT(40)

\* SpendCoin subtracts the coin, and leaves an entry that uses nothing, or none.
LEMMA SpendCoinCounted ==
    ASSUME NEW m \in CoinsMap, NEW o \in Outpoint
    PROVE  LET n == SpendCoin(m, o)
           IN  /\ SpendCoinUsage(m, o) \in Int
               /\ SpendCoinUsage(m, o) = CoinUsage(n[o]) - CoinUsage(m[o])
<1> DEFINE n == SpendCoin(m, o)
<1>1. CoinUsage(m[o]) \in Int
    BY CoinUsageType DEF Key
<1>2. CoinUsage(n[o]) = 0
  <2>1. CASE m[o] = NoEntry
    BY <2>1 DEF SpendCoin, CoinUsage
  <2>2. CASE m[o] # NoEntry
    <3> DEFINE e == CoinEntry(NoCoin, m[o].flags \cup {"DIRTY"})
    <3>1. n[o] = NoEntry \/ n[o] = e
      BY <2>2 DEF SpendCoin, CoinsMap, Key
    <3>2. e.coin = NoCoin
      BY DEF CoinEntry
    <3> HIDE DEF e
    <3> QED
      BY <3>1, <3>2, UsageAssumption DEF CoinUsage
  <2> QED
    BY <2>1, <2>2
<1>3. SpendCoinUsage(m, o) = IF m[o] = NoEntry THEN 0 ELSE -CoinUsage(m[o])
    BY DEF SpendCoinUsage, CoinUsage
<1>4. m[o] = NoEntry => CoinUsage(m[o]) = 0
    BY DEF CoinUsage
<1> QED
    BY <1>1, <1>2, <1>3, <1>4, SMTT(40)

\* BatchWrite counts, in each of its branches, the change of the entry.
LEMMA BatchWriteCounted ==
    ASSUME NEW up \in Entry \cup {NoEntry}, NEW e \in Entry \cup {NoEntry}
    PROVE  /\ BatchWriteUsage(up, e) \in Int
           /\ BatchWriteUsage(up, e) = CoinUsage(BatchWriteEntry(up, e)) - CoinUsage(up)
<1> DEFINE n == BatchWriteEntry(up, e)
           w == MergeEntry(up, e)
<1>1. CoinUsage(up) \in Int
    BY UsageAssumption, SMTT(40) DEF CoinUsage, Entry
<1>2. CASE Ignored(e)
  <2>1. n = up /\ BatchWriteUsage(up, e) = 0
    BY <1>2 DEF BatchWriteEntry, BatchWriteUsage
  <2> QED
    BY <1>1, <2>1, SMTT(40)
<1>3. CASE ~Ignored(e) /\ Forgotten(up, e)
  <2>1. n = NoEntry
    BY <1>3 DEF BatchWriteEntry
  <2>2. BatchWriteUsage(up, e) = IF up = NoEntry THEN 0 ELSE -Usage[up.coin]
    BY <1>3 DEF BatchWriteUsage
  <2>3. CoinUsage(n) = 0 /\ CoinUsage(up) = IF up = NoEntry THEN 0 ELSE Usage[up.coin]
    BY <2>1 DEF CoinUsage
  <2> QED
    BY <1>1, <2>2, <2>3, SMTT(40)
<1>4. CASE ~Ignored(e) /\ ~Forgotten(up, e)
  <2>1. n = w
    BY <1>4 DEF BatchWriteEntry
  <2>2. w \in Entry /\ w # NoEntry
    BY <1>4, MergeEntryType
  <2> HIDE DEF w
  <2>3. BatchWriteUsage(up, e) = IF up = NoEntry THEN Usage[w.coin] ELSE Usage[w.coin] - Usage[up.coin]
    BY <1>4 DEF BatchWriteUsage, w
  <2>4. Usage[w.coin] \in Int
    BY <2>2, UsageAssumption, SMTT(40) DEF Entry
  <2>5. CoinUsage(n) = Usage[w.coin] /\ CoinUsage(up) = IF up = NoEntry THEN 0 ELSE Usage[up.coin]
    BY <2>1, <2>2 DEF CoinUsage
  <2> QED
    BY <1>1, <2>3, <2>4, <2>5, SMTT(40)
<1> QED
    BY <1>2, <1>3, <1>4

-------------------------------------------------------------------------------
(* The actions: each preserves IInv, and is one step of UtxoView or none.  *)

Tip == <<TipCoins, TipPegins, TipBest>>
View == <<ViewCoins, ViewPegins, ViewBest>>

\* Reading a coin through CoinsTip() keeps its part of the invariant and changes
\* none of its answers.
LEMMA TipFetch ==
    ASSUME IInv, NEW o \in Outpoint, TipFetchCoin(o), UNCHANGED dbVars
    PROVE  /\ Sound(tip, dbCoins, dbPegins)'
           /\ UNCHANGED <<TipCoins, TipPegins>>
           /\ Counted(tipUsage, tip)'
<1> DEFINE n == FetchCoin(tip, o, dbCoins[o])
<1>1. /\ dbCoins \in [Outpoint -> Coin] /\ dbPegins \in SUBSET Pegin
      /\ Sound(tip, dbCoins, dbPegins) /\ tip \in CoinsMap
    BY DEF IInv, TypeOK, FlagsSound, Sound
<1>2. /\ Sound(n, dbCoins, dbPegins)
      /\ CoinsOf(n, dbCoins) = CoinsOf(tip, dbCoins)
      /\ PeginsOf(n, dbPegins) = PeginsOf(tip, dbPegins)
    BY <1>1, FetchCoinSound
<1>3. \A k \in Key \ {o} : n[k] = tip[k]
    BY <1>1 DEF FetchCoin, CoinsMap, Key
<1> HIDE DEF n
<1>4. tip' = n /\ dbCoins' = dbCoins /\ dbPegins' = dbPegins
    BY DEF TipFetchCoin, dbVars, n
<1>5. Sound(tip, dbCoins, dbPegins)' /\ UNCHANGED <<TipCoins, TipPegins>>
    BY <1>2, <1>4 DEF TipCoins, TipPegins
<1>6. n \in CoinsMap /\ o \in Key /\ dbCoins[o] \in Coin
    BY <1>1, <1>2 DEF Sound, Key
<1>7. Counted(tipUsage, tip)
    BY DEF IInv, TypeOK, UsageExact, Counted
<1> DEFINE delta == FetchCoinUsage(tip, o, dbCoins[o])
<1>8. delta \in Int /\ delta = CoinUsage(n[o]) - CoinUsage(tip[o])
    BY <1>1, <1>6, FetchCoinCounted DEF n
<1>9. tipUsage' = tipUsage + delta
    BY DEF TipFetchCoin
<1> HIDE DEF delta
<1>10. Counted(tipUsage + delta, n)
    BY <1>1, <1>3, <1>6, <1>7, <1>8, CountOne
<1> QED
    BY <1>4, <1>5, <1>9, <1>10

\* Asking CoinsTip() for a peg-in likewise.
LEMMA TipFetchP ==
    ASSUME IInv, NEW p \in Pegin, tip' = FetchPegin(tip, p, dbPegins),
           UNCHANGED <<dbVars, tipUsage>>
    PROVE  /\ Sound(tip, dbCoins, dbPegins)'
           /\ UNCHANGED <<TipCoins, TipPegins>>
           /\ Counted(tipUsage, tip)'
<1> DEFINE n == FetchPegin(tip, p, dbPegins)
<1>1. /\ dbCoins \in [Outpoint -> Coin] /\ dbPegins \in SUBSET Pegin
      /\ Sound(tip, dbCoins, dbPegins) /\ tip \in CoinsMap
    BY DEF IInv, TypeOK, FlagsSound, Sound
<1>2. /\ Sound(n, dbCoins, dbPegins)
      /\ CoinsOf(n, dbCoins) = CoinsOf(tip, dbCoins)
      /\ PeginsOf(n, dbPegins) = PeginsOf(tip, dbPegins)
    BY <1>1, FetchPeginSound
<1>3. \A k \in Key \ {p} : n[k] = tip[k]
    BY <1>1 DEF FetchPegin, CoinsMap, Key
<1> HIDE DEF n
<1>4. tip' = n /\ dbCoins' = dbCoins /\ dbPegins' = dbPegins /\ tipUsage' = tipUsage
    BY DEF dbVars, n
<1>5. Sound(tip, dbCoins, dbPegins)' /\ UNCHANGED <<TipCoins, TipPegins>>
    BY <1>2, <1>4 DEF TipCoins, TipPegins
<1>6. Counted(tipUsage, tip)
    BY DEF IInv, TypeOK, UsageExact, Counted
<1>7. \A o \in Outpoint : n[o] = tip[o]
    BY <1>3, KeyAssumption DEF Key
<1>8. Counted(tipUsage, n)
    BY <1>1, <1>2, <1>6, <1>7, PeginUsage
<1> QED
    BY <1>4, <1>5, <1>8

\* What every action but the flushes needs of the state it starts from.
LEMMA ViewFacts ==
    ASSUME IInv
    PROVE  /\ TipCoins \in [Outpoint -> Coin] /\ TipPegins \in SUBSET Pegin
           /\ Sound(view, TipCoins, TipPegins) /\ view \in CoinsMap
           /\ Counted(viewUsage, view)
<1>1. tip \in CoinsMap /\ dbCoins \in [Outpoint -> Coin] /\ dbPegins \in SUBSET Pegin
    BY DEF IInv, TypeOK
<1> QED
    BY <1>1, AnswersType DEF TipCoins, TipPegins, IInv, TypeOK, FlagsSound, UsageExact, Counted

\* A lookup in CoinsTip() is no step of UtxoView.
LEMMA TipHaveCoinStep ==
    ASSUME IInv, NEW o \in Outpoint, TipHaveCoin(o)
    PROVE  IInv' /\ UNCHANGED <<Tip, View, viewOpen>>
<1>1. UNCHANGED <<dbVars, tipBlock, viewVars, viewOpen>> /\ TipFetchCoin(o)
    BY DEF TipHaveCoin
<1>2. /\ Sound(tip, dbCoins, dbPegins)'
      /\ UNCHANGED <<TipCoins, TipPegins>>
      /\ Counted(tipUsage, tip)'
    BY <1>1, TipFetch
<1>3. IInv'
    BY <1>1, <1>2 DEF IInv, TypeOK, FlagsSound, UsageExact, Counted, ClosedViewEmpty, Sound, dbVars, viewVars
<1>4. UNCHANGED <<Tip, View, viewOpen>>
    BY <1>1, <1>2 DEF Tip, View, ViewCoins, ViewPegins, TipBest, ViewBest, dbVars, viewVars
<1> QED
    BY <1>3, <1>4

\* Nor is asking it for a peg-in.
LEMMA TipIsPeginSpentStep ==
    ASSUME IInv, NEW p \in Pegin, TipIsPeginSpent(p)
    PROVE  IInv' /\ UNCHANGED <<Tip, View, viewOpen>>
<1>1. /\ UNCHANGED <<dbVars, tipBlock, tipUsage, viewVars, viewOpen>>
      /\ tip' = FetchPegin(tip, p, dbPegins)
    BY DEF TipIsPeginSpent
<1>2. /\ Sound(tip, dbCoins, dbPegins)'
      /\ UNCHANGED <<TipCoins, TipPegins>>
      /\ Counted(tipUsage, tip)'
    BY <1>1, TipFetchP
<1>3. IInv'
    BY <1>1, <1>2 DEF IInv, TypeOK, FlagsSound, UsageExact, Counted, ClosedViewEmpty, Sound, dbVars, viewVars
<1>4. UNCHANGED <<Tip, View, viewOpen>>
    BY <1>1, <1>2 DEF Tip, View, ViewCoins, ViewPegins, TipBest, ViewBest, dbVars, viewVars
<1> QED
    BY <1>3, <1>4

\* Nor is evicting a clean entry.
LEMMA UncacheStep ==
    ASSUME IInv, NEW o \in Outpoint, Uncache(o)
    PROVE  IInv' /\ UNCHANGED <<Tip, View, viewOpen>>
<1> DEFINE n == [tip EXCEPT ![o] = NoEntry]
<1>1. UNCHANGED <<dbVars, tipBlock, viewVars, viewOpen>> /\ tip' = n
    BY DEF Uncache
<1>2. /\ dbCoins \in [Outpoint -> Coin] /\ dbPegins \in SUBSET Pegin
      /\ Sound(tip, dbCoins, dbPegins) /\ tip \in CoinsMap
    BY DEF IInv, TypeOK, FlagsSound, Sound
<1>3. /\ Sound(n, dbCoins, dbPegins)
      /\ CoinsOf(n, dbCoins) = [CoinsOf(tip, dbCoins) EXCEPT ![o] = dbCoins[o]]
      /\ PeginsOf(n, dbPegins) = PeginsOf(tip, dbPegins)
    BY <1>2, EraseCoin, SMTT(40)
<1>4. CoinFlagsSound(tip[o], dbCoins[o]) /\ tip[o] # NoEntry /\ tip[o].flags = {}
    BY <1>2 DEF Sound, Uncache
<1>5. [CoinsOf(tip, dbCoins) EXCEPT ![o] = dbCoins[o]] = CoinsOf(tip, dbCoins)
    BY <1>4 DEF CoinFlagsSound, CoinsOf
<1>6. n \in CoinsMap /\ n[o] = NoEntry /\ o \in Key /\ \A k \in Key \ {o} : n[k] = tip[k]
    BY <1>2 DEF CoinsMap, Key
<1>7. Counted(tipUsage, tip)
    BY DEF IInv, TypeOK, UsageExact, Counted
<1> HIDE DEF n
<1>8. /\ CoinUsage(tip[o]) = Usage[tip[o].coin] /\ CoinUsage(n[o]) = 0
      /\ CoinUsage(tip[o]) \in Int
    BY <1>2, <1>4, <1>6, CoinUsageType DEF CoinUsage
<1>9. Counted(tipUsage', n)
  <2> DEFINE delta == 0 - CoinUsage(tip[o])
  <2>1. delta \in Int /\ delta = CoinUsage(n[o]) - CoinUsage(tip[o])
    BY <1>8, SMTT(40)
  <2>2. tipUsage' = tipUsage + delta
    <3>1. tipUsage' = tipUsage - CoinUsage(tip[o]) /\ tipUsage \in Int
      BY <1>7, <1>8 DEF Uncache, Counted
    <3> QED
      BY <1>8, <3>1, SMTT(40)
  <2> HIDE DEF delta
  <2>3. Counted(tipUsage + delta, n)
    BY <1>2, <1>6, <1>7, <2>1, CountOne
  <2> QED
    BY <2>2, <2>3
<1>10. Sound(tip, dbCoins, dbPegins)' /\ UNCHANGED <<TipCoins, TipPegins>>
    BY <1>1, <1>3, <1>5 DEF TipCoins, TipPegins, dbVars
<1>11. IInv'
    BY <1>1, <1>9, <1>10 DEF IInv, TypeOK, FlagsSound, UsageExact, Counted, ClosedViewEmpty, Sound, dbVars, viewVars
<1>12. UNCHANGED <<Tip, View, viewOpen>>
    BY <1>1, <1>10 DEF Tip, View, ViewCoins, ViewPegins, TipBest, ViewBest, dbVars, viewVars
<1> QED
    BY <1>11, <1>12

\* Loading a snapshot coin into CoinsTip() is a Load.
LEMMA EmplaceStep ==
    ASSUME IInv, NEW o \in Outpoint, NEW v \in CoinValue, EmplaceCoinInternalDANGER(o, v)
    PROVE  IInv' /\ Abstract!Load(o, v)
<1> DEFINE n == [tip EXCEPT ![o] = CoinEntry(v, {"DIRTY"})]
<1>1. /\ UNCHANGED <<dbVars, tipBlock, viewVars, viewOpen>>
      /\ tip' = n /\ ~viewOpen /\ tip[o] = NoEntry /\ dbCoins[o] = NoCoin
      /\ tipUsage' = tipUsage + Usage[v]
    BY DEF EmplaceCoinInternalDANGER
<1>2. /\ dbCoins \in [Outpoint -> Coin] /\ dbPegins \in SUBSET Pegin
      /\ Sound(tip, dbCoins, dbPegins) /\ tip \in CoinsMap
    BY DEF IInv, TypeOK, FlagsSound, Sound
<1>3. v \in Coin /\ {"DIRTY"} \in SUBSET Flag /\ CoinFlagsSound(CoinEntry(v, {"DIRTY"}), dbCoins[o])
    BY DEF Coin, Flag, CoinFlagsSound, CoinEntry
<1>4. /\ Sound(n, dbCoins, dbPegins)
      /\ CoinsOf(n, dbCoins) = [CoinsOf(tip, dbCoins) EXCEPT ![o] = v]
      /\ PeginsOf(n, dbPegins) = PeginsOf(tip, dbPegins)
    BY <1>2, <1>3, PutCoin, SMTT(40)
<1>5. o \in Key /\ \A k \in Key \ {o} : n[k] = tip[k]
    BY <1>2 DEF CoinsMap, Key
<1>6. n \in CoinsMap
    BY <1>4 DEF Sound
<1>7. Counted(tipUsage, tip)
    BY DEF IInv, TypeOK, UsageExact, Counted
<1>8. CoinUsage(tip[o]) = 0 /\ CoinUsage(n[o]) = Usage[v] /\ Usage[v] \in Int
  <2>1. n[o] = CoinEntry(v, {"DIRTY"})
    BY <1>2, <1>5 DEF CoinsMap
  <2>2. CoinEntry(v, {"DIRTY"}) # NoEntry /\ CoinEntry(v, {"DIRTY"}).coin = v
    BY <1>3, CoinEntryType DEF CoinEntry
  <2> QED
    BY <1>1, <1>3, <2>1, <2>2, UsageAssumption DEF CoinUsage
<1> HIDE DEF n
<1>9. Counted(tipUsage', n)
  <2>1. Usage[v] = CoinUsage(n[o]) - CoinUsage(tip[o])
    BY <1>8, SMTT(40)
  <2> QED
    BY <1>1, <1>2, <1>5, <1>6, <1>7, <1>8, <2>1, CountOne
<1>10. /\ Sound(tip, dbCoins, dbPegins)'
       /\ TipCoins' = [TipCoins EXCEPT ![o] = v] /\ TipPegins' = TipPegins /\ TipBest' = TipBest
    BY <1>1, <1>4 DEF TipCoins, TipPegins, TipBest, dbVars
<1>11. view = Empty /\ viewBlock = NullBlock /\ view' = Empty /\ viewBlock' = NullBlock
    BY <1>1 DEF IInv, ClosedViewEmpty, viewVars
<1>12. TipCoins \in [Outpoint -> Coin] /\ TipPegins \in SUBSET Pegin
    BY ViewFacts
<1>13. TipCoins' \in [Outpoint -> Coin]
    BY <1>3, <1>10, <1>12
<1>14. /\ ViewCoins = TipCoins /\ ViewPegins = TipPegins
       /\ Sound(view, TipCoins, TipPegins)' /\ ViewCoins' = TipCoins' /\ ViewPegins' = TipPegins'
    BY <1>10, <1>11, <1>12, <1>13, EmptySound DEF ViewCoins, ViewPegins
<1>15. IInv'
    BY <1>1, <1>9, <1>10, <1>14 DEF IInv, TypeOK, FlagsSound, UsageExact, Counted, ClosedViewEmpty, Sound, dbVars, viewVars
<1>16. TipCoins[o] = NoCoin
    BY <1>1 DEF TipCoins, CoinsOf
<1>17. Abstract!Load(o, v)
    BY <1>1, <1>10, <1>11, <1>14, <1>16 DEF Abstract!Load, ViewBest
<1> QED
    BY <1>15, <1>17

\* Flushing CoinsTip() to disk writes what it answered, and is no step of
\* UtxoView, even under an open view.
LEMMA FlushTipStep ==
    ASSUME IInv, FlushTip
    PROVE  IInv' /\ UNCHANGED <<Tip, View, viewOpen>>
<1>1. /\ UNCHANGED <<viewVars, viewOpen>> /\ tip' = Empty
      /\ dbBest' = TipBest /\ tipBlock' = TipBest /\ tipUsage' = 0
    BY DEF FlushTip
<1>2. /\ dbCoins \in [Outpoint -> Coin] /\ dbPegins \in SUBSET Pegin
      /\ Sound(tip, dbCoins, dbPegins) /\ tip \in CoinsMap
    BY DEF IInv, TypeOK, FlagsSound, Sound
<1>3. dbCoins' = TipCoins
  <2>1. \A o \in Outpoint : CoinFlagsSound(tip[o], dbCoins[o])
    BY <1>2 DEF Sound
  <2> QED
    BY <2>1 DEF FlushTip, TipCoins, CoinsOf, CoinFlagsSound
<1>4. dbPegins' = TipPegins
  <2>1. \A p \in Pegin : PeginFlagsSound(tip[p], p, dbPegins)
    BY <1>2 DEF Sound
  <2> QED
    BY <2>1 DEF FlushTip, TipPegins, PeginsOf, PeginFlagsSound
<1>5. TipCoins \in [Outpoint -> Coin] /\ TipPegins \in SUBSET Pegin
    BY ViewFacts
<1>6. /\ Sound(Empty, TipCoins, TipPegins)
      /\ CoinsOf(Empty, TipCoins) = TipCoins /\ PeginsOf(Empty, TipPegins) = TipPegins
    BY <1>5, EmptySound
<1>7. Sound(tip, dbCoins, dbPegins)' /\ TipCoins' = TipCoins /\ TipPegins' = TipPegins
  <2>1. TipCoins' = CoinsOf(tip', dbCoins') /\ TipPegins' = PeginsOf(tip', dbPegins')
    BY DEF TipCoins, TipPegins
  <2> QED
    BY <1>1, <1>3, <1>4, <1>6, <2>1
<1>8. TipBest \in Block
    BY DEF IInv, TypeOK, TipBest
<1>9. TipBest' = TipBest
    BY <1>1 DEF TipBest
<1>10. Counted(tipUsage, tip)'
    BY <1>1, EmptyCounted
<1>11. IInv'
  <2>1. TypeOK'
    BY <1>1, <1>3, <1>4, <1>5, <1>6, <1>8, SMTT(40) DEF IInv, TypeOK, Sound, viewVars
  <2>2. FlagsSound' /\ UsageExact'
    BY <1>1, <1>7, <1>10 DEF IInv, FlagsSound, UsageExact, Counted, viewVars
  <2> QED
    BY <1>1, <2>1, <2>2 DEF IInv, ClosedViewEmpty, viewVars
<1>12. UNCHANGED <<Tip, View, viewOpen>>
    BY <1>1, <1>7, <1>9 DEF Tip, View, ViewCoins, ViewPegins, ViewBest, viewVars
<1> QED
    BY <1>11, <1>12

\* Opening a view is an Open.
LEMMA OpenViewStep ==
    ASSUME IInv, OpenView
    PROVE  IInv' /\ Abstract!Open
<1>1. UNCHANGED <<dbVars, tipVars, viewVars>> /\ ~viewOpen /\ viewOpen' = TRUE
    BY DEF OpenView
<1>2. IInv'
    BY <1>1 DEF IInv, TypeOK, FlagsSound, UsageExact, Counted, ClosedViewEmpty, TipCoins, TipPegins, dbVars, tipVars, viewVars
<1>3. Abstract!Open
    BY <1>1 DEF Abstract!Open, Abstract!committed, Abstract!working, TipCoins, TipPegins, TipBest,
       ViewCoins, ViewPegins, ViewBest, dbVars, tipVars, viewVars
<1> QED
    BY <1>2, <1>3

\* A lookup of a coin through the view keeps CoinsTip()'s part of the invariant
\* and its answers, whether it stops at the view or reads through.
LEMMA ReadThroughKeeps ==
    ASSUME IInv, NEW o \in Outpoint, ReadThrough(o), UNCHANGED dbVars
    PROVE  /\ Sound(tip, dbCoins, dbPegins)'
           /\ UNCHANGED <<TipCoins, TipPegins>>
           /\ Counted(tipUsage, tip)'
<1>1. CASE view[o] = NoEntry
    BY <1>1, TipFetch DEF ReadThrough
<1>2. CASE view[o] # NoEntry
    BY <1>2 DEF ReadThrough, IInv, TypeOK, FlagsSound, UsageExact, Counted, TipCoins, TipPegins, dbVars
<1> QED
    BY <1>1, <1>2

\* The same for a peg-in.
LEMMA ReadThroughPeginKeeps ==
    ASSUME IInv, NEW p \in Pegin, ReadThroughPegin(p), UNCHANGED <<dbVars, tipUsage>>
    PROVE  /\ Sound(tip, dbCoins, dbPegins)'
           /\ UNCHANGED <<TipCoins, TipPegins>>
           /\ Counted(tipUsage, tip)'
<1>1. CASE view[p] = NoEntry
    BY <1>1, TipFetchP DEF ReadThroughPegin
<1>2. CASE view[p] # NoEntry
    BY <1>2 DEF ReadThroughPegin, IInv, TypeOK, FlagsSound, UsageExact, Counted, TipCoins, TipPegins, dbVars
<1> QED
    BY <1>1, <1>2

\* A change of one coin entry of the view that keeps the view sound preserves
\* the invariant, if CoinsTip() was at most read.
LEMMA ViewCoinStep ==
    ASSUME IInv, NEW o \in Outpoint, NEW n, viewOpen,
           Sound(n, TipCoins, TipPegins), \A k \in Key \ {o} : n[k] = view[k],
           view' = n, NEW delta \in Int, delta = CoinUsage(n[o]) - CoinUsage(view[o]),
           viewUsage' = viewUsage + delta,
           Sound(tip, dbCoins, dbPegins)', UNCHANGED <<TipCoins, TipPegins>>,
           Counted(tipUsage, tip)',
           UNCHANGED <<dbVars, tipBlock, viewBlock, viewOpen>>
    PROVE  IInv' /\ TipBest' = TipBest /\ ViewBest' = ViewBest
<1>1. view \in CoinsMap /\ Counted(viewUsage, view)
    BY ViewFacts
<1>2. n \in CoinsMap /\ o \in Key
    BY DEF Sound, Key
<1>3. Counted(viewUsage, view)'
    BY <1>1, <1>2, CountOne
<1>4. TypeOK'
    BY <1>2, <1>3 DEF IInv, TypeOK, Counted, Sound, dbVars
<1>5. FlagsSound' /\ UsageExact'
    BY <1>3 DEF FlagsSound, UsageExact, Counted
<1>6. ClosedViewEmpty'
    BY DEF ClosedViewEmpty
<1>7. TipBest' = TipBest /\ ViewBest' = ViewBest
    BY DEF TipBest, ViewBest, dbVars
<1> QED
    BY <1>4, <1>5, <1>6, <1>7 DEF IInv

\* Looking a coin up through the view is no step of UtxoView.
LEMMA HaveCoinStep ==
    ASSUME IInv, NEW o \in Outpoint, HaveCoin(o)
    PROVE  IInv' /\ UNCHANGED <<Tip, View, viewOpen>>
<1> DEFINE n == FetchCoin(view, o, TipCoins[o])
           delta == FetchCoinUsage(view, o, TipCoins[o])
<1>1. /\ UNCHANGED <<dbVars, tipBlock, viewBlock, viewOpen>> /\ viewOpen /\ ReadThrough(o)
      /\ view' = n /\ viewUsage' = viewUsage + delta
    BY DEF HaveCoin
<1>2. /\ Sound(tip, dbCoins, dbPegins)' /\ UNCHANGED <<TipCoins, TipPegins>>
      /\ Counted(tipUsage, tip)'
    BY <1>1, ReadThroughKeeps
<1>3. /\ Sound(n, TipCoins, TipPegins)
      /\ CoinsOf(n, TipCoins) = ViewCoins /\ PeginsOf(n, TipPegins) = ViewPegins
    BY ViewFacts, FetchCoinSound DEF ViewCoins, ViewPegins
<1>4. \A k \in Key \ {o} : n[k] = view[k]
  <2>1. view \in CoinsMap /\ o \in Key
    BY ViewFacts DEF Key
  <2> QED
    BY <2>1 DEF FetchCoin, CoinsMap
<1>delta. delta \in Int /\ delta = CoinUsage(n[o]) - CoinUsage(view[o])
  <2>1. view \in CoinsMap /\ TipCoins[o] \in Coin
    BY ViewFacts
  <2> QED
    BY <2>1, FetchCoinCounted
<1> HIDE DEF n, delta
<1>5. IInv' /\ TipBest' = TipBest /\ ViewBest' = ViewBest
    BY <1>1, <1>2, <1>3, <1>4, <1>delta, ViewCoinStep
<1>6. ViewCoins' = ViewCoins /\ ViewPegins' = ViewPegins
    BY <1>1, <1>2, <1>3 DEF ViewCoins, ViewPegins
<1> QED
    BY <1>1, <1>2, <1>5, <1>6 DEF Tip, View

\* Adding a coin to the view is an Add.
LEMMA AddCoinStep ==
    ASSUME IInv, NEW o \in Outpoint, NEW v \in CoinValue, NEW ow \in BOOLEAN, ViewAddCoin(o, v, ow)
    PROVE  IInv' /\ Abstract!Add(o, v)
<1> DEFINE n == AddCoin(view, o, v, ow)
           delta == AddCoinUsage(view, o, v)
<1>1. /\ UNCHANGED <<dbVars, tipVars, viewBlock, viewOpen>> /\ viewOpen
      /\ v \notin Unspendable /\ (ow \/ ViewCoins[o] = NoCoin)
      /\ view' = n /\ viewUsage' = viewUsage + delta
    BY DEF ViewAddCoin
<1>2. /\ Sound(tip, dbCoins, dbPegins)' /\ UNCHANGED <<TipCoins, TipPegins>>
      /\ Counted(tipUsage, tip)'
    BY <1>1 DEF IInv, TypeOK, FlagsSound, UsageExact, Counted, TipCoins, TipPegins, dbVars, tipVars
<1>3. ow \/ CoinsOf(view, TipCoins)[o] = NoCoin
    BY <1>1 DEF ViewCoins
<1>4. /\ Sound(n, TipCoins, TipPegins)
      /\ CoinsOf(n, TipCoins) = [CoinsOf(view, TipCoins) EXCEPT ![o] = v]
      /\ PeginsOf(n, TipPegins) = PeginsOf(view, TipPegins)
  <2>1. /\ TipCoins \in [Outpoint -> Coin] /\ TipPegins \in SUBSET Pegin
        /\ Sound(view, TipCoins, TipPegins)
    BY ViewFacts
  <2> QED
    BY <1>3, <2>1, AddCoinSound, SMTT(40)
<1>5. \A k \in Key \ {o} : n[k] = view[k]
  <2>1. view \in CoinsMap /\ o \in Key
    BY ViewFacts DEF Key
  <2> QED
    BY <2>1 DEF AddCoin, CoinsMap
<1>delta. delta \in Int /\ delta = CoinUsage(n[o]) - CoinUsage(view[o])
    BY ViewFacts, AddCoinCounted
<1> HIDE DEF n, delta
<1>6. IInv' /\ TipBest' = TipBest /\ ViewBest' = ViewBest
    BY <1>1, <1>2, <1>4, <1>5, <1>delta, ViewCoinStep DEF tipVars
<1>7. ViewCoins' = [ViewCoins EXCEPT ![o] = v] /\ ViewPegins' = ViewPegins
    BY <1>1, <1>2, <1>4 DEF ViewCoins, ViewPegins
<1> QED
    BY <1>1, <1>2, <1>6, <1>7 DEF Abstract!Add, Abstract!committed

\* Spending a coin in the view is a Spend, also when the coin was not there.
LEMMA SpendCoinStep ==
    ASSUME IInv, NEW o \in Outpoint, ViewSpendCoin(o)
    PROVE  IInv' /\ Abstract!Spend(o)
<1> DEFINE g == FetchCoin(view, o, TipCoins[o])
           n == SpendCoin(g, o)
           fetched == FetchCoinUsage(view, o, TipCoins[o])
           spent == SpendCoinUsage(g, o)
           delta == fetched + spent
<1>1. /\ UNCHANGED <<dbVars, tipBlock, viewBlock, viewOpen>> /\ viewOpen /\ ReadThrough(o)
      /\ view' = n /\ viewUsage' = viewUsage + fetched + spent
    BY DEF ViewSpendCoin
<1>2. /\ Sound(tip, dbCoins, dbPegins)' /\ UNCHANGED <<TipCoins, TipPegins>>
      /\ Counted(tipUsage, tip)'
    BY <1>1, ReadThroughKeeps
<1>3. /\ Sound(n, TipCoins, TipPegins)
      /\ CoinsOf(n, TipCoins) = [CoinsOf(view, TipCoins) EXCEPT ![o] = NoCoin]
      /\ PeginsOf(n, TipPegins) = PeginsOf(view, TipPegins)
  <2>1. /\ TipCoins \in [Outpoint -> Coin] /\ TipPegins \in SUBSET Pegin
        /\ Sound(view, TipCoins, TipPegins)
    BY ViewFacts
  <2>2. g = FetchCoin(view, o, TipCoins[o])
    OBVIOUS
  <2> HIDE DEF g
  <2> QED
    BY <2>1, <2>2, SpendCoinSound, SMTT(40)
<1>4. \A k \in Key \ {o} : n[k] = view[k]
  <2>1. Sound(g, TipCoins, TipPegins)
    BY ViewFacts, FetchCoinSound
  <2>2. g \in CoinsMap
    BY <2>1 DEF Sound
  <2>3. \A k \in Key \ {o} : g[k] = view[k]
    <3>1. view \in CoinsMap /\ o \in Key
      BY ViewFacts DEF Key
    <3> QED
      BY <3>1 DEF FetchCoin, CoinsMap
  <2> HIDE DEF g
  <2>4. \A k \in Key \ {o} : n[k] = g[k]
    BY <2>2 DEF SpendCoin, CoinsMap, Key
  <2> QED
    BY <2>3, <2>4
<1>delta. delta \in Int /\ delta = CoinUsage(n[o]) - CoinUsage(view[o]) /\ viewUsage' = viewUsage + delta
  <2>1. view \in CoinsMap /\ TipCoins[o] \in Coin /\ o \in Key /\ viewUsage \in Int
    BY ViewFacts DEF Key, Counted
  <2>2. g \in CoinsMap
    BY ViewFacts, FetchCoinSound DEF Sound
  <2>3. fetched \in Int /\ fetched = CoinUsage(g[o]) - CoinUsage(view[o])
    BY <2>1, FetchCoinCounted
  <2> HIDE DEF g, fetched
  <2>4. spent \in Int /\ spent = CoinUsage(n[o]) - CoinUsage(g[o])
    BY <2>2, SpendCoinCounted
  <2>5. n \in CoinsMap
    BY <1>3 DEF Sound
  <2> HIDE DEF n, spent
  <2>6. CoinUsage(view[o]) \in Int /\ CoinUsage(g[o]) \in Int /\ CoinUsage(n[o]) \in Int
    BY <2>1, <2>2, <2>5, CoinUsageType
  <2> QED
    BY <1>1, <2>1, <2>3, <2>4, <2>6, SMTT(40)
<1> HIDE DEF n, delta
<1>5. IInv' /\ TipBest' = TipBest /\ ViewBest' = ViewBest
    BY <1>1, <1>2, <1>3, <1>4, <1>delta, ViewCoinStep
<1>6. ViewCoins' = [ViewCoins EXCEPT ![o] = NoCoin] /\ ViewPegins' = ViewPegins
    BY <1>1, <1>2, <1>3 DEF ViewCoins, ViewPegins
<1> QED
    BY <1>1, <1>2, <1>5, <1>6 DEF Abstract!Spend, Abstract!committed

\* A change of one peg-in entry of the view likewise.
LEMMA ViewPeginStep ==
    ASSUME IInv, NEW p \in Pegin, NEW n, viewOpen,
           Sound(n, TipCoins, TipPegins), \A k \in Key \ {p} : n[k] = view[k],
           view' = n, ReadThroughPegin(p),
           UNCHANGED <<dbVars, tipBlock, tipUsage, viewBlock, viewUsage, viewOpen>>
    PROVE  /\ IInv' /\ TipBest' = TipBest /\ ViewBest' = ViewBest
           /\ UNCHANGED <<TipCoins, TipPegins>>
<1>1. /\ Sound(view, TipCoins, TipPegins)
      /\ Counted(viewUsage, view)
    BY ViewFacts
<1>2. \A o \in Outpoint : n[o] = view[o]
    BY KeyAssumption DEF Key
<1>3. Counted(viewUsage, n)
    BY <1>1, <1>2, PeginUsage
<1>4. /\ Sound(tip, dbCoins, dbPegins)' /\ UNCHANGED <<TipCoins, TipPegins>>
      /\ Counted(tipUsage, tip)'
    BY ReadThroughPeginKeeps
<1>5. TypeOK'
    BY <1>4 DEF IInv, TypeOK, Counted, Sound, dbVars
<1>6. FlagsSound' /\ UsageExact'
    BY <1>3, <1>4 DEF FlagsSound, UsageExact, Counted
<1>7. ClosedViewEmpty'
    BY DEF ClosedViewEmpty
<1>8. TipBest' = TipBest /\ ViewBest' = ViewBest
    BY DEF TipBest, ViewBest, dbVars
<1> QED
    BY <1>4, <1>5, <1>6, <1>7, <1>8 DEF IInv

\* Asking the view for a peg-in is no step of UtxoView.
LEMMA IsPeginSpentStep ==
    ASSUME IInv, NEW p \in Pegin, IsPeginSpent(p)
    PROVE  IInv' /\ UNCHANGED <<Tip, View, viewOpen>>
<1> DEFINE n == FetchPegin(view, p, TipPegins)
<1>1. /\ UNCHANGED <<dbVars, tipBlock, tipUsage, viewBlock, viewUsage, viewOpen>>
      /\ viewOpen /\ ReadThroughPegin(p) /\ view' = n
    BY DEF IsPeginSpent
<1>2. /\ Sound(n, TipCoins, TipPegins)
      /\ CoinsOf(n, TipCoins) = ViewCoins /\ PeginsOf(n, TipPegins) = ViewPegins
    BY ViewFacts, FetchPeginSound DEF ViewCoins, ViewPegins
<1>3. \A k \in Key \ {p} : n[k] = view[k]
  <2>1. view \in CoinsMap /\ p \in Key
    BY ViewFacts DEF Key
  <2> QED
    BY <2>1 DEF FetchPegin, CoinsMap
<1> HIDE DEF n
<1>4. /\ IInv' /\ TipBest' = TipBest /\ ViewBest' = ViewBest
      /\ UNCHANGED <<TipCoins, TipPegins>>
    BY <1>1, <1>2, <1>3, ViewPeginStep
<1>5. ViewCoins' = ViewCoins /\ ViewPegins' = ViewPegins
    BY <1>1, <1>2, <1>4 DEF ViewCoins, ViewPegins
<1> QED
    BY <1>1, <1>4, <1>5 DEF Tip, View

\* Marking a peg-in spent or unspent is a ClaimPegin or a ReleasePegin.
LEMMA SetPeginSpentStep ==
    ASSUME IInv, NEW p \in Pegin, NEW b \in BOOLEAN, ViewSetPeginSpent(p, b)
    PROVE  IInv' /\ (b => Abstract!ClaimPegin(p)) /\ (~b => Abstract!ReleasePegin(p))
<1> DEFINE n == SetPeginSpent(view, p, TipPegins, b)
<1>1. /\ UNCHANGED <<dbVars, tipBlock, tipUsage, viewBlock, viewUsage, viewOpen>>
      /\ viewOpen /\ ReadThroughPegin(p) /\ view' = n
    BY DEF ViewSetPeginSpent
<1>2. /\ TipCoins \in [Outpoint -> Coin] /\ TipPegins \in SUBSET Pegin
      /\ Sound(view, TipCoins, TipPegins)
    BY ViewFacts
<1>3. /\ Sound(n, TipCoins, TipPegins)
      /\ CoinsOf(n, TipCoins) = CoinsOf(view, TipCoins)
      /\ b => PeginsOf(n, TipPegins) = PeginsOf(view, TipPegins) \cup {p}
      /\ ~b => PeginsOf(n, TipPegins) = PeginsOf(view, TipPegins) \ {p}
    BY <1>2, SetPeginSound, SMTT(40)
<1>4. \A k \in Key \ {p} : n[k] = view[k]
  <2>1. view \in CoinsMap /\ p \in Key
    BY ViewFacts DEF Key
  <2> QED
    BY <2>1 DEF SetPeginSpent, CoinsMap
<1> HIDE DEF n
<1>5. /\ IInv' /\ TipBest' = TipBest /\ ViewBest' = ViewBest
      /\ UNCHANGED <<TipCoins, TipPegins>>
    BY <1>1, <1>3, <1>4, ViewPeginStep
<1>6. /\ ViewCoins' = ViewCoins
      /\ b => ViewPegins' = ViewPegins \cup {p}
      /\ ~b => ViewPegins' = ViewPegins \ {p}
    BY <1>1, <1>3, <1>5 DEF ViewCoins, ViewPegins
<1>7. b => Abstract!ClaimPegin(p)
    BY <1>1, <1>5, <1>6 DEF Abstract!ClaimPegin, Abstract!committed
<1>8. ~b => Abstract!ReleasePegin(p)
    BY <1>1, <1>5, <1>6 DEF Abstract!ReleasePegin, Abstract!committed
<1> QED
    BY <1>5, <1>7, <1>8

\* Asking for the best block is no step of UtxoView.
LEMMA GetBestBlockStep ==
    ASSUME IInv, GetBestBlock
    PROVE  IInv' /\ UNCHANGED <<Tip, View, viewOpen>>
<1>1. /\ UNCHANGED <<dbVars, tip, tipUsage, view, viewUsage, viewOpen>> /\ viewOpen
      /\ viewBlock' = ViewBest
      /\ tipBlock' = IF viewBlock = NullBlock THEN TipBest ELSE tipBlock
    BY DEF GetBestBlock
<1>2. TipBest' = TipBest /\ ViewBest' = ViewBest
    BY <1>1, BlockAssumption DEF IInv, TypeOK, TipBest, ViewBest, dbVars
<1>3. UNCHANGED <<TipCoins, TipPegins, ViewCoins, ViewPegins>>
    BY <1>1 DEF TipCoins, TipPegins, ViewCoins, ViewPegins, dbVars
<1>4. TypeOK'
    BY <1>1 DEF IInv, TypeOK, TipBest, ViewBest, dbVars
<1>5. FlagsSound' /\ UsageExact' /\ ClosedViewEmpty'
    BY <1>1, <1>3 DEF IInv, FlagsSound, UsageExact, Counted, ClosedViewEmpty, dbVars
<1> QED
    BY <1>1, <1>2, <1>3, <1>4, <1>5 DEF IInv, Tip, View

\* Setting the best block is a SetBest.
LEMMA SetBestBlockStep ==
    ASSUME IInv, NEW b \in Block, SetBestBlock(b)
    PROVE  IInv' /\ Abstract!SetBest(b)
<1>1. UNCHANGED <<dbVars, tipVars, view, viewUsage, viewOpen>> /\ viewOpen /\ viewBlock' = b
    BY DEF SetBestBlock
<1>2. UNCHANGED <<TipCoins, TipPegins, TipBest, ViewCoins, ViewPegins>>
    BY <1>1 DEF TipCoins, TipPegins, TipBest, ViewCoins, ViewPegins, dbVars, tipVars
<1>3. ViewBest' = b
    BY <1>1, BlockAssumption DEF ViewBest
<1>4. TypeOK'
    BY <1>1 DEF IInv, TypeOK, dbVars, tipVars
<1>5. FlagsSound' /\ UsageExact' /\ ClosedViewEmpty'
    BY <1>1, <1>2 DEF IInv, FlagsSound, UsageExact, Counted, ClosedViewEmpty, dbVars, tipVars
<1>6. Abstract!SetBest(b)
    BY <1>1, <1>2, <1>3 DEF Abstract!SetBest, Abstract!committed
<1> QED
    BY <1>4, <1>5, <1>6 DEF IInv

\* Flushing the view into CoinsTip() is a Commit.
LEMMA FlushViewStep ==
    ASSUME IInv, FlushView
    PROVE  IInv' /\ Abstract!Commit
<1> DEFINE n == [k \in Key |-> BatchWriteEntry(tip[k], view[k])]
           d == [k \in Key |-> BatchWriteUsage(tip[k], view[k])]
<1>1. /\ UNCHANGED <<dbVars, viewBlock, viewOpen>> /\ viewOpen /\ viewBlock # NullBlock
      /\ tip' = n /\ tipBlock' = viewBlock /\ view' = Empty /\ viewUsage' = 0
      /\ tipUsage' = tipUsage + SumFunction(d)
    BY DEF FlushView
<1>2. /\ dbCoins \in [Outpoint -> Coin] /\ dbPegins \in SUBSET Pegin
      /\ Sound(tip, dbCoins, dbPegins) /\ tip \in CoinsMap
      /\ Sound(view, CoinsOf(tip, dbCoins), PeginsOf(tip, dbPegins))
    BY DEF IInv, TypeOK, FlagsSound, Sound, TipCoins, TipPegins
<1>3. /\ Sound(n, dbCoins, dbPegins)
      /\ CoinsOf(n, dbCoins) = CoinsOf(view, CoinsOf(tip, dbCoins))
      /\ PeginsOf(n, dbPegins) = PeginsOf(view, PeginsOf(tip, dbPegins))
    BY <1>2, MergeSound
<1> HIDE DEF n
<1>4. /\ Sound(tip, dbCoins, dbPegins)' /\ TipCoins' = ViewCoins /\ TipPegins' = ViewPegins
    BY <1>1, <1>3 DEF TipCoins, TipPegins, ViewCoins, ViewPegins, dbVars
<1>5. ViewCoins \in [Outpoint -> Coin] /\ ViewPegins \in SUBSET Pegin
    BY ViewFacts, AnswersType DEF ViewCoins, ViewPegins
<1>6. /\ Sound(Empty, ViewCoins, ViewPegins)
      /\ CoinsOf(Empty, ViewCoins) = ViewCoins /\ PeginsOf(Empty, ViewPegins) = ViewPegins
    BY <1>5, EmptySound
<1>7. Sound(view, TipCoins, TipPegins)' /\ ViewCoins' = ViewCoins /\ ViewPegins' = ViewPegins
  <2>1. ViewCoins' = CoinsOf(view', TipCoins') /\ ViewPegins' = PeginsOf(view', TipPegins')
    BY DEF ViewCoins, ViewPegins
  <2> QED
    BY <1>1, <1>4, <1>6, <2>1
<1>8. TipBest' = ViewBest /\ ViewBest' = ViewBest
    BY <1>1 DEF TipBest, ViewBest
<1>9. n \in CoinsMap
    BY <1>3 DEF Sound
<1>10. Counted(tipUsage, tip)'
  <2>1. ASSUME NEW k \in Key
        PROVE  d[k] \in Int /\ d[k] = CoinUsage(n[k]) - CoinUsage(tip[k])
    <3>1. tip[k] \in Entry \cup {NoEntry} /\ view[k] \in Entry \cup {NoEntry}
      BY <1>2 DEF Sound, CoinsMap
    <3>2. n[k] = BatchWriteEntry(tip[k], view[k]) /\ d[k] = BatchWriteUsage(tip[k], view[k])
      BY DEF n
    <3> QED
      BY <3>1, <3>2, BatchWriteCounted
  <2>2. d \in [Key -> Int]
    BY <2>1
  <2> HIDE DEF d
  <2>3. Counted(tipUsage, tip)
    BY DEF IInv, TypeOK, UsageExact, Counted
  <2>4. Counted(tipUsage + SumFunction(d), n)
    BY <1>2, <1>9, <2>1, <2>2, <2>3, CountAll
  <2> QED
    BY <1>1, <2>4
<1>11. Counted(viewUsage, view)'
    BY <1>1, EmptyCounted
<1>12. TypeOK'
    BY <1>1, <1>6, <1>9, <1>10, <1>11 DEF IInv, TypeOK, Counted, Sound, dbVars
<1>13. FlagsSound' /\ UsageExact' /\ ClosedViewEmpty'
    BY <1>1, <1>4, <1>7, <1>10, <1>11 DEF FlagsSound, UsageExact, Counted, ClosedViewEmpty
<1>14. Abstract!Commit
    BY <1>1, <1>4, <1>7, <1>8 DEF Abstract!Commit, Abstract!committed, Abstract!working
<1> QED
    BY <1>12, <1>13, <1>14 DEF IInv

\* Letting the view go out of scope is a Drop.
LEMMA CloseViewStep ==
    ASSUME IInv, CloseView
    PROVE  IInv' /\ Abstract!Drop
<1>1. /\ UNCHANGED <<dbVars, tipVars>> /\ viewOpen /\ viewOpen' = FALSE
      /\ view' = Empty /\ viewBlock' = NullBlock /\ viewUsage' = 0
    BY DEF CloseView
<1>2. UNCHANGED <<TipCoins, TipPegins, TipBest>>
    BY <1>1 DEF TipCoins, TipPegins, TipBest, dbVars, tipVars
<1>3. /\ Sound(Empty, TipCoins, TipPegins)
      /\ CoinsOf(Empty, TipCoins) = TipCoins /\ PeginsOf(Empty, TipPegins) = TipPegins
    BY ViewFacts, EmptySound
<1>4. /\ Sound(view, TipCoins, TipPegins)'
      /\ ViewCoins' = TipCoins /\ ViewPegins' = TipPegins /\ ViewBest' = TipBest
  <2>1. ViewCoins' = CoinsOf(view', TipCoins') /\ ViewPegins' = PeginsOf(view', TipPegins')
    BY DEF ViewCoins, ViewPegins
  <2> QED
    BY <1>1, <1>2, <1>3, <2>1 DEF ViewBest
<1>5. Counted(viewUsage, view)'
    BY <1>1, EmptyCounted
<1>6. TypeOK'
  <2>1. viewOpen' \in BOOLEAN
    BY <1>1
  <2>2. view' \in CoinsMap
    BY <1>1, <1>3 DEF Sound
  <2> QED
    BY <1>1, <2>1, <2>2, SMTT(40) DEF IInv, TypeOK, dbVars, tipVars
<1>7. FlagsSound' /\ UsageExact' /\ ClosedViewEmpty'
    BY <1>1, <1>4, <1>5 DEF IInv, FlagsSound, UsageExact, Counted, ClosedViewEmpty, dbVars, tipVars
<1>8. Abstract!Drop
    BY <1>1, <1>2, <1>4 DEF Abstract!Drop, Abstract!committed, Abstract!working
<1> QED
    BY <1>6, <1>7, <1>8 DEF IInv

-------------------------------------------------------------------------------
(* The theorems.                                                           *)

\* The invariant holds of a chainstate just opened, which is an initial state of
\* UtxoView.
LEMMA InitStep ==
    ASSUME Init
    PROVE  IInv /\ Abstract!Init
<1>1. dbCoins \in [Outpoint -> (CoinValue \ Unspendable) \cup {NoCoin}] /\ dbPegins \in SUBSET Pegin
    BY DEF Init
<1>2. dbCoins \in [Outpoint -> Coin]
    BY <1>1 DEF Coin
<1>3. /\ Sound(Empty, dbCoins, dbPegins)
      /\ CoinsOf(Empty, dbCoins) = dbCoins /\ PeginsOf(Empty, dbPegins) = dbPegins
    BY <1>1, <1>2, EmptySound
<1>4. tip = Empty /\ view = Empty /\ tipBlock = NullBlock /\ viewBlock = NullBlock /\ viewOpen = FALSE
    BY DEF Init
<1>5. TipCoins = dbCoins /\ TipPegins = dbPegins /\ ViewCoins = dbCoins /\ ViewPegins = dbPegins
    BY <1>3, <1>4 DEF TipCoins, TipPegins, ViewCoins, ViewPegins
<1>6. TipBest = dbBest /\ ViewBest = dbBest
    BY <1>4 DEF TipBest, ViewBest
<1>7. TypeOK
  <2>1. viewOpen \in BOOLEAN
    BY <1>4
  <2>2. Empty \in CoinsMap
    BY <1>3 DEF Sound
  <2> QED
    BY <1>1, <1>2, <1>4, <2>1, <2>2, SMTT(40) DEF Init, TypeOK
<1>8. FlagsSound
    BY <1>3, <1>4, <1>5 DEF FlagsSound
<1>9. UsageExact
    BY EmptyCounted DEF Init, UsageExact, Counted
<1>10. ClosedViewEmpty
    BY <1>4 DEF ClosedViewEmpty
<1>11. Abstract!Init
    BY <1>1, <1>4, <1>5, <1>6 DEF Init, Abstract!Init, Abstract!working, Abstract!committed
<1> QED
    BY <1>7, <1>8, <1>9, <1>10, <1>11 DEF IInv

\* Every step preserves the invariant, and is a step of UtxoView or changes none
\* of its variables.
LEMMA NextStep ==
    ASSUME IInv, [Next]_vars
    PROVE  IInv' /\ [Abstract!Next]_(Abstract!vars)
<1> DEFINE Still == UNCHANGED <<Tip, View, viewOpen>>
<1>1. ASSUME Still PROVE [Abstract!Next]_(Abstract!vars)
    BY <1>1 DEF Tip, View, Abstract!vars, Abstract!committed, Abstract!working
<1>2. ASSUME NEW o \in Outpoint, TipHaveCoin(o) PROVE IInv' /\ Still
    BY <1>2, TipHaveCoinStep
<1>3. ASSUME NEW p \in Pegin, TipIsPeginSpent(p) PROVE IInv' /\ Still
    BY <1>3, TipIsPeginSpentStep
<1>4. ASSUME NEW o \in Outpoint, Uncache(o) PROVE IInv' /\ Still
    BY <1>4, UncacheStep
<1>5. ASSUME NEW o \in Outpoint, NEW v \in CoinValue, EmplaceCoinInternalDANGER(o, v)
      PROVE  IInv' /\ Abstract!Next
    BY <1>5, EmplaceStep DEF Abstract!Next
<1>6. ASSUME FlushTip PROVE IInv' /\ Still
    BY <1>6, FlushTipStep
<1>7. ASSUME OpenView PROVE IInv' /\ Abstract!Next
    BY <1>7, OpenViewStep DEF Abstract!Next
<1>8. ASSUME NEW o \in Outpoint, HaveCoin(o) PROVE IInv' /\ Still
    BY <1>8, HaveCoinStep
<1>9. ASSUME NEW o \in Outpoint, NEW v \in CoinValue, NEW ow \in BOOLEAN, ViewAddCoin(o, v, ow)
      PROVE  IInv' /\ Abstract!Next
    BY <1>9, AddCoinStep DEF Abstract!Next
<1>10. ASSUME NEW o \in Outpoint, ViewSpendCoin(o) PROVE IInv' /\ Abstract!Next
    BY <1>10, SpendCoinStep DEF Abstract!Next
<1>11. ASSUME NEW p \in Pegin, IsPeginSpent(p) PROVE IInv' /\ Still
    BY <1>11, IsPeginSpentStep
<1>12. ASSUME NEW p \in Pegin, NEW b \in BOOLEAN, ViewSetPeginSpent(p, b)
       PROVE  IInv' /\ Abstract!Next
    BY <1>12, SetPeginSpentStep DEF Abstract!Next
<1>13. ASSUME GetBestBlock PROVE IInv' /\ Still
    BY <1>13, GetBestBlockStep
<1>14. ASSUME NEW b \in Block, SetBestBlock(b) PROVE IInv' /\ Abstract!Next
    BY <1>14, SetBestBlockStep DEF Abstract!Next
<1>15. ASSUME FlushView PROVE IInv' /\ Abstract!Next
    BY <1>15, FlushViewStep DEF Abstract!Next
<1>16. ASSUME CloseView PROVE IInv' /\ Abstract!Next
    BY <1>16, CloseViewStep DEF Abstract!Next
<1>17. ASSUME UNCHANGED vars PROVE IInv' /\ Still
  <2>1. UNCHANGED <<dbCoins, dbPegins, dbBest, tip, tipBlock, tipUsage, view, viewBlock, viewUsage, viewOpen>>
    BY <1>17 DEF vars, dbVars, tipVars, viewVars
  <2>2. UNCHANGED <<TipCoins, TipPegins, TipBest, ViewCoins, ViewPegins, ViewBest>>
    BY <2>1 DEF TipCoins, TipPegins, TipBest, ViewCoins, ViewPegins, ViewBest
  <2> QED
    BY <2>1, <2>2 DEF IInv, TypeOK, FlagsSound, UsageExact, Counted, ClosedViewEmpty, Tip, View
<1> HIDE DEF Still
<1>18. CASE UNCHANGED vars
    BY <1>1, <1>17, <1>18
<1>19. CASE Next
    BY <1>19, <1>1, <1>2, <1>3, <1>4, <1>5, <1>6, <1>7, <1>8, <1>9, <1>10, <1>11, <1>12, <1>13,
       <1>14, <1>15, <1>16 DEF Next
<1> QED
    BY <1>18, <1>19

\* In every state of every run, every variable has its type, the flags of both
\* caches are sound and the usage counters exact.
THEOREM Invariance == Spec => []IInv
<1>1. Init => IInv
    BY InitStep
<1>2. IInv /\ [Next]_vars => IInv'
    BY NextStep
<1> QED
    BY <1>1, <1>2, PTL DEF Spec

\* The flags of both caches are sound for what their parents answer.
THEOREM FlagsAlwaysSound == Spec => []FlagsSound
<1>1. IInv => FlagsSound
    BY DEF IInv
<1> QED
    BY <1>1, Invariance, PTL

\* cachedCoinsUsage of either cache, which every path moves by the statements of
\* its own, never drifts from the sum of what the coins in the map use.
THEOREM UsageAlwaysExact == Spec => []UsageExact
<1>1. IInv => UsageExact
    BY DEF IInv
<1> QED
    BY <1>1, Invariance, PTL

\* The logic_error of CCoinsViewCache::BatchWrite is never thrown: if the view
\* calls a coin FRESH, CoinsTip() answers that there is none.
THEOREM NoFlushThrows == Spec => []FlushNeverThrows
<1>1. IInv => FlushNeverThrows
  <2> SUFFICES ASSUME IInv, NEW k \in Key, FreshMisapplied(tip[k], view[k])
               PROVE  FALSE
    BY DEF FlushNeverThrows
  <2>1. view[k] # NoEntry /\ tip[k] # NoEntry /\ "FRESH" \in view[k].flags /\ tip[k].coin # NoCoin
    BY DEF FreshMisapplied
  <2>2. CASE k \in Outpoint
    <3>1. CoinFlagsSound(view[k], TipCoins[k])
      BY <2>2 DEF IInv, FlagsSound, Sound
    <3>2. TipCoins[k] = tip[k].coin
      BY <2>1, <2>2 DEF TipCoins, CoinsOf
    <3> QED
      BY <2>1, <3>1, <3>2 DEF CoinFlagsSound
  <2>3. CASE k \in Pegin
    <3>1. PeginFlagsSound(tip[k], k, dbPegins)
      BY <2>3 DEF IInv, FlagsSound, Sound
    <3> QED
      BY <2>1, <3>1 DEF PeginFlagsSound
  <2> QED
    BY <2>2, <2>3 DEF Key
<1> QED
    BY <1>1, Invariance, PTL

\* Evicting a clean entry of CoinsTip(), and writing it all to disk, changes no
\* answer of any lookup.
THEOREM EvictionsInvisible == Spec => EvictionInvisible
<1> DEFINE Evict == FlushTip \/ \E o \in Outpoint : Uncache(o)
           Same == UNCHANGED <<TipCoins, ViewCoins, TipPegins, ViewPegins>>
<1>1. IInv /\ [Next]_vars => [Evict => Same]_vars
    BY FlushTipStep, UncacheStep DEF Tip, View
<1> QED
    BY <1>1, Invariance, PTL DEF Spec, EvictionInvisible

\* The stack of caches over the database implements one UTXO set with a working
\* copy.
THEOREM Refinement == Spec => ImplementsUtxoView
<1>1. Init => Abstract!Init
    BY InitStep
<1>2. IInv /\ [Next]_vars => [Abstract!Next]_(Abstract!vars)
    BY NextStep
<1> QED
    BY <1>1, <1>2, Invariance, PTL DEF Spec, ImplementsUtxoView, Abstract!Spec

===============================================================================
