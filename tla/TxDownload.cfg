SPECIFICATION FairSpec
CONSTANTS
    near = near  far = far  coin = coin  coin2 = coin2
    P = P  S = S  C = C  D = D  E = E  hp = hp  hw = hw  hc = hc  hd = hd  he = he
    Peer = {near, far}
    NoPeer = NoPeer
    TxHash = {hp, hw, hc, hd, he, coin, coin2}
    Preferred = {far}
    SaltMax = 2
    Salt <- MCSalt
    Tx <- MCTx
    Txid <- MCTxid
    Wtxid <- MCWtxid
    Inputs <- MCInputs
    Verdict <- MCVerdict
    Big = {}
    MaxOrphans = 2
    WtxidRelay = {near, far}
    Honest = {near}
    Announces <- MCAnnounces
    Sends <- MCSends
    Coin = {coin, coin2}
    RecentCoin = {coin}
    Blocks = {{P}}
    MaxAnnouncements = 1
    MaxInFlight = 1
    MaxBack = 1
INVARIANTS
    TrackerSane
    OrphanageConsistent
    ReadyOrphansQueued
    KnownTxForgotten
PROPERTIES
    ImplementsTracker
    HonestTxArrives
CHECK_DEADLOCK FALSE
