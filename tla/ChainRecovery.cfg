SPECIFICATION Spec
CONSTANTS
    Block <- MCBlock
    Genesis = "g"
    Parent <- MCParent
    Outpoint <- MCOutpoint
    Pegin <- MCPegin
    Txs <- MCTxs
    NoBlock = "none"
    NoUndo = NoUndo
    GenesisOutputs = FALSE
    PruneMode = FALSE
    MinBlocksToKeep = 1
INVARIANTS
    TypeOK
    CoinsRecovered
    ReplayNeverFails
    TipDisconnectable
    OldHeadsMatch
