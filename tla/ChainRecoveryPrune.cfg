SPECIFICATION Spec
CONSTANTS
    Block <- MCBlock
    Genesis = "g"
    Parent <- MCParent
    Outpoint <- MCOutpoint
    Pegin <- MCPegin
    Txs <- MCTxs
    NoBlock = "none"
    NoUndo = NoUndo
    GenesisOutputs = FALSE
    PruneMode = TRUE
    MinBlocksToKeep = 1
INVARIANT ReplayNeverFails
