SPECIFICATION Spec
CONSTANTS
    Block <- MCBlock
    Genesis = "g"
    Parent <- MCParent
    Outpoint <- MCOutpoint
    Pegin <- MCPegin
    Txs <- MCPeginTxs
    NoBlock = "none"
    NoUndo = NoUndo
    GenesisOutputs = FALSE
    PruneMode = FALSE
    MinBlocksToKeep = 1
INVARIANT PeginsRecovered
