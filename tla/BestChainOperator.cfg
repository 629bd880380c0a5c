SPECIFICATION Spec
CONSTANTS
    g = g  a1 = a1  a2 = a2  b1 = b1  b2 = b2  b3 = b3
    NoBlock = NoBlock
    Block <- MCBlock
    Genesis = g
    Parent <- MCParent
    Address <- MCAddress
    Unconnectable = {}
    Malformed = {a2}
    Unripe = {b2}
    Invalidatable = {a1, b2}
    Reconsiderable = {a1, b2}
    Preciousable = {}
    MaxPrecious = 0
    MaxRestarts = 0
INVARIANTS
    CandidatesSound
    FailedBlocksMarked
    TipNotFailed
