SPECIFICATION FairSpec
CONSTANTS
    g = g  a1 = a1  a2 = a2  b1 = b1  b2 = b2  b3 = b3
    NoBlock = NoBlock
    Block <- MCBlock
    Genesis = g
    Parent <- MCParent
    Address <- MCAddress
    Unconnectable = {b2}
    Malformed = {}
    Unripe = {}
    Invalidatable = {a1}
    Reconsiderable = {}
    Preciousable = {b2}
    MaxPrecious = 1
    MaxRestarts = 1
INVARIANTS
    CandidatesComplete
    UnlinkedExact
    FailureHasCause
    TipIsMostWork
PROPERTIES
    ForwardProgress
    BestChainActivated
