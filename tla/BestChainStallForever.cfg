SPECIFICATION FairSpec
CONSTANTS
    g = g  a1 = a1  a2 = a2  b1 = b1  b2 = b2  b3 = b3
    NoBlock = NoBlock
    Block <- MCBlock
    Genesis = g
    Parent <- MCParent
    Address <- MCAddress
    Unconnectable = {}
    Malformed = {}
    Unripe = {b2}
    Invalidatable = {}
    Reconsiderable = {}
    Preciousable = {}
    MaxPrecious = 0
    MaxRestarts = 0
PROPERTIES
    BestChainActivated
