SPECIFICATION FairSpec
CONSTANTS
    w1 = w1  w2 = w2  good1 = good1  good2 = good2  good3 = good3  bad = bad
    Worker = {w1, w2}
    Master = master
    Check = {good1, good2, good3, bad}
    Bad = {bad}
    nBatchSize = 2
    MaxSessions = 2
INVARIANTS
    TypeOK
    VerdictCorrect
    Counted
PROPERTIES
    BlockVerified
    PoolStops
