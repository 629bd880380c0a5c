SPECIFICATION Spec
CONSTANTS
    A = A  B = B  G = G
    x = x  y = y  r = r  p1 = p1  p2 = p2  q = q  o = o
    coin1 = coin1  coin2 = coin2  coin3 = coin3  pegin = pegin
    x1 = x1  x2 = x2  g1 = g1
    Param = {A, B, G}
    NoParam = NoParam
    GenesisParam = G
    EpochLength = 3
    TotalValidEpochs = 2
    Activation = 1
    Tx <- MCTx
    NoTx = NoTx
    Coin = {coin1, coin2, coin3}
    Inputs <- MCInputs
    Outputs <- MCOutputs
    Pegins <- MCPegins
    Fedpeg <- MCFedpeg
    Pegout <- MCPegout
    Matures <- MCMatures
    Standard = {x, y, r, p1, p2, q, o}
    Replaceable = {x}
    Fee <- MCFee
    Order <- MCOrder
    InitChains <- MCInitChains
    Blocks = {{}, {x}, {x, p2}, {x, y}, {y}, {o}}
    Votes = {B, NoParam}
    Prioritised = {y}
    Expirable = {x}
    IncrementalFee = 1
    MaxAncestors = 3
    MaxDescendants = 2
    MaxReplaced = 100
    MaxPool = 3
    MaxDisconnected = 2
    MaxHeight = 6
INVARIANTS
    PoolConsistent
    PoolMinable
    ParamsFollowVotes
PROPERTIES
    ResurrectedKept
    NextBlockRules
