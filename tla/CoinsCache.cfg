CONSTANTS
    o1 = o1
    p1 = p1
    small = small
    big = big
    dead = dead
    b1 = b1
    b2 = b2
    Outpoint = {o1}
    Pegin = {p1}
    CoinValue = {small, big, dead}
    NoCoin = NoCoin
    Unspendable = {dead}
    Usage <- MCUsage
    Block = {b1, b2}
    NullBlock = NullBlock
    NoEntry = NoEntry
SPECIFICATION Spec
INVARIANTS FlagsSound FlushNeverThrows UsageExact
PROPERTIES EvictionInvisible ImplementsUtxoView
