CONSTANTS
    g = g
    a1 = a1
    b1 = b1
    b2 = b2
    b3 = b3
    c3 = c3
    t1 = t1
    t2 = t2
    NoBlock = NoBlock
    Genesis <- g
    Blocks <- MCBlocks
    Parent <- MCParent
    Path <- MCPath
    Height <- MCHeight
    ChainWork <- MCChainWork
    Stake <- MCStake
    BadContext <- MCBadContext
    BadConnect <- MCBadConnect
    MaxReorg = 1
    Addresses <- MCAddresses
    Threads <- MCThreads
    Allowed <- MCCommands
SPECIFICATION Spec
INVARIANTS MostWorkActive
CHECK_DEADLOCK FALSE
