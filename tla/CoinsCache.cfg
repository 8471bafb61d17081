CONSTANTS
    x1 = x1
    x2 = x2
    spent = spent
    one = one
    two = two
    h1 = h1
    h2 = h2
    NoHash = NoHash
    NoEntry = NoEntry
    Txids <- MCTxids
    Coins <- MCCoins
    Pruned <- spent
    Hashes <- MCHashes
SPECIFICATION Spec
INVARIANTS TypeOK FreshMeansAbsent BatchWriteAssertion
PROPERTY ImplementsCoinsView
