CONSTANTS
    Txs = {"t1", "t2", "t3"}
    vin <- MCVin
    nBlockHeight <- MCHeight
    TooNew = {"t3"}
    Masternodes = {"m1", "m2"}
    Votes <- MCVotes
    Doubtful <- MCDoubtful
    SWIFTTX_SIGNATURES_REQUIRED = 2
    None = None
SPECIFICATION Spec
INVARIANTS NoDoubleCount NoConflictingVotes NoDoubleSpend
