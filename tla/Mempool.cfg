CONSTANTS
    Txids <- MCTxids
    Kind <- MCKind
    Inputs <- MCInputs
    Outputs <- MCOutputs
    ScriptSigHeight <- MCScriptSigHeight
    Blocks <- MCBlocks
    nCoinbaseMaturity = 2
    MaxHeight = 5
    Peers = {"q1", "q2"}
    BadScript = {"x"}
    Doubtful = {"p"}
    nMaxOrphanTx = 2
    None = "none"
SPECIFICATION PoolSpec
INVARIANTS UtxoMatchesChain DisconnectSucceeds PoolCheck OrphanMapsAgree OrphansResolved
PROPERTY RemovalJustified
CHECK_DEADLOCK FALSE
