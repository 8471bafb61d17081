CONSTANTS
    Txids <- MCTxids
    Kind <- MCKindStake
    Inputs <- MCInputs
    Outputs <- MCOutputs
    ScriptSigHeight <- MCScriptSigHeight
    Blocks <- MCBlocks
    nCoinbaseMaturity = 2
    MaxHeight = 5
SPECIFICATION Spec
INVARIANTS DisconnectSucceeds
