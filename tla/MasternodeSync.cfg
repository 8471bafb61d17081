CONSTANTS
    SporkIDs = {8}
    Sporks <- MCSporks
    defaultValue <- MCDefaultValue
    AdjustedTime = 2
    None = None
    Peers = {"n1"}
    Current = {"n1"}
    MASTERNODE_SYNC_THRESHOLD = 1
    SPORK_8_MASTERNODE_PAYMENT_ENFORCEMENT = 8
SPECIFICATION Spec
INVARIANT SyncedOnRecentChain
PROPERTIES SporkNeverOlder NoAssetForever
CHECK_DEADLOCK FALSE
