CONSTANTS
    Blocks = {"g", "a1", "b1", "b2", "b3", "c3", "x2"}
    Genesis = "g"
    Parent <- MCParent
    Ancestors <- MCAncestors
    nHeight <- MCHeight
    nChainWork <- MCWork
    ProofOfStake <- MCStake
    Refused <- MCRefused
    Bad <- MCBad
    Loaded = {"g", "a1", "b1", "b2", "b3"}
    Stored = {"g", "a1", "b1"}
    Peers = {"out", "out2"}
    Offers <- MCOffers
    Submits = {"b2", "c3"}
    Kind <- MCKind
    BLOCK_DOWNLOAD_WINDOW = 1
    MAX_BLOCKS_IN_TRANSIT_PER_PEER = 1
    None = None
SPECIFICATION Spec
CHECK_DEADLOCK FALSE
INVARIANTS TypeOK InFlightConsistent PeerCountersExact LastCommonIsFull StallerOwes
