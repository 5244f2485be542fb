CONSTANTS
    SeqSpace = 16
    PathMTU = 2
    MaxWindowSize = 4
    WindowAlign = 2
    ISS = 14
    IRS = 13
    TxSizes = {2}
    MaxTx = 2
    PeerLen = 2
    PeerWins = {0, 2}
    AppWins = {0, 4}
    MaxQueue = 2
    Resets = TRUE
    MemoryLow = TRUE
    EarlySyn = FALSE
SPECIFICATION Spec
INVARIANTS
    ControlSafe PendingExact SequenceInStep DeliveredInOrder NoStall WindowNotified
 
CHECK_DEADLOCK FALSE
