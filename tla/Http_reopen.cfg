CONSTANTS
    FileLength = 2
    MaxRefusals = 0
    MaxReads = 2
    EarlyRefusals = FALSE
SPECIFICATION HttpSpec
INVARIANT SocketReopened
CHECK_DEADLOCK FALSE
