CONSTANTS
    Schemes = {"tftp", "tftm"}
    Length = 7
    DefaultSize = 1
    BlockSizes = {1}
    BlockSpace = 4
    MTFTP_MAX_TIMEOUTS = 1
    Tids = {p1}
    NoTid = zero
    MaxLate = 1
    LateFallback = FALSE
    MaxPackets = 9
SPECIFICATION TftpSpec
INVARIANT SuccessMeansWhole
CHECK_DEADLOCK FALSE
