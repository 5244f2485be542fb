CONSTANTS
    Schemes = {"tftp", "tftpsize", "tftm", "mtftp"}
    Length = 3
    DefaultSize = 1
    BlockSizes = {2, 3}
    BlockSpace = 8
    MTFTP_MAX_TIMEOUTS = 1
    Tids = {p1, p2}
    NoTid = zero
    MaxLate = 3
    LateFallback = FALSE
    MaxPackets = 5
    Transactions <- TwoFiles
    SLAM_MAX_BLOCKS_PER_NACK = 2
    MaxSlamPackets = 5
    TICKS_PER_SEC = 18
    s1 = s1
    s2 = s2
    s3 = s3
    a1 = a1
    a2 = a2
    a3 = a3
    b1 = b1
    b2 = b2
    b3 = b3
    Offers <- MCOffers
    BootServers = {b1, b2, b3}
    ServerList <- MCServerList
    NoAddr = zero
    Broadcast = bcast
    Multicast = mcast
    NoPacket = nopkt
    Xids = 2
    MaxReplies = 4
SPECIFICATION ClientsSpec
INVARIANTS
     SlamClosedCleanly NackAsksMissing
    LeaseConfirmed GivesUpFirst BootServersTried
PROPERTY JobsEnd
CHECK_DEADLOCK FALSE
