CONSTANTS
    Devices = {n1, n2}
    Addrs = {a1, a2}
    LLAddrs = {m1}
    NoAddr = zero
    net_tx <- Transmitted
    MaxTries = 1
    MaxPackets = 2
    LowMemory = TRUE
    Sources = {s1, s2}
    Idents = {i1, i2}
    Length = 3
    MaxBuffers = 3
    RingSize = 2
    MaxFrames = 5
    MaxRx = 1
SPECIFICATION NetSpec
INVARIANTS
    EntriesExact
    SentInOrder
    TimersAreBuffers
    ReturnedWhole
    
PROPERTIES
    PacketsMoveOn
