CONSTANTS
    ip1 = ip1  ip2 = ip2  ip3 = ip3  ip4 = ip4
    mac1 = mac1  mac2 = mac2  mac3 = mac3  mac4 = mac4
    IPs = {ip1, ip2, ip3, ip4}
    Remacs = {mac1, mac2, mac3, mac4}
    Remac <- OnePortEach
    NoAddr = zero
    net_tx <- Transmitted
    MaxTries = 0
    IpoibFirst = TRUE
    MaxRx = 1
    MaxQueue = 1
SPECIFICATION Spec
INVARIANT
    NeighbourHasRemac
