------------------------------- MODULE Ipoib -------------------------------
(***************************************************************************)
(* IP over Infiniband (drivers/net/ipoib.c) and the two caches it needs to *)
(* reach a peer: the neighbour cache, from IP address to a six-byte remote *)
(* Ethernet MAC (REMAC) that stands for the peer, and the driver's own     *)
(* REMAC cache, from REMAC to the twenty-byte Infiniband address.  Each    *)
(* gives up entries when memory runs out (core/malloc.c).                  *)
(*                                                                         *)
(* One device; peers are known by IP address, and Remac[ip] is the port an *)
(* address is reached through (two addresses may share a port).            *)
(***************************************************************************)
EXTENDS NeighbourCache

CONSTANTS
    IPs, Remacs,
    Remac,          \* [IPs -> Remacs]
    IpoibFirst,     \* whether the linker puts ipoib's discarder first
    MaxRx,          \* bound: packets in the receive queue
    MaxQueue        \* bound: IP packets that wait for one address

ASSUME IpoibConstants ==
    /\ Remac \in [IPs -> Remacs] /\ NoAddr \notin Remacs
    /\ IpoibFirst \in BOOLEAN
    /\ MaxRx \in Nat \ {0} /\ MaxQueue \in Nat \ {0} /\ MaxTries \in Nat

VARIABLES
    sys,     \* both caches: list, total, peers, total_peers, and log
    rx,      \* the ARP packets in the device's receive queue
    open     \* whether the device is open

vars == <<sys, rx, open>>

\* IP packets are all alike; the log is that of the last step only.
Packet == 1
Now == [sys EXCEPT !.log = <<>>]

-----------------------------------------------------------------------------
(* The REMAC cache, most recently used first.                              *)

Known(c, remac) == Contains(c.peers, remac)

ipoib_find_remac(c, remac) == [c EXCEPT !.peers = <<remac>> \o Remove(@, remac)]

ipoib_add_peer(c, remac) ==
    [c EXCEPT !.peers = <<remac>> \o @, !.total_peers = @ + 1]

ipoib_remove_peer(c, remac) ==
    IF c.total_peers = 0 THEN c
    ELSE [c EXCEPT !.peers = Remove(@, remac), !.total_peers = @ - 1]

ipoib_flush_remac(c) == FoldLeft(ipoib_remove_peer, c, c.peers)

IPOIB_MIN_DROP_CACHE == 3
DiscardsRemac(c) == c.peers # <<>> /\ c.total_peers >= IPOIB_MIN_DROP_CACHE

\* The oldest REMAC goes, and with it the neighbour that uses it.
ipoib_discard_remac_Alone(c) == ipoib_remove_peer(c, Last(c.peers))
ipoib_discard_remac(c) ==
    neighbour_discard(ipoib_remove_peer(c, Last(c.peers)), Last(c.peers))

\* The discarders are tried in turn, until one of them discards something.
discard_cache(c) ==
    IF DiscardsRemac(c) /\ (IpoibFirst \/ ~DiscardsLast(c)) THEN ipoib_discard_remac(c)
    ELSE IF DiscardsLast(c) THEN neighbour_discard_last(c)
    ELSE c

Reclaimed(c, n) ==
    LET after[k \in 0..n] == IF k = 0 THEN c ELSE discard_cache(after[k - 1])
    IN after[n]

MaxRounds(c) == Len(c.list) + Len(c.peers)
Rounds(c) == 0..MaxRounds(c)

Allocations(c) ==
    {<<Reclaimed(c, n), TRUE>> : n \in Rounds(c)}
        \cup {<<Reclaimed(c, MaxRounds(c)), FALSE>>}

-----------------------------------------------------------------------------
(* Transmission.  Looking up the path to a peer may allocate memory.  (The *)
(* lookup also loses packets until the subnet manager has answered; that   *)
(* changes nothing here.)                                                  *)

ipoib_transmit(c, ip, remac, n) ==
    IF ~Known(c, remac) THEN Logged(c, ip, <<Packet>>, "ENXIO")
    ELSE Logged(Reclaimed(ipoib_find_remac(c, remac), n), ip, <<Packet>>, "sent")

\* net_tx() of an IP packet: to the REMAC in the neighbour's entry
Transmitted(c, ip, p, n) == ipoib_transmit(c, ip, Entry(c, ip).ll, n)

Init ==
    /\ sys = [list |-> <<>>, total |-> 0, log |-> <<>>, peers |-> <<>>, total_peers |-> 0]
    /\ rx = <<>> /\ open = FALSE

ipoib_open ==
    /\ ~open /\ open' = TRUE
    /\ sys' = Now
    /\ UNCHANGED rx

\* netdev_close() notifies the neighbour cache and flushes the receive queue.
ipoib_close ==
    /\ open /\ open' = FALSE /\ rx' = <<>>
    /\ sys' = ipoib_flush_remac(neighbour_flush(Now))

\* An ARP packet from the peer at ip: its REMAC is mapped at once, the packet
\* is left in the receive queue; it is dropped if the REMAC finds no memory.
ipoib_map_remac(c, remac) ==
    IF Known(c, remac) THEN ipoib_find_remac(c, remac) ELSE ipoib_add_peer(c, remac)

ipoib_complete_recv(ip, request) ==
    /\ open /\ Len(rx) < MaxRx
    /\ \E a \in IF Known(sys, Remac[ip]) THEN {<<Now, TRUE>>} ELSE Allocations(Now) :
          IF a[2] THEN /\ sys' = ipoib_map_remac(a[1], Remac[ip])
                       /\ rx' = Append(rx, [ip |-> ip, request |-> request])
          ELSE sys' = a[1] /\ rx' = rx
    /\ UNCHANGED open

\* net_poll() gives the oldest packet to arp_rx(): the sender's entry, if
\* any, is updated; a request for our address is turned round and sent to
\* the REMAC it came from, if that is still known by then.
Updated(arp, n) ==
    IF ~Has(sys, arp.ip) THEN Now
    ELSE neighbour_discovered(neighbour_find(Now, arp.ip), arp.ip, Remac[arp.ip], n)

arp_rx ==
    /\ rx # <<>>
    /\ rx' = Tail(rx)
    /\ LET arp == Head(rx) IN
       \E n \in Rounds(sys) :
          LET c == Updated(arp, n) IN
          sys' = IF arp.request /\ Known(c, Remac[arp.ip])
                 THEN ipoib_find_remac(c, Remac[arp.ip])
                 ELSE c
    /\ UNCHANGED open

\* An IP packet for a peer; without memory for an entry it is not queued.
ipv4_tx(ip) ==
    /\ open
    /\ \E n \in Rounds(sys) :
          \/ /\ Has(sys, ip) /\ Len(Entry(sys, ip).queue) < MaxQueue
             /\ sys' = TxTo(neighbour_find(Now, ip), ip, Packet, n)
          \/ /\ ~Has(sys, ip)
             /\ \E a \in Allocations(Now) :
                   sys' = IF a[2]
                          THEN TxTo(neighbour_discover(neighbour_create(a[1], ip), ip),
                                    ip, Packet, n)
                          ELSE Logged(a[1], ip, <<Packet>>, "leaked")
    /\ UNCHANGED <<rx, open>>

\* The discovery timer of an entry; the request is broadcast.
Expire(ip) ==
    /\ Has(sys, ip) /\ Entry(sys, ip).timer
    /\ \E n \in Rounds(sys) : sys' = Reclaimed(neighbour_expired(Now, ip), n)
    /\ UNCHANGED <<rx, open>>

\* Any other allocation, such as refilling the receive queue of the port.
Pressure ==
    /\ \E n \in Rounds(sys) : sys' = Reclaimed(Now, n)
    /\ UNCHANGED <<rx, open>>

Next ==
    \/ ipoib_open \/ ipoib_close \/ arp_rx \/ Pressure
    \/ \E ip \in IPs :
          \/ ipv4_tx(ip) \/ Expire(ip)
          \/ \E request \in BOOLEAN : ipoib_complete_recv(ip, request)

Spec == Init /\ [][Next]_vars

-----------------------------------------------------------------------------
(* Properties.                                                             *)

Fates == {"sent", "ENXIO", "ETIMEDOUT", "ENODEV", "ENOBUFS", "leaked"}

\* The caches hold addresses of the right kind, and nothing is received or
\* cached by a device that is closed.
TypeOK ==
    /\ \A i \in DOMAIN sys.list : /\ sys.list[i].dest \in IPs
                                  /\ sys.list[i].ll \in Remacs \cup {NoAddr}
    /\ \A i \in DOMAIN sys.peers : sys.peers[i] \in Remacs
    /\ \A k \in DOMAIN sys.log : sys.log[k] \in {Packet} \X IPs \X Fates
    /\ \A i \in DOMAIN rx : rx[i] \in [ip : IPs, request : BOOLEAN]
    /\ ~open => rx = <<>> /\ sys.list = <<>> /\ sys.peers = <<>>

\* Each REMAC is in the cache once, and total_peers, which decides whether
\* entries may be discarded, is the length of the list.
OnePeerEach ==
    /\ TypeOK
    /\ \A i, j \in DOMAIN sys.peers : sys.peers[i] = sys.peers[j] => i = j
    /\ sys.total_peers = Len(sys.peers)

\* What the work-around in ipoib_discard_remac() is for: a REMAC that is
\* discarded takes the neighbour that relies on it along, whichever discarder
\* runs first and whatever is being sent, received or expiring meanwhile.
RemacTakesNeighbour ==
    [][\A i \in DOMAIN sys.list, j \in DOMAIN sys'.list :
          /\ ~sys.list[i].timer /\ ~sys'.list[j].timer
          /\ sys.list[i].dest = sys'.list[j].dest /\ sys.list[i].ll = sys'.list[j].ll
          /\ Known(sys, sys.list[i].ll)
          => Known(sys', sys'.list[j].ll)]_vars

\* The work-around in ipoib_discard_remac(): "malloc() may discard a remac but
\* not the corresponfing ARP neighbour, as a result the download process may
\* get stuck".  A neighbour that is taken to be known has its REMAC: packets
\* to it are not refused until the entry happens to be renewed.
NeighbourHasRemac ==
    \A i \in DOMAIN sys.list : ~sys.list[i].timer => Known(sys, sys.list[i].ll)

\* The two discarders working on each other's cache never cost a packet that
\* waits for an address, not even while the queue it is in is being sent, and
\* leave total_peers, by which ipoib_discard_remac() goes, exact.
PressureSparesPackets ==
    /\ OnePeerEach
    /\ \A k \in DOMAIN sys.log : sys.log[k][3] # "ENOBUFS"
=============================================================================
