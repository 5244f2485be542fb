----------------------------- MODULE Neighbour -----------------------------
(***************************************************************************)
(* The neighbour cache (net/neighbour.c) between the network layer, which  *)
(* sends packets to network addresses, the discovery protocols (ARP, NDP), *)
(* which learn link-layer addresses, the retry timers, the network devices *)
(* and the memory allocator, which takes entries away when it runs out.    *)
(***************************************************************************)
EXTENDS NeighbourCache, FiniteSets

CONSTANTS
    Devices, Addrs,   \* network devices and network addresses
    LLAddrs,          \* link-layer addresses
    MaxPackets,       \* bound: packets sent in a behaviour
    LowMemory         \* whether allocations may fail

ASSUME NeighbourConstants ==
    /\ NoAddr \notin LLAddrs /\ MaxPackets \in Nat /\ MaxTries \in Nat
    /\ LowMemory \in BOOLEAN

VARIABLES
    cache,   \* the neighbour cache
    open,    \* the devices that are open
    next     \* number of the next packet

vars == <<cache, open, next>>

Dests == Devices \X Addrs
Packets == 1..MaxPackets
Fates == {"sent", "ETIMEDOUT", "ENODEV", "ENOBUFS", "leaked"}

-----------------------------------------------------------------------------
(* malloc() calls the discarders until the allocation succeeds or nothing  *)
(* is left to discard: Reclaimed(c, n) is the cache after n discards.      *)

Reclaimed(c, n) ==
    LET after[k \in 0..n] ==
            IF k = 0 THEN c
            ELSE IF DiscardsLast(after[k - 1]) THEN neighbour_discard_last(after[k - 1])
            ELSE after[k - 1]
    IN after[n]

Rounds(c) == IF LowMemory THEN 0..Len(c.list) ELSE {0}

\* An allocation: the cache it leaves and whether it succeeds.
Allocations(c) ==
    {<<Reclaimed(c, n), TRUE>> : n \in Rounds(c)}
        \cup (IF LowMemory THEN {<<Reclaimed(c, Len(c.list)), FALSE>>} ELSE {})

\* Sending may itself allocate memory (an Infiniband path lookup does).
Transmitted(c, d, p, n) == Reclaimed(Logged(c, d, <<p>>, "sent"), n)

Init ==
    /\ cache = [list |-> <<>>, total |-> 0, log |-> <<>>]
    /\ open = {} /\ next = 1

\* ipv4_tx() and ipv6_tx() route through open devices only.  When the entry
\* cannot be allocated the packet is neither queued nor freed by anyone.
neighbour_tx(d) ==
    /\ d[1] \in open /\ next <= MaxPackets
    /\ next' = next + 1
    /\ UNCHANGED open
    /\ \E n \in Rounds(cache) :
          \/ /\ Has(cache, d)
             /\ cache' = TxTo(neighbour_find(cache, d), d, next, n)
          \/ /\ ~Has(cache, d)
             /\ \E a \in Allocations(cache) :
                   cache' = IF a[2]
                            THEN TxTo(neighbour_discover(neighbour_create(a[1], d), d),
                                      d, next, n)
                            ELSE Logged(a[1], d, <<next>>, "leaked")

\* An ARP packet or a neighbour advertisement; unknown senders are ignored.
neighbour_update(d, ll) ==
    /\ d[1] \in open /\ Has(cache, d)
    /\ \E n \in Rounds(cache) :
          cache' = neighbour_discovered(neighbour_find(cache, d), d, ll, n)
    /\ UNCHANGED <<open, next>>

\* A neighbour solicitation or router advertisement; the sender is added.
neighbour_define(d, ll) ==
    /\ d[1] \in open
    /\ \E n \in Rounds(cache) :
          \/ /\ Has(cache, d)
             /\ cache' = neighbour_discovered(neighbour_find(cache, d), d, ll, n)
          \/ /\ ~Has(cache, d)
             /\ \E a \in Allocations(cache) :
                   cache' = IF a[2]
                            THEN neighbour_discovered(neighbour_create(a[1], d), d, ll, n)
                            ELSE a[1]
    /\ UNCHANGED <<open, next>>

\* The retry timer of the entry expires; sending the request allocates a
\* packet, after the timer has been restarted.
Expire(d) ==
    /\ Has(cache, d) /\ Entry(cache, d).timer
    /\ \E n \in Rounds(cache) : cache' = Reclaimed(neighbour_expired(cache, d), n)
    /\ UNCHANGED <<open, next>>

netdev_open(dev) ==
    /\ dev \notin open
    /\ open' = open \cup {dev}
    /\ UNCHANGED <<cache, next>>

\* netdev_close() notifies the cache, and so does any other change of the
\* state of a device that is closed (its link going up, say).
netdev_close(dev) ==
    /\ dev \in open
    /\ open' = open \ {dev}
    /\ cache' = neighbour_flush(cache)
    /\ UNCHANGED next

netdev_notify(dev) ==
    /\ dev \notin open
    /\ cache' = neighbour_flush(cache)
    /\ UNCHANGED <<open, next>>

\* Any other allocation that finds memory short.
Pressure ==
    /\ LowMemory
    /\ \E n \in Rounds(cache) : cache' = Reclaimed(cache, n)
    /\ UNCHANGED <<open, next>>

Next ==
    \/ \E d \in Dests : neighbour_tx(d) \/ Expire(d)
    \/ \E d \in Dests, ll \in LLAddrs : neighbour_update(d, ll) \/ neighbour_define(d, ll)
    \/ \E dev \in Devices : netdev_open(dev) \/ netdev_close(dev) \/ netdev_notify(dev)
    \/ Pressure

\* The retry timer process polls every running timer (see RetryTimer).
Spec == Init /\ [][Next]_vars /\ \A d \in Dests : WF_vars(Expire(d))

-----------------------------------------------------------------------------
(* Properties.                                                             *)

\* An entry is for one destination, has an address or none, is retried no
\* more than MaxTries times, and holds packets that neighbour_tx() was given.
TypeOK ==
    /\ \A i \in DOMAIN cache.list :
          /\ cache.list[i].dest \in Dests
          /\ cache.list[i].ll \in LLAddrs \cup {NoAddr}
          /\ cache.list[i].timer \in BOOLEAN
          /\ cache.list[i].tries \in 0..MaxTries
          /\ \A k \in DOMAIN cache.list[i].queue : cache.list[i].queue[k] \in 1..(next - 1)
    /\ cache.total \in Nat
    /\ \A k \in DOMAIN cache.log : cache.log[k] \in Packets \X Dests \X Fates
    /\ open \subseteq Devices /\ next \in 1..(MaxPackets + 1)

\* neighbour_find() returns the only entry for a destination, and
\* total_neighbours, which decides whether entries may be discarded, is the
\* length of the list, whatever the order of creation and destruction.
OneEntryEach ==
    /\ TypeOK
    /\ \A i, j \in DOMAIN cache.list :
          cache.list[i].dest = cache.list[j].dest => i = j
    /\ cache.total = Len(cache.list)

\* Besides, neighbour_has_ll_dest() takes a stopped timer to mean a known
\* address: no entry ever has a stopped timer and the all-zeroes address, and packets
\* wait only where a timer is running to end the wait.
EntriesExact ==
    OneEntryEach /\
    \A i \in DOMAIN cache.list :
        /\ cache.list[i].timer <=> cache.list[i].ll = NoAddr
        /\ cache.list[i].queue # <<>> => cache.list[i].timer

\* Packets to one destination are sent in the order in which neighbour_tx()
\* was given them, also across the end of discovery and a new discovery.
InOrder ==
    \A i, j \in DOMAIN cache.log :
        /\ i < j
        /\ cache.log[i][2] = cache.log[j][2]
        /\ cache.log[i][3] = "sent" /\ cache.log[j][3] = "sent"
        => cache.log[i][1] < cache.log[j][1]

Places(p) ==
    {<<i, k>> \in (DOMAIN cache.list) \X Packets :
        k \in DOMAIN cache.list[i].queue /\ cache.list[i].queue[k] = p}
        \cup {<<0, k>> : k \in {l \in DOMAIN cache.log : cache.log[l][1] = p}}

\* A packet given to neighbour_tx() is in one place: waiting in one entry,
\* or out of the cache with one fate; none is sent twice or freed twice, and
\* those for one destination are sent in order.
SentOnceInOrder == InOrder /\ \A p \in 1..(next - 1) : Cardinality(Places(p)) = 1

Waiting(p) ==
    \E i \in DOMAIN cache.list : \E k \in DOMAIN cache.list[i].queue :
        cache.list[i].queue[k] = p

\* A packet that waits for discovery is sent or freed in the end: the timer
\* is restarted at each expiry and gives up after a bounded number of them.
WaitEnds == \A p \in Packets : []<>~Waiting(p)
=============================================================================
