----------------------------- MODULE NetDevice -----------------------------
(***************************************************************************)
(* The packet queues of a network device (net/netdevice.c) over a driver   *)
(* that uses netdev_tx_defer(): a transmit ring of RingSize descriptors,   *)
(* as in drivers/net/realtek.c, or the single buffer of efi/snpnet.c.      *)
(*                                                                         *)
(* Packets are numbered in the order in which netdev_tx() is called.  The  *)
(* queues that the functions of netdevice.c pass packets between are the   *)
(* fields of dev; netdev_tx() and netdev_tx_complete_err() call each other *)
(* and are operators on it.  "bad" is the set of packets that the driver's *)
(* transmit() refuses although it has room for them.                       *)
(*                                                                         *)
(* A definition Name_Variant before Name is a plausible mistake in it.     *)
(***************************************************************************)
EXTENDS Integers, Sequences, FiniteSets, SequencesExt

CONSTANTS
    RingSize,    \* descriptors of the driver
    MaxPackets,  \* bound: packets transmitted in a behaviour
    MaxRx,       \* bound: packets in the receive queue
    LowMemory    \* whether the cache discarder may be called

VARIABLES
    dev,      \* the device and its driver
    hwdone,   \* packets of the ring that the card has finished with
    next      \* number of the next packet

vars == <<dev, hwdone, next>>

Packets == 1..MaxPackets

\* sent and freed are history: the packets given to the card, in order, and
\* the packets whose memory has been released.
Device ==
    [open : BOOLEAN, frozen : BOOLEAN, tx_queue : Seq(Packets), tx_deferred : Seq(Packets),
     ring : Seq(Packets), rx_queue : 0..MaxRx,
     sent : Seq(Packets), freed : Seq(Packets)]

Released(d, p) == [d EXCEPT !.freed = Append(@, p)]

-----------------------------------------------------------------------------
(* Transmission.                                                           *)

netdev_tx_defer(d, p) ==
    [d EXCEPT !.tx_queue = Remove(@, p), !.tx_deferred = Append(@, p)]

\* The driver's transmit(): no room, refused, or on the ring.
Full(d) == Len(d.ring) >= RingSize

OnRing(d, p) == [d EXCEPT !.ring = Append(@, p), !.sent = Append(@, p)]

RECURSIVE netdev_tx(_, _, _), netdev_tx_complete_err(_, _, _), netdev_tx_flush(_)

netdev_tx_complete_err_Leak(d, p, bad) ==
    LET c == [d EXCEPT !.tx_queue = Remove(@, p)] IN
    IF c.tx_deferred = <<>> THEN c
    ELSE netdev_tx([c EXCEPT !.tx_deferred = Tail(@)], Head(c.tx_deferred), bad)

netdev_tx_complete_err_Last(d, p, bad) ==
    LET c == Released([d EXCEPT !.tx_queue = Remove(@, p)], p) IN
    IF c.tx_deferred = <<>> THEN c
    ELSE netdev_tx([c EXCEPT !.tx_deferred = Front(@)], Last(c.tx_deferred), bad)

\* The queue entry goes and the first deferred packet is tried again.
netdev_tx_complete_err(d, p, bad) ==
    LET c == Released([d EXCEPT !.tx_queue = Remove(@, p)], p) IN
    IF c.tx_deferred = <<>> THEN c
    ELSE netdev_tx([c EXCEPT !.tx_deferred = Tail(@)], Head(c.tx_deferred), bad)

netdev_tx(d, p, bad) ==
    LET q == [d EXCEPT !.tx_queue = Append(@, p)] IN
    IF ~q.open THEN netdev_tx_complete_err(q, p, bad)
    ELSE IF Full(q) THEN netdev_tx_defer(q, p)
    ELSE IF p \in bad THEN netdev_tx_complete_err(q, p, bad)
    ELSE OnRing(q, p)

netdev_tx_complete_next_err(d, bad) ==
    IF d.tx_queue = <<>> THEN d ELSE netdev_tx_complete_err(d, Head(d.tx_queue), bad)

netdev_tx_flush(d) ==
    IF d.tx_queue = <<>> THEN d
    ELSE netdev_tx_flush(netdev_tx_complete_next_err(d, {}))

\* realtek_poll_tx(): for each finished descriptor, free the descriptor, then
\* complete the packet.
RECURSIVE PollTx(_, _, _)
PollTx(d, n, bad) ==
    IF n = 0 THEN d
    ELSE PollTx(netdev_tx_complete_next_err([d EXCEPT !.ring = Tail(@)], bad), n - 1, bad)

-----------------------------------------------------------------------------
Init ==
    /\ dev = [open |-> FALSE, frozen |-> FALSE, tx_queue |-> <<>>, tx_deferred |-> <<>>,
              ring |-> <<>>, rx_queue |-> 0, sent |-> <<>>, freed |-> <<>>]
    /\ hwdone = 0
    /\ next = 1

\* A refused open leaves the device closed, as it was.
netdev_open ==
    /\ ~dev.open
    /\ dev' = [dev EXCEPT !.open = TRUE]
    /\ UNCHANGED <<hwdone, next>>

\* Marked closed, stopped, flushed.  The card lets go of the ring.
Closed_RingKept(d) == netdev_tx_flush([d EXCEPT !.open = FALSE])
Closed(d) == netdev_tx_flush([d EXCEPT !.open = FALSE, !.ring = <<>>])

netdev_close ==
    /\ dev.open
    /\ dev' = [Closed(dev) EXCEPT !.rx_queue = 0]
    /\ hwdone' = 0
    /\ UNCHANGED next

\* net_tx(): the network layer sends a packet.
NetTx(bad) ==
    /\ next <= MaxPackets
    /\ dev' = netdev_tx(dev, next, bad)
    /\ next' = next + 1
    /\ UNCHANGED hwdone

\* The card has sent one more packet of the ring.
CardSends ==
    /\ dev.open /\ hwdone < Len(dev.ring)
    /\ hwdone' = hwdone + 1
    /\ UNCHANGED <<dev, next>>

netdev_rx_freeze(frozen) ==
    /\ dev' = [dev EXCEPT !.frozen = frozen]
    /\ dev' # dev
    /\ UNCHANGED <<hwdone, next>>

\* Poll the driver, then hand a received packet to the network layer, unless
\* reception is frozen.  A closed device is not polled.
PollDriver_RxOnly(d, n, bad) ==
    IF d.open THEN [d EXCEPT !.rx_queue = @ + n] ELSE d

PollDriver(d, n, bad) ==
    IF d.open THEN [PollTx(d, hwdone, bad) EXCEPT !.rx_queue = @ + n] ELSE d

net_poll(n, bad) ==
    /\ dev.rx_queue + n <= MaxRx
    /\ LET d == PollDriver(dev, n, bad) IN
       dev' = IF d.frozen \/ d.rx_queue = 0 THEN d ELSE [d EXCEPT !.rx_queue = @ - 1]
    /\ hwdone' = 0
    /\ UNCHANGED next

\* The cache discarder frees the first deferred packet.
net_discard ==
    /\ LowMemory /\ dev.tx_deferred # <<>>
    /\ dev' = Released([dev EXCEPT !.tx_deferred = Tail(@)], Head(dev.tx_deferred))
    /\ UNCHANGED <<hwdone, next>>

Next ==
    \/ netdev_open \/ netdev_close \/ CardSends \/ net_discard
    \/ \E frozen \in BOOLEAN : netdev_rx_freeze(frozen)
    \/ \E bad \in SUBSET Packets : NetTx(bad) \/ \E n \in 0..MaxRx : net_poll(n, bad)

\* The network stack is a permanent process, and the card sends what it has.
Fairness ==
    /\ WF_vars(CardSends)
    /\ WF_vars(\E bad \in SUBSET Packets, n \in 0..MaxRx : net_poll(n, bad))

-----------------------------------------------------------------------------
(* Properties.                                                             *)

TypeOK == dev \in Device /\ hwdone \in 0..RingSize /\ next \in 1..(MaxPackets + 1)

\* The packets on the transmit queue are those the card owns, in the card's
\* order, so netdev_tx_complete_next() frees the packet the card has finished
\* with and never one that it is still reading.  Packets wait in the deferred
\* queue only while the ring is full: the next completion takes them out, and
\* netdev_tx_flush(), which only looks at the transmit queue, leaves none
\* behind (netdevice.c:397).
QueueIsRing ==
    /\ TypeOK
    /\ dev.tx_queue = dev.ring
    /\ dev.tx_deferred # <<>> => dev.open /\ Full(dev)

\* Packets reach the card in the order in which they were sent, also those
\* that were deferred in between (netdevice.c:293).
WireInOrder == \A i, j \in 1..Len(dev.sent) : i < j => dev.sent[i] < dev.sent[j]

\* The memory of every packet is released exactly once: a packet is in one of
\* the queues or has been released, not both and not neither.
ReleasedOnce ==
    LET held == dev.tx_queue \o dev.tx_deferred \o dev.freed
    IN /\ \A p \in 1..(next - 1) : \E i \in 1..Len(held) : held[i] = p
       /\ Len(held) = next - 1

\* Every packet that is queued or deferred is released in the end: again and
\* again all the packets sent so far have been.
EventuallyReleased == []<>(\A p \in 1..(next - 1) : \E i \in 1..Len(dev.freed) : dev.freed[i] = p)
=============================================================================
