-------------------------------- MODULE Net --------------------------------
(***************************************************************************)
(* The network layer over a network device: the neighbour cache on the way *)
(* out, the reassembly buffers on the way in, and the packet queues of a   *)
(* device (names Dev!...).  They share nothing but memory, which each      *)
(* finds short at any moment, so in a behaviour all but one are idle.      *)
(***************************************************************************)
EXTENDS Neighbour, Fragment

CONSTANTS
    RingSize,    \* descriptors of the driver
    MaxFrames,   \* bound: packets sent through the device in a behaviour
    MaxRx        \* bound: packets in the receive queue of the device

ASSUME DeviceConstants == RingSize \in Nat \ {0} /\ MaxFrames \in Nat /\ MaxRx \in Nat

VARIABLES dev, hwdone, frame   \* the device, of module NetDevice

Dev == INSTANCE NetDevice WITH MaxPackets <- MaxFrames, next <- frame

devVars == <<dev, hwdone, frame>>

NetInit == Init /\ FragInit /\ Dev!Init

NetNext ==
    \/ Next /\ FragInit /\ Dev!Init /\ UNCHANGED <<fragVars, devVars>>
    \/ FragNext /\ Init /\ Dev!Init /\ UNCHANGED <<vars, devVars>>
    \/ Dev!Next /\ Init /\ FragInit /\ UNCHANGED <<vars, fragVars>>

\* The retry timer process polls every running timer (see RetryTimer).
NetSpec ==
    /\ NetInit /\ [][NetNext]_<<vars, fragVars, devVars>>
    /\ \A d \in Dests : WF_vars(Expire(d) /\ UNCHANGED <<fragVars, devVars>>)
    /\ Dev!Fairness

-----------------------------------------------------------------------------
(* Properties.                                                             *)

\* Packets go out in the order in which they were sent: those that waited for
\* their neighbour to be discovered, once each, and those that netdev_tx_defer()
\* held back while the ring was full.
SentInOrder == SentOnceInOrder /\ Dev!WireInOrder

\* The card's ring and the transmit queue agree, a packet is deferred only while
\* the ring is full, and every packet is in one of the queues or was released,
\* once (netdev_tx_complete_next(), netdev_tx_flush()).
PacketsHeldOnce == Dev!QueueIsRing /\ Dev!ReleasedOnce

\* What waits, waits for a while: a packet for its neighbour to be discovered,
\* whose timer gives up after a bounded number of expiries, and a packet given
\* to a device, queued or deferred, for its release (netdev_tx_complete_err()).
PacketsMoveOn ==
    /\ []<>(\A p \in Packets : ~Waiting(p))
    /\ Dev!EventuallyReleased
=============================================================================
