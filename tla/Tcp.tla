-------------------------------- MODULE Tcp --------------------------------
(***************************************************************************)
(* One TCP connection of net/tcp.c among its callers: the application on   *)
(* its data-transfer interface, the retry timers, the process run queue,   *)
(* the cache discarder, and a peer behind a network that loses,            *)
(* duplicates, delays and reorders segments.                               *)
(*                                                                         *)
(* The program is single-threaded: a call from outside runs to completion. *)
(* tcp_rx() calls the application back for each queued packet it delivers, *)
(* so it is split there: tcp_rx, then one tcp_process_rx_queue step per    *)
(* packet, then tcp_rx_done; nothing else runs while pc # "idle".          *)
(*                                                                         *)
(* The peer is any conforming TCP: a received segment may be any segment   *)
(* such a peer could have sent at any earlier time, which is at once loss, *)
(* duplication and reordering.                                             *)
(***************************************************************************)
EXTENDS TcpConnection

CONSTANTS
    TxSizes,     \* sizes of the I/O buffers the application sends
    MaxTx,       \* bound: length of the local stream
    PeerLen,     \* length of the peer's stream, followed by its FIN
    PeerWins,    \* windows the peer advertises
    AppWins,     \* windows the application advertises
    MaxQueue,    \* bound: packets in the receive queue
    Resets,      \* whether the peer may reset the connection
    MemoryLow,   \* whether allocations and transmissions may fail
    EarlySyn     \* whether a peer's SYN may come before ours is sent

ASSUME TcpConstants ==
    /\ TxSizes \subseteq Nat \ {0} /\ MaxTx \in Nat /\ PeerLen \in Nat
    /\ PeerWins \subseteq Nat /\ AppWins \subseteq Nat /\ MaxQueue \in Nat
    /\ Resets \in BOOLEAN /\ MemoryLow \in BOOLEAN /\ EarlySyn \in BOOLEAN

VARIABLES
    tcp,     \* the connection
    pc,      \* "new" before tcp_open, "rx" inside tcp_rx, or "idle"
    oldwin,  \* old_xfer_window of the tcp_rx() in progress
    seen     \* history: window the application was last told of

vars == <<tcp, pc, oldwin, seen>>

\* What alloc_iob() and tcpip_tx() may do in this instance.
Outs == IF MemoryLow THEN Outcomes ELSE {"ok"}

Init ==
    /\ tcp = [listed |-> FALSE, xfer_closed |-> FALSE, ack_pending |-> FALSE,
              sent |-> {"RST"}, acked |-> {}, rcvd |-> {},
              snd_seq |-> ISS, snd_sent |-> 0, snd_win |-> 0,
              rcv_ack |-> 0, rcv_win |-> 0, max_rcv_win |-> MaxWindowSize,
              txhead |-> 0, txtail |-> 0, txends |-> {}, rx_queue |-> <<>>,
              process |-> FALSE, timer |-> FALSE, wait |-> FALSE,
              pending_flags |-> 0, pending_data |-> 0,
              una |-> 0, nxt |-> 0, rnxt |-> 0, told |-> FALSE,
              delivered |-> <<>>]
    /\ pc = "new"
    /\ oldwin = 0
    /\ seen = 0

tcp_open ==
    /\ pc = "new"
    /\ tcp' = [tcp EXCEPT !.listed = TRUE, !.sent = {"SYN"}, !.timer = TRUE,
                          !.pending_flags = 1]
    /\ pc' = "idle"
    /\ UNCHANGED <<oldwin, seen>>

Idle == pc = "idle" /\ tcp.listed

-----------------------------------------------------------------------------
(* The application's side of the data-transfer interface.                  *)

Queueing(t, n) ==
    [t EXCEPT !.txtail = @ + n, !.txends = @ \cup {t.txtail + n}, !.pending_data = @ + 1]

Sent(t, n, out, w) == tcp_xmit(Queueing(t, n), out, w)

tcp_xfer_deliver(n) ==
    /\ Idle /\ ~tcp.xfer_closed /\ tcp.txtail + n <= MaxTx
    /\ \E out \in Outs, w \in AppWins : tcp' = Sent(tcp, n, out, w)
    /\ seen' = tcp_xfer_window(tcp')
    /\ UNCHANGED <<pc, oldwin>>

tcp_xfer_close ==
    /\ Idle /\ ~tcp.xfer_closed
    /\ \E out \in Outs, w \in AppWins : tcp' = tcp_xmit(tcp_close(tcp), out, w)
    /\ UNCHANGED <<pc, oldwin, seen>>

-----------------------------------------------------------------------------
(* Timers, process, memory pressure and shutdown.                          *)

tcp_expired(over) ==
    /\ Idle /\ tcp.timer
    /\ LET t == [tcp EXCEPT !.timer = FALSE] IN
       IF over THEN tcp' = Abort(t)
       ELSE \E out \in Outs, w \in AppWins : tcp' = tcp_xmit(t, out, w)
    /\ UNCHANGED <<pc, oldwin, seen>>

tcp_wait_expired ==
    /\ Idle /\ tcp.wait
    /\ tcp' = Abort([tcp EXCEPT !.wait = FALSE])
    /\ UNCHANGED <<pc, oldwin, seen>>

\* The transmission process runs once each time it is added.
tcp_process ==
    /\ Idle /\ tcp.process
    /\ \E out \in Outs, w \in AppWins :
          tcp' = tcp_xmit([tcp EXCEPT !.process = FALSE], out, w)
    /\ UNCHANGED <<pc, oldwin, seen>>

tcp_discarder ==
    /\ Idle /\ MemoryLow /\ tcp.rx_queue # <<>>
    /\ tcp' = tcp_discard(tcp)
    /\ UNCHANGED <<pc, oldwin, seen>>

tcp_shutdown ==
    /\ Idle
    /\ tcp' = Abort(tcp)
    /\ UNCHANGED <<pc, oldwin, seen>>

-----------------------------------------------------------------------------
(* Segments of a conforming peer.  Offset 0 of its sequence space is its    *)
(* SYN, offset 1 + i is byte i of its stream, offset 1 + PeerLen its FIN.   *)

Ack(a) == SeqAdd(ISS, a)

SynSegments ==
    IF tcp.nxt = 0 /\ ~EarlySyn THEN {}
    ELSE {[syn |-> TRUE, ackf |-> a > 0, fin |-> FALSE, rst |-> FALSE, seq |-> IRS,
           ack |-> Ack(a), win |-> w, from |-> 0, len |-> 0] :
             a \in {0} \cup (1..MinOf(1, tcp.nxt)), w \in PeerWins}

\* Only a peer that has seen our ACK of its SYN sends anything else.
DataSegments ==
    IF ~tcp.told THEN {}
    ELSE {[syn |-> FALSE, ackf |-> TRUE, fin |-> f, rst |-> FALSE,
           seq |-> SeqAdd(IRS, 1 + from), ack |-> Ack(a), win |-> w,
           from |-> from, len |-> l] :
             f \in BOOLEAN, from \in 0..PeerLen, l \in 0..PeerLen,
             a \in 1..tcp.nxt, w \in PeerWins}

\* A reset answers our SYN, or comes anywhere in the peer's stream.
RstSegments ==
    IF ~Resets \/ tcp.nxt = 0 THEN {}
    ELSE {[syn |-> FALSE, ackf |-> TRUE, fin |-> FALSE, rst |-> TRUE,
           seq |-> SeqAdd(IRS, p), ack |-> Ack(a), win |-> 0,
           from |-> 0, len |-> 0] : p \in 0..(PeerLen + 2), a \in 1..tcp.nxt}

\* The peer's stream ends at PeerLen and only its last byte carries FIN; an
\* acknowledgement of everything sent after FIN has the number after it.
WellFormed(s) ==
    s.syn \/ s.rst \/ (s.from + s.len <= PeerLen /\ (s.fin => s.from + s.len = PeerLen))

AfterFin ==
    {[s EXCEPT !.seq = SeqAdd(IRS, PeerLen + 2), !.fin = FALSE] :
        s \in {d \in DataSegments : d.from = PeerLen /\ d.len = 0}}

Segments == {s \in SynSegments \cup DataSegments \cup RstSegments : WellFormed(s)}
            \cup AfterFin

-----------------------------------------------------------------------------
(* tcp_rx().                                                               *)

\* An ACK from outside a half-open connection is answered with a RST.
tcp_rx_refused(s) ==
    /\ Idle /\ s.ackf /\ AckRefused(tcp, s.ack)
    /\ UNCHANGED vars

ForceAck(t, seq) ==
    IF "SYN" \in t.rcvd /\ seq # t.rcv_ack THEN [t EXCEPT !.ack_pending = TRUE] ELSE t

RxHeader(t, s) ==
    LET acked == IF s.ackf THEN tcp_rx_ack(t, s.ack, s.win) ELSE t
        forced == ForceAck(acked, s.seq)
    IN IF s.syn THEN tcp_rx_syn(forced, s.seq) ELSE forced

SeqAfterSyn(s) == IF s.syn THEN SeqAdd(s.seq, 1) ELSE s.seq

AsQueued(s) == [seq |-> SeqAfterSyn(s), fin |-> s.fin, from |-> s.from, len |-> s.len]

tcp_rx(s) ==
    /\ Idle /\ Len(tcp.rx_queue) < MaxQueue
    /\ ~(s.ackf /\ AckRefused(tcp, s.ack))
    /\ LET t == RxHeader(tcp, s) IN
       IF s.rst /\ RstAccepted(t, SeqAfterSyn(s))
       THEN tcp' = Abort(t) /\ UNCHANGED <<pc, oldwin>>
       ELSE /\ tcp' = tcp_rx_enqueue(t, AsQueued(s))
            /\ pc' = "rx"
            /\ oldwin' = tcp_xfer_window(tcp)
    /\ UNCHANGED seen

\* What the application may do while it is handed data: nothing, close,
\* send, or allocate memory that tcp_discard() has to find.
AppReact(t, react, n, out, w) ==
    CASE react = "close" -> tcp_xmit(tcp_close(t), out, w)
      [] react = "send" -> Sent(t, n, out, w)
      [] react = "alloc" -> tcp_discard(t)
      [] OTHER -> t

Reactions(t) ==
    {"none"} \cup (IF t.xfer_closed THEN {} ELSE {"close", "send"})
             \cup (IF MemoryLow THEN {"alloc"} ELSE {})

ReadyToProcess(t) ==
    t.rx_queue # <<>> /\ tcp_cmp(Head(t.rx_queue).seq, t.rcv_ack) <= 0

Dequeued(t) == [t EXCEPT !.rx_queue = Tail(@)]

FinPart(t, q) == IF q.fin THEN tcp_rx_fin(t, SeqAdd(q.seq, q.len)) ELSE t

tcp_process_rx_queue ==
    /\ pc = "rx" /\ ReadyToProcess(tcp)
    /\ LET q == Head(tcp.rx_queue)
           t == tcp_rx_data(Dequeued(tcp), q)
           called == HasNewData(tcp, q)
       IN \E react \in (IF called THEN Reactions(t) ELSE {"none"}),
             n \in TxSizes, out \in Outs, w \in AppWins :
            /\ react = "send" => t.txtail + n <= MaxTx
            /\ LET u == AppReact(t, react, n, out, w) IN
               /\ tcp' = FinPart(u, q)
               /\ seen' = IF called THEN tcp_xfer_window(u) ELSE seen
    /\ UNCHANGED <<pc, oldwin>>

StartWait(t) == IF ClosedGracefully(t) THEN [t EXCEPT !.wait = TRUE] ELSE t

tcp_rx_done_Silent ==
    /\ pc = "rx" /\ ~ReadyToProcess(tcp)
    /\ tcp' = StartWait([tcp EXCEPT !.process = TRUE])
    /\ pc' = "idle"
    /\ oldwin' = 0
    /\ UNCHANGED seen

tcp_rx_done ==
    /\ pc = "rx" /\ ~ReadyToProcess(tcp)
    /\ \E out \in Outs, w \in AppWins :
          tcp' = StartWait(IF tcp.rx_queue = <<>> THEN [tcp EXCEPT !.process = TRUE]
                           ELSE tcp_xmit(tcp, out, w))
    /\ seen' = IF tcp_xfer_window(tcp') # oldwin THEN tcp_xfer_window(tcp') ELSE seen
    /\ pc' = "idle"
    /\ oldwin' = 0

Next ==
    \/ tcp_open
    \/ \E n \in TxSizes : tcp_xfer_deliver(n)
    \/ tcp_xfer_close
    \/ \E over \in BOOLEAN : tcp_expired(over)
    \/ tcp_wait_expired \/ tcp_process \/ tcp_discarder \/ tcp_shutdown
    \/ \E s \in Segments : tcp_rx(s) \/ tcp_rx_refused(s)
    \/ tcp_process_rx_queue \/ tcp_rx_done

Spec == Init /\ [][Next]_vars

-----------------------------------------------------------------------------
(* Properties.                                                             *)

TypeOK ==
    /\ tcp \in Connection
    /\ pc \in {"new", "idle", "rx"}
    /\ oldwin \in Nat /\ seen \in Nat

\* The assertions of tcp_expired() (tcp.c:656) and tcp_wait_expired()
\* (tcp.c:686): the retransmission timer runs only in states that send, the
\* shutdown timer only in TIME_WAIT.
TimerStates ==
    /\ tcp.timer => \/ SYN_SENT(tcp) \/ SYN_RCVD(tcp) \/ ESTABLISHED(tcp)
                    \/ FIN_WAIT_1(tcp) \/ CLOSE_WAIT(tcp) \/ CLOSING_OR_LAST_ACK(tcp)
    /\ tcp.wait => TIME_WAIT(tcp)

\* The assertion of tcp_xmit() (tcp.c:538): "SYN or FIN consume one byte, and
\* we can never send both".
NeverSynAndFin == SendingFlag(tcp) # {"SYN", "FIN"}

\* Pending operations are accounted for exactly: one for a SYN or FIN in
\* flight, one for each buffer of the transmit queue, none once the
\* connection is deleted (whoever waits in pending.c for "nothing pending"
\* would otherwise wait for ever, or not at all).
PendingExact ==
    /\ tcp.pending_data = Cardinality(tcp.txends)
    /\ tcp.pending_flags = Cardinality(SendingFlag(tcp))

\* A deleted connection leaves nothing behind that would reach it again: no
\* timer, no scheduled process, no queued buffer.
DeletedIsQuiet ==
    ~tcp.listed => /\ ~tcp.timer /\ ~tcp.wait /\ ~tcp.process
                   /\ tcp.rx_queue = <<>> /\ TxEmpty(tcp)

\* The sequence numbers stay in step with the two byte streams across
\* wrap-around: snd_seq is the number of the first byte of the transmit queue
\* (after SYN and before FIN), rcv_ack that of the first byte not received.
SequenceInStep ==
    TypeOK /\ (tcp.listed =>
      /\ tcp.snd_seq = SeqAdd(ISS, tcp.una)
      /\ tcp.una = tcp.txhead + Cardinality(tcp.acked \cap {"SYN", "FIN"})
      /\ "SYN" \in tcp.rcvd => tcp.rcv_ack = SeqAdd(IRS, tcp.rnxt))

\* The application receives the peer's stream in order, without gap or
\* repetition, whatever the network does to the segments; until it closes, it
\* has received everything that has been acknowledged, and between packets the
\* receive queue begins beyond a gap: nothing waits that could be delivered.
DeliveredInOrder ==
    /\ \A i \in 1..Len(tcp.delivered) : tcp.delivered[i] = i - 1
    /\ tcp.listed /\ ~tcp.xfer_closed /\ "SYN" \in tcp.rcvd
         => tcp.rnxt = 1 + Len(tcp.delivered)
    /\ pc = "idle" /\ tcp.rx_queue # <<>>
         => tcp_cmp(Head(tcp.rx_queue).seq, tcp.rcv_ack) > 0

\* No lost wake-up: a connection with a SYN or FIN to send, or with data and
\* a window to send it in, has its timer running or its process scheduled.
NoStall ==
    pc = "idle" /\ (SendingFlag(tcp) # {} \/ XmitLen(tcp) > 0)
        => tcp.timer \/ tcp.process

\* A connection that reaches TIME_WAIT has the timer that will delete it.
TimeWaitEnds == pc = "idle" /\ TIME_WAIT(tcp) => tcp.wait

\* FIN is sent only after the last byte has been acknowledged, so no byte the
\* application queued before closing is lost behind it.
FinAfterData == "FIN" \in tcp.sent => TxEmpty(tcp)

\* The state word, the timers, the queues and the lists agree after any
\* sequence of closes, resets, crossing FINs, expiries and callbacks: the
\* assertions of tcp.c hold, a connection that is over is gone or going.
ControlSafe ==
    TimerStates /\ NeverSynAndFin /\ DeletedIsQuiet /\ TimeWaitEnds /\ FinAfterData

\* Whenever the transmit window is open, the application has been told so by
\* xfer_window_changed() or has seen it in a call of its own.
WindowNotified ==
    pc = "idle" /\ ~tcp.xfer_closed /\ tcp_xfer_window(tcp) > 0 => seen > 0

\* The right edge of the receive window never moves back, not even when
\* tcp_discard() lowers the maximum (RFC 793 "shrinking the window").
RightEdgeAdvances ==
    [][tcp.listed /\ tcp'.listed /\ "SYN" \in tcp.rcvd
         => tcp'.rnxt + tcp'.rcv_win >= tcp.rnxt + tcp.rcv_win]_vars
=============================================================================
