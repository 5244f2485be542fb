--------------------------- MODULE TcpConnection ---------------------------
(***************************************************************************)
(* struct tcp_connection of net/tcp.c and the functions that change it.    *)
(* A connection is a record; each C function is an operator from           *)
(* connections to connections, so that handlers compose as calls do.       *)
(*                                                                         *)
(* Sequence numbers are the code's uint32_t with modulus SeqSpace.  Payload  *)
(* bytes are named by their offset in the stream they belong to: the       *)
(* transmit queue is the bytes txhead..txtail-1 of the local stream, cut   *)
(* into I/O buffers that end at the offsets txends; a received segment     *)
(* carries len bytes of the peer's stream from offset from.  Timestamps,   *)
(* the MSS and the window scale are left out.                              *)
(*                                                                         *)
(* A definition Name_Variant just before Name is a plausible mistake in    *)
(* it: the runs are repeated with it to see that a property notices.       *)
(***************************************************************************)
EXTENDS Integers, Sequences, FiniteSets

CONSTANTS
    SeqSpace,         \* 2^32 in the code
    PathMTU,        \* TCP_PATH_MTU
    MaxWindowSize,  \* TCP_MAX_WINDOW_SIZE
    WindowAlign,    \* 4 in the code: the receive window is dword-aligned
    ISS,            \* random() in tcp_open
    IRS             \* the peer's initial sequence number

ASSUME SequenceSpace ==
    /\ SeqSpace \in Nat \ {0, 1} /\ ISS \in 0..(SeqSpace - 1) /\ IRS \in 0..(SeqSpace - 1)
    /\ PathMTU \in Nat \ {0} /\ MaxWindowSize \in Nat /\ WindowAlign \in Nat \ {0}

Flags == {"SYN", "ACK", "FIN", "RST"}

Queued == [seq : 0..(SeqSpace - 1), fin : BOOLEAN, from : Nat, len : Nat]

\* una, nxt, rnxt, told and delivered are history: sequence space
\* acknowledged and sent so far, sequence space consumed from the peer,
\* whether an ACK has ever been sent, and the bytes given to the application.
Connection ==
    [listed : BOOLEAN, xfer_closed : BOOLEAN, ack_pending : BOOLEAN,
     sent : SUBSET Flags, acked : SUBSET Flags, rcvd : SUBSET Flags,
     snd_seq : 0..(SeqSpace - 1), snd_sent : Nat, snd_win : Nat,
     rcv_ack : 0..(SeqSpace - 1), rcv_win : Nat, max_rcv_win : Nat,
     txhead : Nat, txtail : Nat, txends : SUBSET Nat,
     rx_queue : Seq(Queued),
     process : BOOLEAN, timer : BOOLEAN, wait : BOOLEAN,
     pending_flags : Nat, pending_data : Nat,
     una : Nat, nxt : Nat, rnxt : Nat, told : BOOLEAN, delivered : Seq(Nat)]

-----------------------------------------------------------------------------
(* Sequence-number arithmetic (include/ipxe/tcp.h).                        *)

SeqAdd(s, n) == (s + n) % SeqSpace
SeqDiff(a, b) == (a - b) % SeqSpace

\* tcp_cmp(): the difference as a signed number.
tcp_cmp(a, b) ==
    LET d == SeqDiff(a, b) IN IF 2 * d < SeqSpace THEN d ELSE d - SeqSpace

tcp_in_window(seq, start, len) == SeqDiff(seq, start) < len

MinOf(a, b) == IF a < b THEN a ELSE b
MaxOf(a, b) == IF a > b THEN a ELSE b
Least(S) == CHOOSE n \in S : \A m \in S : n <= m

-----------------------------------------------------------------------------
(* The state word (tcp.h:133-277).                                         *)

Sending(t) == t.sent \ t.acked
SendingFlag(t) == Sending(t) \cap {"SYN", "FIN"}
CanSendData(t) == "SYN" \in t.acked /\ "FIN" \notin t.sent
HasBeenEstablished(t) == "SYN" \in t.acked /\ "SYN" \in t.rcvd
ClosedGracefully(t) == "FIN" \in t.acked /\ "FIN" \in t.rcvd

StateIs(t, sent, acked, rcvd) == t.sent = sent /\ t.acked = acked /\ t.rcvd = rcvd
CLOSED(t) == StateIs(t, {"RST"}, {}, {})
SYN_SENT(t) == StateIs(t, {"SYN"}, {}, {})
SYN_RCVD(t) == StateIs(t, {"SYN", "ACK"}, {}, {"SYN"})
ESTABLISHED(t) == StateIs(t, {"SYN", "ACK"}, {"SYN"}, {"SYN"})
FIN_WAIT_1(t) == StateIs(t, {"SYN", "ACK", "FIN"}, {"SYN"}, {"SYN"})
FIN_WAIT_2(t) == StateIs(t, {"SYN", "ACK", "FIN"}, {"SYN", "FIN"}, {"SYN"})
CLOSING_OR_LAST_ACK(t) ==
    StateIs(t, {"SYN", "ACK", "FIN"}, {"SYN"}, {"SYN", "FIN"})
TIME_WAIT(t) == StateIs(t, {"SYN", "ACK", "FIN"}, {"SYN", "FIN"}, {"SYN", "FIN"})
CLOSE_WAIT(t) == StateIs(t, {"SYN", "ACK"}, {"SYN"}, {"SYN", "FIN"})

-----------------------------------------------------------------------------
(* Transmit queue, windows and pending operations.                         *)

TxEmpty(t) == t.txends = {}
TxLen(t) == t.txtail - t.txhead

\* tcp_process_tx_queue() with "remove": up to len bytes leave the queue,
\* and with them the buffers that become empty.
TxHeadAfter(t, len) == MinOf(t.txhead + len, t.txtail)
TxEndsAfter(t, len) == {e \in t.txends : e > TxHeadAfter(t, len)}

\* pending_put() does nothing when no operation is pending.
Put(pending, n) == MaxOf(pending - n, 0)

tcp_xmit_win(t) == IF CanSendData(t) THEN MinOf(t.snd_win, PathMTU) ELSE 0
tcp_xfer_window(t) == IF TxEmpty(t) THEN tcp_xmit_win(t) ELSE 0

AlignDown(w) == (w \div WindowAlign) * WindowAlign
ExpandedWin_Shrinks(t, app_win) == AlignDown(MinOf(t.max_rcv_win, app_win))
ExpandedWin(t, app_win) ==
    MaxOf(t.rcv_win, AlignDown(MinOf(t.max_rcv_win, app_win)))

-----------------------------------------------------------------------------
(* tcp_discard(): the last queued packet goes, and the window is limited so *)
(* that the peer will not send it again before there is room for it.        *)

GapTo(t, q) == SeqDiff(q.seq, t.rcv_ack)

tcp_discard(t) ==
    IF t.rx_queue = <<>> THEN t
    ELSE [t EXCEPT !.max_rcv_win = MinOf(@, GapTo(t, t.rx_queue[Len(t.rx_queue)])),
                   !.rx_queue = SubSeq(@, 1, Len(@) - 1)]

\* A failed allocation has discarded everything that can be discarded
\* (alloc_memblock() in core/malloc.c retries until discard_cache() is idle).
DiscardAll(t) ==
    [t EXCEPT !.max_rcv_win =
                Least({@} \cup {GapTo(t, t.rx_queue[i]) : i \in 1..Len(t.rx_queue)}),
              !.rx_queue = <<>>]

-----------------------------------------------------------------------------
(* tcp_xmit().  "out" is what becomes of the packet: sent, no memory for   *)
(* it, or refused by the network layer.  app_win is what the application   *)
(* answers to xfer_window(); a closed interface answers "unlimited".       *)

Outcomes == {"ok", "nomem", "txfail"}

XmitLen(t) == IF CanSendData(t) THEN MinOf(TxLen(t), tcp_xmit_win(t)) ELSE 0
XmitSeqLen(t) == XmitLen(t) + IF SendingFlag(t) # {} THEN 1 ELSE 0

AppWin(t, app_win) == IF t.xfer_closed THEN MaxWindowSize ELSE app_win

\* Start the timer if sequence space is consumed, before allocating.
XmitStart_NoTimer(t) == [t EXCEPT !.snd_sent = XmitSeqLen(t)]
XmitStart(t) ==
    [t EXCEPT !.snd_sent = XmitSeqLen(t), !.timer = (XmitSeqLen(t) > 0)]

XmitExpand(t, app_win) ==
    [t EXCEPT !.rcv_win = ExpandedWin(t, AppWin(t, app_win))]

XmitSent(t) ==
    [t EXCEPT !.ack_pending = FALSE, !.nxt = MaxOf(@, t.una + t.snd_sent),
              !.told = @ \/ "ACK" \in t.sent]

tcp_xmit(t, out, app_win) ==
    IF t.timer THEN t
    ELSE IF XmitSeqLen(t) = 0 /\ ~t.ack_pending THEN XmitStart(t)
    ELSE IF out = "nomem" THEN DiscardAll(XmitStart(t))
    ELSE IF out = "txfail" THEN XmitExpand(XmitStart(t), app_win)
    ELSE XmitSent(XmitExpand(XmitStart(t), app_win))

-----------------------------------------------------------------------------
(* tcp_rx_ack().                                                           *)

AckLen(t, ack) == SeqDiff(ack, t.snd_seq)

\* The ACK is out of range on a connection not yet established: -EINVAL.
AckRefused(t, ack) == AckLen(t, ack) > t.snd_sent /\ ~HasBeenEstablished(t)

\* SYN and FIN take one number of the acknowledged range.
AckedData_CountsFlag(t, ack) == AckLen(t, ack)
AckedData(t, ack) == AckLen(t, ack) - (IF SendingFlag(t) # {} THEN 1 ELSE 0)

AckedFlagAndData(t, ack, win) ==
    [t EXCEPT
       !.snd_win = win, !.timer = FALSE, !.snd_seq = ack, !.snd_sent = 0,
       !.una = @ + AckLen(t, ack),
       !.txhead = TxHeadAfter(t, AckedData(t, ack)),
       !.txends = TxEndsAfter(t, AckedData(t, ack)),
       !.pending_data =
          Put(@, Cardinality(t.txends \ TxEndsAfter(t, AckedData(t, ack)))),
       !.pending_flags = Put(@, IF SendingFlag(t) # {} THEN 1 ELSE 0),
       !.acked = @ \cup SendingFlag(t)]

\* Start sending FIN once the application is gone and all data is acked.
StartFin_NotPending(t) == [t EXCEPT !.sent = @ \cup {"FIN"}]
StartFin(t) == [t EXCEPT !.sent = @ \cup {"FIN"}, !.pending_flags = @ + 1]

FinIfDrained(t) ==
    IF TxEmpty(t) /\ t.xfer_closed /\ "FIN" \notin t.sent THEN StartFin(t) ELSE t

tcp_rx_ack(t, ack, win) ==
    IF AckLen(t, ack) > t.snd_sent THEN t
    ELSE IF AckLen(t, ack) = 0 THEN [t EXCEPT !.snd_win = win]
    ELSE FinIfDrained(AckedFlagAndData(t, ack, win))

-----------------------------------------------------------------------------
(* tcp_close().                                                            *)

Deleted(t) ==
    [t EXCEPT
       !.sent = {"RST"}, !.acked = {}, !.rcvd = {}, !.rx_queue = <<>>,
       !.pending_data = Put(@, Cardinality(t.txends)),
       !.txhead = t.txtail, !.txends = {},
       !.pending_flags = Put(@, 2),
       !.process = FALSE, !.timer = FALSE, !.wait = FALSE, !.listed = FALSE]

XferClosed(t) == [t EXCEPT !.xfer_closed = TRUE]

\* In SYN_RCVD our SYN is taken as acknowledged, with a zero window.
PretendSynAcked_Not(t) == t
PretendSynAcked(t) ==
    IF "SYN" \in t.acked THEN t ELSE tcp_rx_ack(t, SeqAdd(t.snd_seq, 1), 0)

tcp_close(t) ==
    IF "SYN" \notin t.rcvd THEN Deleted(XferClosed(t))
    ELSE FinIfDrained(PretendSynAcked(XferClosed(t)))

\* What a time-out, a reset and a shutdown do: "tcp_state = TCP_CLOSED" first.
Abort(t) == tcp_close([t EXCEPT !.sent = {"RST"}, !.acked = {}, !.rcvd = {}])

-----------------------------------------------------------------------------
(* The receive path.                                                       *)

tcp_rx_seq(t, n) ==
    [t EXCEPT !.rcv_ack = SeqAdd(@, n), !.rcv_win = MaxOf(@ - n, 0),
              !.ack_pending = TRUE, !.rnxt = @ + n]

\* Synchronise on the first SYN; a SYN that is not next in line is ignored.
Synchronised(t, seq) == IF "SYN" \in t.rcvd THEN t ELSE [t EXCEPT !.rcv_ack = seq]

tcp_rx_syn(t, seq) ==
    LET s == Synchronised(t, seq) IN
    IF seq # s.rcv_ack THEN s
    ELSE [tcp_rx_seq(s, 1) EXCEPT !.sent = @ \cup {"ACK"}, !.rcvd = @ \cup {"SYN"}]

\* A RST counts only within the window or, before any SYN, if it acks ours.
RstAccepted(t, seq) ==
    IF "SYN" \in t.rcvd THEN tcp_in_window(seq, t.rcv_ack, t.rcv_win)
    ELSE "SYN" \in t.acked

\* Bytes of a queued packet that have already been received.
AlreadyRcvd(t, q) == SeqDiff(t.rcv_ack, q.seq)
HasNewData(t, q) == AlreadyRcvd(t, q) < q.len

Deliver_Whole(t, q) ==
    IF t.xfer_closed THEN t
    ELSE [t EXCEPT !.delivered = @ \o [i \in 1..q.len |-> q.from + i - 1]]

Deliver(t, q) ==
    IF t.xfer_closed THEN t
    ELSE [t EXCEPT !.delivered =
            @ \o [i \in 1..(q.len - AlreadyRcvd(t, q)) |->
                    q.from + AlreadyRcvd(t, q) + i - 1]]

tcp_rx_data(t, q) ==
    IF HasNewData(t, q)
    THEN tcp_rx_seq(Deliver(t, q), q.len - AlreadyRcvd(t, q)) ELSE t

tcp_rx_fin(t, seq) ==
    IF seq # t.rcv_ack THEN t
    ELSE tcp_close([tcp_rx_seq(t, 1) EXCEPT !.rcvd = @ \cup {"FIN"}])

\* The queue is kept in order of sequence number, oldest first; a packet
\* goes after the queued ones with the same number.
InsertPos(queue, seq) ==
    Least({i \in 1..(Len(queue) + 1) :
           i = Len(queue) + 1 \/ tcp_cmp(seq, queue[i].seq) < 0})

Enqueueable(t, q, seq_len) ==
    /\ "SYN" \in t.rcvd
    /\ tcp_cmp(q.seq, SeqAdd(t.rcv_ack, t.rcv_win)) < 0
    /\ tcp_cmp(SeqAdd(q.seq, seq_len), t.rcv_ack) >= 0
    /\ seq_len # 0

Inserted(queue, q) ==
    LET i == InsertPos(queue, q.seq)
    IN SubSeq(queue, 1, i - 1) \o <<q>> \o SubSeq(queue, i, Len(queue))

tcp_rx_enqueue(t, q) ==
    IF Enqueueable(t, q, q.len + IF q.fin THEN 1 ELSE 0)
    THEN [t EXCEPT !.rx_queue = Inserted(@, q)] ELSE t
=============================================================================
