------------------------- MODULE TcpDeliveryProofs --------------------------
(***************************************************************************)
(* The byte streams of a TCP connection among its callers, proved for      *)
(* sequence spaces, windows, streams and queues of any size: sequence      *)
(* numbers stay in step with the streams, pending operations are counted   *)
(* exactly, the application is told of every open window, the receive      *)
(* window never shrinks, and data is delivered in order.                   *)
(***************************************************************************)
EXTENDS TcpReceiveProofs

\* The provers tried, in this order, where a step names none
USE SMT, Zenon, SMTT(90), ZenonT(60)

\* What a conforming peer can have sent, as the receiving half sees it.
LEMMA SegmentStream ==
    ASSUME NEW s \in Segments
    PROVE  /\ s.win \in Nat /\ AsQueued(s) \in Queued
           /\ s.syn => s.seq = IRS
           /\ AsQueued(s).len # 0 \/ AsQueued(s).fin => Genuine(AsQueued(s))
  <1> DEFINE q == AsQueued(s)
             Goal == /\ s.win \in Nat /\ q \in Queued /\ (s.syn => s.seq = IRS)
                     /\ q.len # 0 \/ q.fin => Genuine(q)
  <1>0. \A n \in Int : SeqAdd(IRS, n) \in 0..(SeqSpace - 1)
    <2>1. IRS \in Int
      BY SequenceSpace
    <2>2. QED
      BY Zenon, <2>1, SeqMoves
  <1>a. ASSUME SeqAfterSyn(s) \in 0..(SeqSpace - 1), s.fin \in BOOLEAN, s.from \in Nat,
               s.len \in Nat
        PROVE  q \in Queued /\ q.len = s.len /\ q.fin = s.fin
    <2> DEFINE x == SeqAfterSyn(s)
               f == s.fin
               from == s.from
               len == s.len
    <2>1. q = [seq |-> x, fin |-> f, from |-> from, len |-> len]
      BY DEF AsQueued
    <2>2. x \in 0..(SeqSpace - 1) /\ f \in BOOLEAN /\ from \in Nat /\ len \in Nat
      BY <1>a
    <2> HIDE DEF q, x, f, from, len
    <2>3. q \in Queued /\ q.len = len /\ q.fin = f
      BY <2>1, <2>2 DEF Queued
    <2>4. QED
      BY <2>3 DEF len, f
  <1>1. ASSUME s \in SynSegments PROVE Goal
    <2>1. PICK a \in {0} \cup (1..MinOf(1, tcp.nxt)), w \in PeerWins :
            s = [syn |-> TRUE, ackf |-> a > 0, fin |-> FALSE, rst |-> FALSE,
                 seq |-> IRS, ack |-> Ack(a), win |-> w, from |-> 0, len |-> 0]
      BY <1>1 DEF SynSegments
    <2>2. s.syn = TRUE /\ s.seq = IRS /\ s.fin = FALSE /\ s.win \in Nat /\ s.len = 0 /\ s.from = 0
      BY <2>1, TcpConstants
    <2>3. SeqAfterSyn(s) \in 0..(SeqSpace - 1)
      BY <1>0, <2>2 DEF SeqAfterSyn
    <2>4. q \in Queued /\ q.len = 0 /\ q.fin = FALSE
      <3>1. s.from \in Nat /\ s.len \in Nat
        BY <2>2, <2>3
      <3>2. s.fin \in BOOLEAN
        BY Zenon, <2>2
      <3> HIDE DEF q
      <3>3. q \in Queued /\ q.len = s.len /\ q.fin = s.fin
        BY Zenon, <1>a, <2>2, <2>3, <3>1, <3>2
      <3>4. QED
        BY Zenon, <2>2, <3>3
    <2>5. QED
      BY <2>2, <2>4
  <1>2. ASSUME s \in DataSegments, WellFormed(s) PROVE Goal
    <2>1. PICK f \in BOOLEAN, from \in 0..PeerLen, l \in 0..PeerLen, a \in 1..tcp.nxt,
               w \in PeerWins :
            s = [syn |-> FALSE, ackf |-> TRUE, fin |-> f, rst |-> FALSE,
                 seq |-> SeqAdd(IRS, 1 + from), ack |-> Ack(a), win |-> w,
                 from |-> from, len |-> l]
      BY <1>2 DEF DataSegments
    <2>2. /\ s.syn = FALSE /\ s.rst = FALSE /\ s.seq = SeqAdd(IRS, 1 + s.from)
          /\ s.fin \in BOOLEAN /\ s.win \in Nat /\ s.from \in Nat /\ s.len \in Nat
      BY <2>1, TcpConstants
    <2>3. s.from + s.len <= PeerLen /\ (s.fin => s.from + s.len = PeerLen)
      BY <1>2, <2>2 DEF WellFormed
    <2>4. /\ q.seq = s.seq /\ q.fin = s.fin /\ q.from = s.from /\ q.len = s.len
      BY <2>2 DEF AsQueued, SeqAfterSyn
    <2>5. s.seq \in 0..(SeqSpace - 1)
      BY <1>0, <2>2
    <2>6. q \in Queued
      BY <2>2, <2>5 DEF AsQueued, SeqAfterSyn, Queued
    <2> HIDE DEF q
    <2>7. Genuine(q)
      BY Zenon, <2>2, <2>3, <2>4 DEF Genuine
    <2>8. QED
      BY <2>2, <2>6, <2>7
  <1>3. ASSUME s \in RstSegments PROVE Goal
    <2>1. PICK p \in 0..(PeerLen + 2), a \in 1..tcp.nxt :
            s = [syn |-> FALSE, ackf |-> TRUE, fin |-> FALSE, rst |-> TRUE,
                 seq |-> SeqAdd(IRS, p), ack |-> Ack(a), win |-> 0,
                 from |-> 0, len |-> 0]
      BY <1>3 DEF RstSegments
    <2>2. /\ s.syn = FALSE /\ s.seq = SeqAdd(IRS, p) /\ s.fin = FALSE /\ s.win = 0
          /\ s.len = 0 /\ s.from = 0
      BY <2>1
    <2>3. SeqAfterSyn(s) \in 0..(SeqSpace - 1)
      BY <1>0, <2>2 DEF SeqAfterSyn
    <2>4. q \in Queued /\ q.len = 0 /\ q.fin = FALSE
      <3>1. s.from \in Nat /\ s.len \in Nat
        BY <2>2, <2>3
      <3>2. s.fin \in BOOLEAN
        BY Zenon, <2>2
      <3> HIDE DEF q
      <3>3. q \in Queued /\ q.len = s.len /\ q.fin = s.fin
        BY Zenon, <1>a, <2>2, <2>3, <3>1, <3>2
      <3>4. QED
        BY Zenon, <2>2, <3>3
    <2>5. QED
      BY <2>2, <2>4
  <1>4. ASSUME s \in AfterFin PROVE Goal
    <2>1. PICK d \in DataSegments :
            /\ s = [d EXCEPT !.seq = SeqAdd(IRS, PeerLen + 2), !.fin = FALSE]
            /\ d.from = PeerLen /\ d.len = 0
      BY Zenon, <1>4 DEF AfterFin
    <2>2. PICK f \in BOOLEAN, from \in 0..PeerLen, l \in 0..PeerLen,
               a \in 1..tcp.nxt, w \in PeerWins :
            d = [syn |-> FALSE, ackf |-> TRUE, fin |-> f, rst |-> FALSE,
                 seq |-> SeqAdd(IRS, 1 + from), ack |-> Ack(a), win |-> w,
                 from |-> from, len |-> l]
      BY <2>1 DEF DataSegments
    <2>3. /\ s.syn = FALSE /\ s.seq = SeqAdd(IRS, PeerLen + 2) /\ s.fin = FALSE
          /\ s.win \in Nat /\ s.len = 0 /\ s.from = PeerLen
      BY <2>1, <2>2, TcpConstants
    <2>4. SeqAfterSyn(s) \in 0..(SeqSpace - 1) /\ PeerLen \in Nat
      BY <1>0, <2>3, TcpConstants DEF SeqAfterSyn
    <2>5. q \in Queued /\ q.len = 0 /\ q.fin = FALSE
      <3>1. s.from \in Nat /\ s.len \in Nat
        BY <2>3, <2>4
      <3>2. s.fin \in BOOLEAN
        BY Zenon, <2>3
      <3> HIDE DEF q
      <3>3. q \in Queued /\ q.len = s.len /\ q.fin = s.fin
        BY Zenon, <1>a, <2>3, <2>4, <3>1, <3>2
      <3>4. QED
        BY Zenon, <2>3, <3>3
    <2>6. QED
      BY <2>3, <2>5
  <1>5. Goal
    BY <1>1, <1>2, <1>3, <1>4 DEF Segments
  <1>6. QED
    BY <1>5

-----------------------------------------------------------------------------
(* The steps of the connection.                                            *)

\* Nothing that could be delivered waits.
Gap(t) == t.rx_queue # <<>> => tcp_cmp(Head(t.rx_queue).seq, t.rcv_ack) > 0

\* What receives nothing leaves a gap at the head of the queue.
LEMMA KeptGap ==
    ASSUME NEW t, NEW u, Rx(t), RxKept(u, t), Gap(t)
    PROVE  Gap(u)
  <1> DEFINE old == t.rx_queue
             new == u.rx_queue
  <1>1. old \in Seq(Queued) /\ new \in Seq(Queued) /\ Len(new) <= Len(old)
          /\ \A i \in 1..Len(new) : new[i] = old[i]
    BY DEF Rx, RxKept, RxTypes
  <1> HIDE DEF old, new
  <1>2. new # <<>> => old # <<>> /\ Head(new) = Head(old)
    BY <1>1
  <1>3. u.rcv_ack = t.rcv_ack
    BY DEF RxKept
  <1>4. QED
    BY Zenon, <1>2, <1>3 DEF Gap, old, new

\* The invariant of the two streams, with what tcp_open() starts from, and that of
\* the order of delivery.
StreamInv ==
    /\ ControlInv /\ Tx(tcp) /\ Rx(tcp)
    /\ pc = "new" => /\ tcp.txhead = 0 /\ tcp.txtail = 0 /\ tcp.txends = {}
                     /\ tcp.snd_sent = 0 /\ tcp.rnxt = 0 /\ tcp.delivered = <<>>

OrderInv == Order(tcp) /\ (pc # "rx" => Gap(tcp))

\* What every step does.
Stepped ==
    /\ Tx(tcp') /\ Rx(tcp') /\ Edge(tcp', tcp)
    /\ PeerLen + 2 < SeqSpace /\ OrderInv => OrderInv'

\* A step that receives nothing.
LEMMA KeptStep ==
    ASSUME Rx(tcp), Tx(tcp'), RxKept(tcp', tcp), pc # "rx"
    PROVE  Stepped
  <1>1. Rx(tcp') /\ Edge(tcp', tcp)
    BY Zenon, RxKeptRx, KeptEdge
  <1>2. OrderInv => OrderInv'
    BY Zenon, KeptOrder, KeptGap DEF OrderInv
  <1>3. QED
    BY Zenon, <1>1, <1>2 DEF Stepped

\* A call that ends in tcp_xmit().
LEMMA XmitStepped ==
    ASSUME NEW t, Record(t), Tx(t), Rx(tcp), RxKept(t, tcp), NEW out, NEW w \in AppWins,
           tcp' = tcp_xmit(t, out, w), pc # "rx"
    PROVE  Stepped
  <1>1. w \in Nat
    BY TcpConstants
  <1>2. Tx(tcp') /\ Rx(t)
    BY Zenon, XmitTx, RxKeptRx
  <1>3. RxKept(tcp', t)
    BY Zenon, <1>1, <1>2, XmitRx
  <1>4. RxKept(tcp', tcp)
    BY Zenon, <1>3, RxKeptTwice
  <1>5. QED
    BY Zenon, <1>2, <1>4, KeptStep

\* A call that ends the connection: a time-out, a reset, a shutdown.
LEMMA AbortStepped ==
    ASSUME NEW t, Record(t), Tx(t), Rx(tcp), RxKept(t, tcp), tcp' = Abort(t), pc # "rx"
    PROVE  Stepped /\ tcp'.xfer_closed
  <1>1. Rx(t)
    BY Zenon, RxKeptRx
  <1>2. Tx(tcp') /\ RxKept(tcp', t) /\ tcp'.xfer_closed
    BY Zenon, <1>1, AbortTx
  <1>3. RxKept(tcp', tcp)
    BY Zenon, <1>2, RxKeptTwice
  <1>4. QED
    BY Zenon, <1>2, <1>3, KeptStep

\* Data sent by the application.
LEMMA SentStream ==
    ASSUME NEW t, Control(t), t.listed, ~t.xfer_closed, Tx(t), Rx(t),
           NEW n \in TxSizes, NEW out, NEW w \in AppWins
    PROVE  Tx(Sent(t, n, out, w)) /\ RxKept(Sent(t, n, out, w), t)
  <1> DEFINE v == Queueing(t, n)
  <1>1. n \in Nat \ {0} /\ n \in Int /\ w \in Nat
    BY TcpConstants
  <1>2. Record(t)
    BY DEF Control
  <1>3. Tx(v) /\ SameRx(v, t)
    BY Zenon, <1>1, <1>2, QueueTx
  <1>4. Control(v)
    BY <1>1, QueueControl
  <1>5. RxKept(v, t)
    BY Zenon, <1>3, SameRxKept
  <1>6. Sent(t, n, out, w) = tcp_xmit(v, out, w)
    BY DEF Sent
  <1> HIDE DEF v
  <1>7. Record(v) /\ Rx(v)
    BY Zenon, <1>4, <1>5, RxKeptRx DEF Control
  <1>8. Tx(tcp_xmit(v, out, w)) /\ RxKept(tcp_xmit(v, out, w), v)
    BY Zenon, <1>1, <1>3, <1>7, XmitTx, XmitRx
  <1>9. QED
    BY Zenon, <1>5, <1>6, <1>8, RxKeptTwice

\* The application closes.
LEMMA CloseStream ==
    ASSUME NEW t, Control(t), t.listed, Tx(t), Rx(t), NEW out, NEW w \in AppWins
    PROVE  /\ Tx(tcp_xmit(tcp_close(t), out, w))
           /\ RxKept(tcp_xmit(tcp_close(t), out, w), t)
           /\ tcp_xmit(tcp_close(t), out, w).xfer_closed
  <1> DEFINE v == tcp_close(t)
  <1>1. w \in Nat
    BY TcpConstants
  <1>2. Tx(v) /\ RxKept(v, t) /\ v.xfer_closed
    BY Zenon, ControlClose
  <1>3. Control(v)
    BY CloseControl
  <1> HIDE DEF v
  <1>4. Record(v) /\ Rx(v)
    BY Zenon, <1>2, <1>3, RxKeptRx DEF Control
  <1> DEFINE u == tcp_xmit(v, out, w)
  <1>5. Tx(u) /\ RxKept(u, v)
    BY Zenon, <1>1, <1>2, <1>4, XmitTx, XmitRx
  <1> HIDE DEF u
  <1>6. RxKept(u, t)
    BY Zenon, <1>2, <1>5, RxKeptTwice
  <1>7. u.xfer_closed
    BY Zenon, <1>2, <1>5 DEF RxKept
  <1>8. QED
    BY Zenon, <1>5, <1>6, <1>7 DEF u, v

\* What the application does when it is called.
LEMMA ReactStream ==
    ASSUME NEW t, Control(t), t.listed, Tx(t), Rx(t), NEW react \in Reactions(t),
           NEW n \in TxSizes, NEW out, NEW w \in AppWins
    PROVE  Tx(AppReact(t, react, n, out, w)) /\ RxKept(AppReact(t, react, n, out, w), t)
  <1>1. CASE react = "close"
    <2>1. AppReact(t, react, n, out, w) = tcp_xmit(tcp_close(t), out, w)
      BY <1>1 DEF AppReact
    <2>2. QED
      BY Zenon, <2>1, CloseStream
  <1>2. CASE react = "send"
    <2>1. AppReact(t, react, n, out, w) = Sent(t, n, out, w) /\ ~t.xfer_closed
      BY <1>2 DEF AppReact, Reactions
    <2>2. QED
      BY Zenon, <2>1, SentStream
  <1>3. CASE react = "alloc"
    <2>1. AppReact(t, react, n, out, w) = tcp_discard(t) /\ Record(t)
      BY <1>3 DEF AppReact, Control
    <2>2. QED
      BY Zenon, <2>1, DiscardRx, SameTxKept
  <1>4. CASE react = "none"
    <2>1. AppReact(t, react, n, out, w) = t
      BY <1>4 DEF AppReact
    <2>2. SameRx(t, t)
      BY DEF SameRx
    <2>3. QED
      BY Zenon, <2>1, <2>2, SameRxKept
  <1>5. react \in {"none", "close", "send", "alloc"}
    BY DEF Reactions
  <1>6. QED
    BY Zenon, <1>1, <1>2, <1>3, <1>4, <1>5

\* tcp_rx() up to the point where the receive queue is processed.
LEMMA RxStream ==
    ASSUME ~EarlySyn, StreamInv, NEW s \in Segments, tcp_rx(s)
    PROVE  /\ Stepped
           /\ pc' = "rx" => tcp'.xfer_closed = tcp.xfer_closed
           /\ pc' # "rx" => tcp'.xfer_closed
  <1> DEFINE acked == IF s.ackf THEN tcp_rx_ack(tcp, s.ack, s.win) ELSE tcp
             forced == ForceAck(acked, s.seq)
             t == RxHeader(tcp, s)
             q == AsQueued(s)
  <1>0. /\ pc = "idle" /\ tcp.listed /\ Control(tcp) /\ Tx(tcp) /\ Rx(tcp)
        /\ Record(tcp) /\ tcp.nxt \in Int
    BY DEF tcp_rx, Idle, StreamInv, ControlInv, Control, Record
  <1>1. s.ack \in 0..(SeqSpace - 1) /\ (s.rst => ~s.syn)
    BY <1>0, SegmentFacts
  <1>2. /\ s.win \in Nat /\ q \in Queued
        /\ s.syn => s.seq = IRS
        /\ q.len # 0 \/ q.fin => Genuine(q)
    BY Zenon, SegmentStream
  <1>3. t = IF s.syn THEN tcp_rx_syn(forced, s.seq) ELSE forced
    BY DEF RxHeader
  <1>4. \/ tcp' = Abort(t) /\ pc' = pc /\ s.rst
        \/ tcp' = tcp_rx_enqueue(t, q) /\ pc' = "rx"
    BY DEF tcp_rx
  <1> HIDE DEF t, q
  <1>5. Tx(acked) /\ SameRx(acked, tcp) /\ Sane(acked)
    <2>1. Sane(tcp) /\ SameRx(tcp, tcp)
      BY Zenon, <1>0, ControlSane DEF SameRx
    <2>2. CASE s.ackf
      BY Zenon, <1>0, <1>1, <1>2, <2>1, <2>2, RxAckTx
    <2>3. CASE ~s.ackf
      BY Zenon, <1>0, <2>1, <2>3
    <2>4. QED
      BY Zenon, <2>2, <2>3
  <1> HIDE DEF acked
  <1>6. RxKept(acked, tcp) /\ Rx(acked) /\ RxTypes(acked)
    BY Zenon, <1>0, <1>5, SameRxKept, RxKeptRx DEF Rx
  <1>7. /\ Record(forced) /\ SameTx(forced, acked) /\ RxKept(forced, acked)
        /\ forced.listed = acked.listed /\ forced.xfer_closed = acked.xfer_closed
    <2> DEFINE f == [acked EXCEPT !.ack_pending = TRUE]
    <2>1. forced = acked \/ forced = f
      BY DEF ForceAck
    <2>2. Record(acked) /\ SameTx(acked, acked) /\ RxKept(acked, acked)
      BY Zenon, <1>5, <1>6, SameRxKept DEF Sane, SameTx, SameRx
    <2>3. /\ Record(f) /\ SameTx(f, acked)
          /\ f.listed = acked.listed /\ f.xfer_closed = acked.xfer_closed
          /\ f.rcvd = acked.rcvd /\ f.ack_pending = TRUE /\ f.rcv_ack = acked.rcv_ack
          /\ f.rcv_win = acked.rcv_win /\ f.max_rcv_win = acked.max_rcv_win
          /\ f.rx_queue = acked.rx_queue /\ f.rnxt = acked.rnxt
          /\ f.delivered = acked.delivered
      BY Zenon, <2>2 DEF Record, HasFields, Fields, SameTx
    <2> HIDE DEF f
    <2>4. RxTypes(f)
      BY Zenon, <1>6, <2>3 DEF RxTypes
    <2>5. f.rcv_win >= acked.rcv_win /\ Len(f.rx_queue) <= Len(acked.rx_queue)
      BY <1>6, <2>3 DEF RxTypes
    <2>6. RxKept(f, acked)
      BY Zenon, <2>3, <2>4, <2>5 DEF RxKept
    <2>7. QED
      BY Zenon, <2>1, <2>2, <2>3, <2>6
  <1> HIDE DEF forced
  <1>8. /\ Tx(forced) /\ Rx(forced) /\ RxKept(forced, tcp) /\ HasFields(forced)
        /\ forced.listed /\ forced.xfer_closed = tcp.xfer_closed
    <2>1. Tx(forced) /\ Rx(forced) /\ RxKept(forced, tcp)
      BY Zenon, <1>0, <1>5, <1>6, <1>7, SameTxKept, RxKeptRx, RxKeptTwice
    <2>2. QED
      BY Zenon, <1>0, <1>5, <1>7, <2>1 DEF SameRx, Record
  <1>9. CASE tcp' = Abort(t) /\ pc' = pc /\ s.rst
    <2>1. t = forced
      BY <1>1, <1>3, <1>9
    <2>2. pc # "rx" /\ pc' # "rx"
      BY <1>0, <1>9
    <2>3. QED
      BY Zenon, <1>0, <1>7, <1>8, <1>9, <2>1, <2>2, AbortStepped
  <1>10. CASE tcp' = tcp_rx_enqueue(t, q) /\ pc' = "rx"
    <2>1. /\ HasFields(t) /\ Tx(t) /\ Rx(t) /\ Edge(t, forced)
          /\ t.xfer_closed = forced.xfer_closed
          /\ PeerLen + 2 < SeqSpace /\ Order(forced) => Order(t)
      <3>1. CASE s.syn
        <4>1. t = tcp_rx_syn(forced, IRS)
          BY <1>2, <1>3, <3>1
        <4>2. QED
          BY Zenon, <1>7, <1>8, <4>1, RxSynStream
      <3>2. CASE ~s.syn
        <4>1. t = forced
          BY <1>3, <3>2
        <4>2. Edge(forced, forced)
          BY <1>8 DEF Edge, Rx, RxTypes
        <4>3. QED
          BY Zenon, <1>8, <4>1, <4>2
      <3>3. QED
        BY Zenon, <3>1, <3>2
    <2>2. /\ Tx(tcp') /\ Rx(tcp') /\ Edge(tcp', t) /\ tcp'.xfer_closed = t.xfer_closed
          /\ Order(t) => Order(tcp')
      BY Zenon, <1>2, <1>10, <2>1, EnqueueStream
    <2>3. Edge(tcp', tcp)
      <3>1. Edge(forced, tcp) /\ RxTypes(tcp) /\ RxTypes(forced) /\ RxTypes(t) /\ RxTypes(tcp')
        BY Zenon, <1>0, <1>8, <2>1, <2>2, KeptEdge DEF Rx
      <3>2. Edge(t, tcp)
        BY Zenon, <2>1, <3>1, EdgeTwice
      <3>3. QED
        BY Zenon, <2>2, <3>1, <3>2, EdgeTwice
    <2>4. PeerLen + 2 < SeqSpace /\ OrderInv => OrderInv'
      <3>1. Order(tcp) => Order(forced)
        BY Zenon, <1>0, <1>8, KeptOrder
      <3>2. QED
        BY Zenon, <1>10, <2>1, <2>2, <3>1 DEF OrderInv
    <2>5. QED
      BY Zenon, <1>8, <1>10, <2>1, <2>2, <2>3, <2>4 DEF Stepped
  <1>11. QED
    BY <1>4, <1>9, <1>10

\* One packet of the receive queue.  When the application is not called, nothing
\* changes that decides the transmit window.
LEMMA QueueStream ==
    ASSUME StreamInv, tcp_process_rx_queue
    PROVE  /\ Stepped
           /\ \/ tcp'.xfer_closed
              \/ seen' = tcp_xfer_window(tcp')
              \/ /\ seen' = seen /\ tcp_xfer_window(tcp') = tcp_xfer_window(tcp)
                 /\ tcp'.xfer_closed = tcp.xfer_closed
           /\ \/ seen' = seen
              \/ \E u : Tx(u) /\ seen' = tcp_xfer_window(u)
  <1> DEFINE q == Head(tcp.rx_queue)
             d == Dequeued(tcp)
             t == tcp_rx_data(d, q)
             called == HasNewData(tcp, q)
  <1>1. /\ pc = "rx" /\ pc' = "rx" /\ tcp.listed /\ Control(tcp) /\ tcp.rx_queue # <<>>
        /\ Tx(tcp) /\ Rx(tcp) /\ Record(tcp)
    BY DEF tcp_process_rx_queue, ReadyToProcess, StreamInv, ControlInv, Control
  <1>2. "SYN" \in tcp.acked /\ "SYN" \in tcp.rcvd
    BY <1>1 DEF Control
  <1>3. Frame(d, tcp)
    BY Zenon, <1>1, RxFrame DEF Dequeued
  <1>4. Control(d) /\ d.listed /\ d.acked = tcp.acked /\ d.rcvd = tcp.rcvd /\ Record(d)
    BY Zenon, <1>1, <1>3, FrameControl DEF Frame, SameState, Control
  <1>5. /\ Tx(d) /\ Rx(d) /\ Edge(d, tcp)
        /\ d.xfer_closed = tcp.xfer_closed /\ d.rcv_ack = tcp.rcv_ack
        /\ q \in Queued
        /\ Order(tcp) => Order(d) /\ Genuine(q)
    BY Zenon, <1>1, DequeueStream
  <1>6. PICK react \in (IF called THEN Reactions(t) ELSE {"none"}),
             n \in TxSizes, out \in Outs, w \in AppWins :
          /\ tcp' = FinPart(AppReact(t, react, n, out, w), q)
          /\ seen' = IF called THEN tcp_xfer_window(AppReact(t, react, n, out, w)) ELSE seen
    BY DEF tcp_process_rx_queue
  <1> HIDE DEF d, q
  <1>7. Control(t) /\ t.listed /\ t.acked = tcp.acked /\ t.rcvd = tcp.rcvd
    BY <1>4, RxDataControl DEF SameState
  <1>8. /\ Tx(t) /\ Rx(t) /\ Edge(t, d) /\ t.xfer_closed = d.xfer_closed
        /\ PeerLen + 2 < SeqSpace /\ Genuine(q) /\ Order(d) => Order(t)
    BY Zenon, <1>2, <1>4, <1>5, RxDataStream
  <1>9. ~called => t = d
    BY <1>5 DEF tcp_rx_data, HasNewData, AlreadyRcvd
  <1>10. react \in Reactions(t)
    BY <1>6 DEF Reactions
  <1> DEFINE u == AppReact(t, react, n, out, w)
  <1>11. ~called => u = d
    <2> SUFFICES ASSUME ~called PROVE u = d
      OBVIOUS
    <2>1. react = "none"
      BY <1>6
    <2>2. QED
      BY <1>9, <2>1 DEF AppReact
  <1> HIDE DEF t, called
  <1>12. Control(u) /\ u.listed /\ "SYN" \in u.acked /\ "SYN" \in u.rcvd
    BY <1>2, <1>7, <1>10, ReactControl
  <1>13. Tx(u) /\ RxKept(u, t)
    BY Zenon, <1>7, <1>8, <1>10, ReactStream
  <1>14. tcp' = FinPart(u, q) /\ seen' = IF called THEN tcp_xfer_window(u) ELSE seen
    BY Zenon, <1>6
  <1> HIDE DEF u
  <1>15. Rx(u) /\ Sane(u) /\ Edge(u, t)
    BY Zenon, <1>8, <1>12, <1>13, RxKeptRx, ControlSane, KeptEdge
  <1>16. /\ Tx(tcp') /\ Rx(tcp') /\ Edge(tcp', u) /\ (tcp' = u \/ tcp'.xfer_closed)
         /\ PeerLen + 2 < SeqSpace /\ Genuine(q) /\ Order(u) => Order(tcp')
    <2> DEFINE seq == SeqAdd(q.seq, q.len)
    <2>1. CASE q.fin
      <3>1. tcp' = tcp_rx_fin(u, seq)
        BY <1>14, <2>1 DEF FinPart
      <3>2. Genuine(q) => seq = SeqAdd(IRS, 1 + PeerLen)
        <4> SUFFICES ASSUME Genuine(q) PROVE seq = SeqAdd(IRS, 1 + PeerLen)
          OBVIOUS
        <4> DEFINE from == q.from
                   len == q.len
                   b == 1 + from
        <4>1. from \in Nat /\ len \in Nat /\ IRS \in Int
          BY <1>5, QueuedFields, SequenceSpace
        <4>2. q.seq = SeqAdd(IRS, b) /\ from + len = PeerLen
          BY <2>1 DEF Genuine
        <4> HIDE DEF from, len
        <4>3. b \in Int /\ len \in Int /\ b + len = 1 + PeerLen
          BY <4>1, <4>2
        <4> HIDE DEF b
        <4>4. SeqAdd(SeqAdd(IRS, b), len) = SeqAdd(IRS, b + len)
          BY Zenon, <4>1, <4>3, SeqAddTwice
        <4>5. QED
          BY Zenon, <4>2, <4>3, <4>4 DEF len
      <3> HIDE DEF seq
      <3>3. QED
        BY Zenon, <1>12, <1>13, <1>15, <3>1, <3>2, RxFinStream
    <2>2. CASE ~q.fin
      <3>1. tcp' = u
        BY <1>14, <2>2 DEF FinPart
      <3>2. Edge(u, u)
        BY <1>15 DEF Edge, Rx, RxTypes
      <3>3. QED
        BY Zenon, <1>13, <1>15, <3>1, <3>2
    <2>3. QED
      BY Zenon, <2>1, <2>2
  <1>17. Edge(tcp', tcp)
    <2>1. RxTypes(tcp) /\ RxTypes(d) /\ RxTypes(t) /\ RxTypes(u) /\ RxTypes(tcp')
      BY Zenon, <1>1, <1>5, <1>8, <1>15, <1>16 DEF Rx
    <2>2. Edge(t, tcp)
      BY Zenon, <1>5, <1>8, <2>1, EdgeTwice
    <2>3. Edge(u, tcp)
      BY Zenon, <1>15, <2>1, <2>2, EdgeTwice
    <2>4. QED
      BY Zenon, <1>16, <2>1, <2>3, EdgeTwice
  <1>18. PeerLen + 2 < SeqSpace /\ OrderInv => OrderInv'
    <2>1. Order(t) => Order(u)
      BY Zenon, <1>8, <1>13, KeptOrder
    <2>2. QED
      BY Zenon, <1>1, <1>5, <1>8, <1>16, <2>1 DEF OrderInv
  <1>19. Stepped
    BY Zenon, <1>16, <1>17, <1>18 DEF Stepped
  <1>20. tcp_xfer_window(d) = tcp_xfer_window(tcp)
    BY Zenon, <1>3 DEF Frame, SameState, tcp_xfer_window, TxEmpty, tcp_xmit_win, CanSendData
  <1>21. /\ \/ tcp'.xfer_closed
            \/ seen' = tcp_xfer_window(tcp')
            \/ /\ seen' = seen /\ tcp_xfer_window(tcp') = tcp_xfer_window(tcp)
               /\ tcp'.xfer_closed = tcp.xfer_closed
         /\ \/ seen' = seen
            \/ \E x : Tx(x) /\ seen' = tcp_xfer_window(x)
    <2>1. CASE called
      BY Zenon, <1>13, <1>14, <1>16, <2>1
    <2>2. CASE ~called
      BY Zenon, <1>5, <1>11, <1>14, <1>16, <1>20, <2>2
    <2>3. QED
      BY <2>1, <2>2
  <1>22. QED
    BY ZenonT(60), <1>19, <1>21

\* What decides the transmit window.
LEMMA SameWindow ==
    ASSUME NEW t, NEW u, SameState(u, t) \/ SameTx(u, t)
    PROVE  tcp_xfer_window(u) = tcp_xfer_window(t)
  <1>1. /\ u.sent = t.sent /\ u.acked = t.acked /\ u.snd_win = t.snd_win
        /\ u.txends = t.txends
    BY Zenon DEF SameState, SameTx
  <1>2. QED
    BY Zenon, <1>1 DEF tcp_xfer_window, TxEmpty, tcp_xmit_win, CanSendData

\* The transmit window is a natural number.
LEMMA WindowNat ==
    ASSUME NEW t, Tx(t)
    PROVE  tcp_xfer_window(t) \in Nat
  <1>1. t.snd_win \in Nat /\ PathMTU \in Nat
    BY SequenceSpace DEF Tx, TxTypes
  <1>2. QED
    BY <1>1 DEF tcp_xfer_window, tcp_xmit_win, MinOf

\* The invariant behind WindowNotified: while tcp_rx() runs, a window that has not
\* changed since it began is one that the application knows.
Told ==
    /\ oldwin \in Nat /\ seen \in Nat
    /\ pc = "idle" /\ ~tcp.xfer_closed /\ tcp_xfer_window(tcp) > 0 => seen > 0
    /\ /\ pc = "rx" /\ ~tcp.xfer_closed
       /\ tcp_xfer_window(tcp) > 0 /\ tcp_xfer_window(tcp) = oldwin
       => seen > 0

\* A call that leaves the transmit window as it was, or closes the interface.
LEMMA ToldKept ==
    ASSUME Told, pc = "idle", UNCHANGED <<pc, oldwin, seen>>,
           \/ tcp'.xfer_closed
           \/ /\ tcp_xfer_window(tcp') = tcp_xfer_window(tcp)
              /\ tcp'.xfer_closed \/ ~tcp.xfer_closed
    PROVE  Told'
  BY DEF Told

\* tcp_open() starts both halves at the beginning of the streams.
LEMMA OpenStream ==
    ASSUME StreamInv, Told, tcp_open
    PROVE  Stepped /\ Told'
  <1>1. Control(tcp) /\ Record(tcp) /\ HasFields(tcp) /\ pc' = "idle" /\ ~tcp.listed /\ pc = "new"
    BY DEF tcp_open, StreamInv, ControlInv, Control, Record
  <1>2. /\ tcp.una = 0 /\ tcp.snd_seq = ISS
        /\ tcp.txhead = 0 /\ tcp.txtail = 0 /\ tcp.txends = {}
        /\ tcp.snd_sent = 0 /\ tcp.rnxt = 0 /\ tcp.delivered = <<>>
        /\ TxTypes(tcp) /\ RxTypes(tcp) /\ tcp.pending_data = Cardinality(tcp.txends)
    BY Zenon, <1>1 DEF StreamInv, ControlInv, Tx, Rx
  <1>3. tcp.acked = {} /\ tcp.rcvd = {} /\ tcp.rx_queue = <<>>
    BY <1>1 DEF Control, Shape, Quiet, CLOSED, StateIs
  <1>4. /\ tcp'.listed = TRUE /\ tcp'.sent = {"SYN"} /\ tcp'.pending_flags = 1
        /\ tcp'.acked = tcp.acked /\ tcp'.rcvd = tcp.rcvd
        /\ tcp'.xfer_closed = tcp.xfer_closed /\ tcp'.ack_pending = tcp.ack_pending
        /\ tcp'.snd_seq = tcp.snd_seq /\ tcp'.snd_sent = tcp.snd_sent
        /\ tcp'.snd_win = tcp.snd_win /\ tcp'.rcv_ack = tcp.rcv_ack
        /\ tcp'.rcv_win = tcp.rcv_win /\ tcp'.max_rcv_win = tcp.max_rcv_win
        /\ tcp'.txhead = tcp.txhead /\ tcp'.txtail = tcp.txtail
        /\ tcp'.txends = tcp.txends /\ tcp'.rx_queue = tcp.rx_queue
        /\ tcp'.pending_data = tcp.pending_data /\ tcp'.una = tcp.una
        /\ tcp'.nxt = tcp.nxt /\ tcp'.rnxt = tcp.rnxt /\ tcp'.delivered = tcp.delivered
    BY Zenon, <1>1 DEF tcp_open, HasFields, Fields
  <1>5. TxTypes(tcp') /\ RxTypes(tcp')
    BY Zenon, <1>2, <1>4 DEF TxTypes, RxTypes, Flags
  <1>6. Sending(tcp') = {"SYN"}
    BY <1>3, <1>4 DEF Sending
  <1>7. FlagCount(Sending(tcp')) = 1 /\ SendingFlag(tcp') # {} /\ FlagCount(tcp'.acked) = 0
    BY <1>3, <1>4, <1>6 DEF FlagCount, SendingFlag
  <1>8. tcp'.snd_seq = SeqAdd(ISS, tcp'.una)
    <2>1. ISS \in 0..(SeqSpace - 1) /\ SeqSpace \in Nat
      BY SequenceSpace
    <2>2. SeqAdd(ISS, 0) = ISS
      BY <2>1 DEF SeqAdd
    <2>3. QED
      BY Zenon, <1>2, <1>4, <2>2
  <1>9. InStep(tcp')
    <2>1. /\ tcp'.una = 0 /\ tcp'.txhead = 0 /\ tcp'.txtail = 0 /\ tcp'.txends = {}
          /\ tcp'.snd_sent = 0
      BY Zenon, <1>2, <1>4
    <2>2. QED
      BY <1>7, <1>8, <2>1 DEF InStep
  <1>10. Tx(tcp')
    BY Zenon, <1>2, <1>4, <1>5, <1>7, <1>9 DEF Tx
  <1>11. Rx(tcp') /\ Edge(tcp', tcp)
    <2>1. "SYN" \notin tcp'.rcvd
      BY <1>3, <1>4
    <2>2. Rx(tcp')
      BY Zenon, <1>2, <1>4, <1>5, <2>1 DEF Rx
    <2>3. tcp.rnxt + tcp.rcv_win >= tcp.rnxt + tcp.rcv_win
      BY <1>2 DEF RxTypes
    <2>4. QED
      BY Zenon, <1>4, <2>2, <2>3 DEF Edge
  <1>12. OrderInv'
    <2>1. Len(tcp'.delivered) = 0 /\ Len(tcp'.rx_queue) = 0 /\ "SYN" \notin tcp'.rcvd
      BY <1>2, <1>3, <1>4
    <2>2. Order(tcp')
      BY <2>1 DEF Order
    <2>3. Gap(tcp')
      BY <1>3, <1>4 DEF Gap
    <2>4. QED
      BY ZenonT(60), <2>2, <2>3 DEF OrderInv
  <1>13. tcp_xfer_window(tcp') = 0
    BY <1>3, <1>4 DEF tcp_xfer_window, tcp_xmit_win, CanSendData
  <1>14. Told'
    BY <1>1, <1>13 DEF Told, tcp_open
  <1>15. QED
    BY Zenon, <1>10, <1>11, <1>12, <1>14 DEF Stepped

\* The calls that end in tcp_xmit() or in tcp_close() with an error.
LEMMA CallStream ==
    ASSUME StreamInv, Told, Idle, UNCHANGED <<pc, oldwin, seen>>,
           NEW t, Record(t), SameTx(t, tcp), SameRx(t, tcp),
           \/ tcp' = Abort(t)
           \/ \E out \in Outs, w \in AppWins : tcp' = tcp_xmit(t, out, w)
    PROVE  Stepped /\ Told'
  <1>1. pc = "idle" /\ pc # "rx" /\ Tx(tcp) /\ Rx(tcp) /\ Record(t)
    BY DEF Idle, StreamInv
  <1>2. Tx(t) /\ RxKept(t, tcp)
    BY Zenon, <1>1, SameTxKept, SameRxKept
  <1>3. CASE tcp' = Abort(t)
    <2>1. Stepped /\ tcp'.xfer_closed
      BY Zenon, <1>1, <1>2, <1>3, AbortStepped
    <2>2. QED
      BY Zenon, <1>1, <2>1, ToldKept
  <1>4. CASE \E out \in Outs, w \in AppWins : tcp' = tcp_xmit(t, out, w)
    <2>1. PICK out \in Outs, w \in AppWins : tcp' = tcp_xmit(t, out, w)
      BY Zenon, <1>4
    <2>2. Stepped
      BY Zenon, <1>1, <1>2, <2>1, XmitStepped
    <2>3. SameState(tcp', t)
      BY <1>1, <2>1, XmitEffect
    <2>4. tcp_xfer_window(tcp') = tcp_xfer_window(tcp)
      BY Zenon, <2>3, SameWindow
    <2>5. tcp'.xfer_closed = tcp.xfer_closed
      BY Zenon, <2>3 DEF SameState, SameRx
    <2>6. QED
      BY Zenon, <1>1, <2>2, <2>4, <2>5, ToldKept
  <1>5. QED
    BY Zenon, <1>3, <1>4

\* tcp_rx() once the queue has been processed.
LEMMA DoneStream ==
    ASSUME StreamInv, Told, tcp_rx_done
    PROVE  Stepped /\ Told'
  <1>1. /\ pc = "rx" /\ pc' = "idle" /\ oldwin' = 0 /\ ~ReadyToProcess(tcp)
        /\ Control(tcp) /\ Record(tcp) /\ Tx(tcp) /\ Rx(tcp) /\ HasFields(tcp)
        /\ seen' = IF tcp_xfer_window(tcp') # oldwin THEN tcp_xfer_window(tcp') ELSE seen
    BY DEF tcp_rx_done, StreamInv, ControlInv, Control, Record
  <1>2. PICK t : /\ tcp' = StartWait(t)
                 /\ \/ t = [tcp EXCEPT !.process = TRUE]
                    \/ \E out \in Outs, w \in AppWins : t = tcp_xmit(tcp, out, w)
    BY DEF tcp_rx_done
  <1>3. /\ Record(t) /\ Tx(t) /\ RxKept(t, tcp)
        /\ tcp_xfer_window(t) = tcp_xfer_window(tcp) /\ t.xfer_closed = tcp.xfer_closed
    <2>1. CASE t = [tcp EXCEPT !.process = TRUE]
      <3>1. Record(t) /\ SameTx(t, tcp) /\ SameRx(t, tcp)
        BY Zenon, <1>1, <2>1 DEF Record, HasFields, Fields, SameTx, SameRx
      <3>2. QED
        BY Zenon, <1>1, <3>1, SameTxKept, SameRxKept, SameWindow DEF SameRx
    <2>2. CASE \E out \in Outs, w \in AppWins : t = tcp_xmit(tcp, out, w)
      <3>1. PICK out \in Outs, w \in AppWins : t = tcp_xmit(tcp, out, w)
        BY Zenon, <2>2
      <3>2. Record(t) /\ SameState(t, tcp)
        BY <1>1, <3>1, XmitEffect
      <3>3. w \in Nat
        BY TcpConstants
      <3>4. Tx(t) /\ RxKept(t, tcp)
        BY Zenon, <1>1, <3>1, <3>3, XmitTx, XmitRx
      <3>5. QED
        BY Zenon, <3>2, <3>4, SameWindow DEF SameState
    <2>3. QED
      BY Zenon, <1>2, <2>1, <2>2
  <1>4. SameTx(tcp', t) /\ SameRx(tcp', t)
    <2>1. CASE tcp' = t
      BY Zenon, <2>1 DEF SameTx, SameRx
    <2>2. CASE tcp' = [t EXCEPT !.wait = TRUE]
      BY Zenon, <1>3, <2>2 DEF Record, HasFields, Fields, SameTx, SameRx
    <2>3. QED
      BY Zenon, <1>2, <2>1, <2>2 DEF StartWait
  <1>5. Tx(tcp') /\ RxKept(tcp', tcp)
    <2>1. Rx(t)
      BY Zenon, <1>1, <1>3, RxKeptRx
    <2>2. QED
      BY Zenon, <1>1, <1>3, <1>4, <2>1, SameTxKept, SameRxKept, RxKeptTwice
  <1>6. tcp_xfer_window(tcp') = tcp_xfer_window(tcp) /\ tcp'.xfer_closed = tcp.xfer_closed
    BY Zenon, <1>3, <1>4, SameWindow DEF SameRx
  <1>7. Gap(tcp)
    <2> SUFFICES ASSUME tcp.rx_queue # <<>>
                 PROVE  tcp_cmp(Head(tcp.rx_queue).seq, tcp.rcv_ack) > 0
      BY DEF Gap
    <2> DEFINE a == Head(tcp.rx_queue).seq
               b == tcp.rcv_ack
    <2>1. a \in 0..(SeqSpace - 1) /\ b \in 0..(SeqSpace - 1)
      <3>1. tcp.rx_queue \in Seq(Queued) /\ tcp.rcv_ack \in 0..(SeqSpace - 1)
        BY <1>1 DEF Rx, RxTypes
      <3>2. Head(tcp.rx_queue) \in Queued
        BY <3>1
      <3>3. QED
        BY Zenon, <3>1, <3>2, QueuedFields
    <2>2. ~(tcp_cmp(a, b) <= 0)
      BY <1>1 DEF ReadyToProcess
    <2> HIDE DEF a, b
    <2>3. tcp_cmp(a, b) \in Int
      <3>1. SeqDiff(a, b) \in 0..(SeqSpace - 1)
        BY <2>1, SeqMoves
      <3>2. QED
        BY <3>1, SequenceSpace DEF tcp_cmp
    <2>4. QED
      BY <2>2, <2>3 DEF a, b
  <1>8. Stepped
    <2>1. Rx(tcp') /\ Edge(tcp', tcp)
      BY Zenon, <1>1, <1>5, RxKeptRx, KeptEdge
    <2>2. OrderInv => OrderInv'
      BY Zenon, <1>1, <1>5, <1>7, KeptOrder, KeptGap DEF OrderInv
    <2>3. QED
      BY Zenon, <1>5, <2>1, <2>2 DEF Stepped
  <1>9. Told'
    <2>1. tcp_xfer_window(tcp') \in Nat /\ seen' \in Nat
      BY <1>1, <1>5, WindowNat DEF Told
    <2>2. CASE tcp_xfer_window(tcp') # oldwin
      BY <1>1, <2>1, <2>2 DEF Told
    <2>3. CASE tcp_xfer_window(tcp') = oldwin
      BY <1>1, <1>6, <2>1, <2>3 DEF Told
    <2>4. QED
      BY <2>2, <2>3
  <1>10. QED
    BY ZenonT(60), <1>8, <1>9

-----------------------------------------------------------------------------
(* The invariants.                                                         *)

\* The invariants hold of a new connection.
LEMMA StreamInit == Init => StreamInv /\ OrderInv /\ Told
  <1> SUFFICES ASSUME Init PROVE StreamInv /\ OrderInv /\ Told
    OBVIOUS
  <1>1. ControlInv
    BY ControlInit
  <1>2. TxTypes(tcp) /\ RxTypes(tcp)
    <2>1. IsFiniteSet({}) /\ <<>> \in Seq(Queued) /\ <<>> \in Seq(Nat)
      BY FS_EmptySet
    <2>2. TxTypes(tcp)
      BY <2>1, SequenceSpace DEF Init, TxTypes, Flags
    <2>3. RxTypes(tcp)
      BY <2>1, SequenceSpace DEF Init, RxTypes, Flags
    <2>4. QED
      BY <2>2, <2>3
  <1>3. tcp.pending_data = Cardinality(tcp.txends)
    BY FS_EmptySet DEF Init
  <1>4. tcp.pending_flags = FlagCount(Sending(tcp))
    BY DEF Init, FlagCount, Sending
  <1>5. ~tcp.listed
    BY DEF Init
  <1>6. Tx(tcp) /\ Rx(tcp)
    BY Zenon, <1>2, <1>3, <1>4, <1>5 DEF Tx, Rx
  <1>7. /\ tcp.txhead = 0 /\ tcp.txtail = 0 /\ tcp.txends = {}
        /\ tcp.snd_sent = 0 /\ tcp.rnxt = 0 /\ tcp.delivered = <<>> /\ tcp.rx_queue = <<>>
    BY DEF Init
  <1>8. StreamInv
    BY Zenon, <1>1, <1>6, <1>7 DEF StreamInv
  <1>9. OrderInv
    <2>1. Len(tcp.delivered) = 0 /\ Len(tcp.rx_queue) = 0
      BY <1>7
    <2>2. QED
      BY <1>5, <1>7, <2>1 DEF OrderInv, Order, Gap
  <1>10. Told
    BY DEF Init, Told
  <1>11. QED
    BY Zenon, <1>8, <1>9, <1>10

\* Every action of Tcp.tla keeps both halves of the connection.
LEMMA EveryStep ==
    ASSUME ~EarlySyn, StreamInv, Told, [Next]_vars
    PROVE  Stepped /\ Told'
  <1>0. Tx(tcp) /\ Rx(tcp) /\ Control(tcp)
    BY DEF StreamInv, ControlInv
  <1>1. CASE tcp_open
    BY <1>1, OpenStream
  <1>2. CASE \E n \in TxSizes : tcp_xfer_deliver(n)
    <2>1. PICK n \in TxSizes, out \in Outs, w \in AppWins :
            /\ Idle /\ ~tcp.xfer_closed /\ pc' = pc /\ oldwin' = oldwin
            /\ tcp' = Sent(tcp, n, out, w) /\ seen' = tcp_xfer_window(tcp')
      BY <1>2 DEF tcp_xfer_deliver
    <2>2. pc = "idle" /\ pc # "rx" /\ tcp.listed
      BY <2>1 DEF Idle
    <2>3. Tx(tcp') /\ RxKept(tcp', tcp)
      BY Zenon, <1>0, <2>1, <2>2, SentStream
    <2>4. Stepped
      BY Zenon, <1>0, <2>2, <2>3, KeptStep
    <2>5. tcp_xfer_window(tcp') \in Nat
      BY Zenon, <2>3, WindowNat
    <2>6. Told'
      BY <2>1, <2>2, <2>5 DEF Told
    <2>7. QED
      BY <2>4, <2>6
  <1>3. CASE tcp_xfer_close
    <2>1. PICK out \in Outs, w \in AppWins :
            /\ Idle /\ UNCHANGED <<pc, oldwin, seen>>
            /\ tcp' = tcp_xmit(tcp_close(tcp), out, w)
      BY <1>3 DEF tcp_xfer_close
    <2>2. pc = "idle" /\ pc # "rx" /\ tcp.listed
      BY <2>1 DEF Idle
    <2>3. Tx(tcp') /\ RxKept(tcp', tcp) /\ tcp'.xfer_closed
      BY Zenon, <1>0, <2>1, <2>2, CloseStream
    <2>4. Stepped
      BY Zenon, <1>0, <2>2, <2>3, KeptStep
    <2>5. QED
      BY Zenon, <2>1, <2>2, <2>3, <2>4, ToldKept
  <1>4. CASE \E over \in BOOLEAN : tcp_expired(over)
    <2> DEFINE t == [tcp EXCEPT !.timer = FALSE]
    <2>1. /\ Idle /\ UNCHANGED <<pc, oldwin, seen>>
          /\ \/ tcp' = Abort(t)
             \/ \E out \in Outs, w \in AppWins : tcp' = tcp_xmit(t, out, w)
      BY Zenon, <1>4 DEF tcp_expired
    <2>2. Record(t) /\ SameTx(t, tcp) /\ SameRx(t, tcp)
      BY Zenon, <1>0 DEF Control, Record, HasFields, Fields, SameTx, SameRx
    <2> HIDE DEF t
    <2>3. QED
      BY Zenon, <2>1, <2>2, CallStream
  <1>5. CASE tcp_wait_expired
    <2> DEFINE t == [tcp EXCEPT !.wait = FALSE]
    <2>1. Idle /\ UNCHANGED <<pc, oldwin, seen>> /\ tcp' = Abort(t)
      BY Zenon, <1>5 DEF tcp_wait_expired
    <2>2. Record(t) /\ SameTx(t, tcp) /\ SameRx(t, tcp)
      BY Zenon, <1>0 DEF Control, Record, HasFields, Fields, SameTx, SameRx
    <2> HIDE DEF t
    <2>3. QED
      BY Zenon, <2>1, <2>2, CallStream
  <1>6. CASE tcp_process
    <2> DEFINE t == [tcp EXCEPT !.process = FALSE]
    <2>1. /\ Idle /\ UNCHANGED <<pc, oldwin, seen>>
          /\ \E out \in Outs, w \in AppWins : tcp' = tcp_xmit(t, out, w)
      BY Zenon, <1>6 DEF tcp_process
    <2>2. Record(t) /\ SameTx(t, tcp) /\ SameRx(t, tcp)
      BY Zenon, <1>0 DEF Control, Record, HasFields, Fields, SameTx, SameRx
    <2> HIDE DEF t
    <2>3. QED
      BY Zenon, <2>1, <2>2, CallStream
  <1>7. CASE tcp_discarder
    <2>1. Idle /\ UNCHANGED <<pc, oldwin, seen>> /\ tcp' = tcp_discard(tcp) /\ Record(tcp)
      BY <1>0, <1>7 DEF tcp_discarder, Control
    <2>2. pc = "idle" /\ pc # "rx" /\ tcp.listed
      BY <2>1 DEF Idle
    <2>3. SameTx(tcp', tcp) /\ RxKept(tcp', tcp)
      BY Zenon, <1>0, <2>1, DiscardRx
    <2>4. Tx(tcp')
      BY Zenon, <1>0, <2>3, SameTxKept
    <2>5. Stepped
      BY Zenon, <1>0, <2>2, <2>3, <2>4, KeptStep
    <2>6. /\ tcp_xfer_window(tcp') = tcp_xfer_window(tcp)
          /\ tcp'.xfer_closed \/ ~tcp.xfer_closed
      BY Zenon, <2>3, SameWindow DEF RxKept
    <2>7. QED
      BY Zenon, <2>1, <2>2, <2>5, <2>6, ToldKept
  <1>8. CASE tcp_shutdown
    <2>1. Idle /\ UNCHANGED <<pc, oldwin, seen>> /\ tcp' = Abort(tcp) /\ Record(tcp)
      BY <1>0, <1>8 DEF tcp_shutdown, Control
    <2>2. SameTx(tcp, tcp) /\ SameRx(tcp, tcp)
      BY Zenon DEF SameTx, SameRx
    <2>3. QED
      BY Zenon, <2>1, <2>2, CallStream
  <1>9. CASE \E s \in Segments : tcp_rx(s)
    <2>1. PICK s \in Segments : tcp_rx(s)
      BY <1>9
    <2>2. /\ Stepped
          /\ pc' = "rx" => tcp'.xfer_closed = tcp.xfer_closed
          /\ pc' # "rx" => tcp'.xfer_closed
      BY Zenon, <2>1, RxStream
    <2>3. /\ pc = "idle" /\ seen' = seen
          /\ \/ pc' = "idle" /\ oldwin' = oldwin
             \/ pc' = "rx" /\ oldwin' = tcp_xfer_window(tcp)
      BY <2>1 DEF tcp_rx, Idle
    <2>4. tcp_xfer_window(tcp) \in Nat
      BY Zenon, <1>0, WindowNat
    <2>5. Told'
      BY <2>2, <2>3, <2>4 DEF Told
    <2>6. QED
      BY <2>2, <2>5
  <1>10. CASE tcp_process_rx_queue
    <2>1. /\ Stepped
          /\ \/ tcp'.xfer_closed
             \/ seen' = tcp_xfer_window(tcp')
             \/ /\ seen' = seen /\ tcp_xfer_window(tcp') = tcp_xfer_window(tcp)
                /\ tcp'.xfer_closed = tcp.xfer_closed
          /\ \/ seen' = seen
             \/ \E u : Tx(u) /\ seen' = tcp_xfer_window(u)
      BY Zenon, <1>10, QueueStream
    <2>2. seen' \in Nat
      BY Zenon, <2>1, WindowNat DEF Told
    <2>3. pc = "rx" /\ pc' = "rx" /\ oldwin' = oldwin
      BY <1>10 DEF tcp_process_rx_queue
    <2>4. Told'
      BY <2>1, <2>2, <2>3 DEF Told
    <2>5. QED
      BY <2>1, <2>4
  <1>11. CASE tcp_rx_done
    BY <1>11, DoneStream
  <1>12. CASE UNCHANGED vars
    <2>1. tcp' = tcp /\ pc' = pc /\ oldwin' = oldwin /\ seen' = seen
      BY <1>12 DEF vars
    <2>2. tcp.rnxt + tcp.rcv_win >= tcp.rnxt + tcp.rcv_win
      BY <1>0 DEF Rx, RxTypes
    <2>3. Stepped
      BY Zenon, <1>0, <2>1, <2>2 DEF Stepped, OrderInv, Edge
    <2>4. Told'
      BY Zenon, <2>1 DEF Told
    <2>5. QED
      BY <2>3, <2>4
  <1>13. QED
    BY <1>1, <1>2, <1>3, <1>4, <1>5, <1>6, <1>7, <1>8, <1>9, <1>10, <1>11, <1>12
       DEF Next, tcp_rx_refused

\* The invariants are inductive.
LEMMA StreamStep ==
    ASSUME ~EarlySyn, StreamInv, Told, [Next]_vars
    PROVE  StreamInv' /\ Stepped /\ Told'
  <1>1. ControlInv'
    BY ControlStep DEF StreamInv
  <1>2. Stepped /\ Told'
    BY EveryStep
  <1>3. pc' # "new" \/ UNCHANGED vars
    BY DEF Next, tcp_open, tcp_xfer_deliver, tcp_xfer_close, tcp_expired, tcp_wait_expired,
       tcp_process, tcp_discarder, tcp_shutdown, tcp_rx, tcp_rx_refused,
       tcp_process_rx_queue, tcp_rx_done, Idle
  <1>4. StreamInv'
    BY Zenon, <1>1, <1>2, <1>3 DEF StreamInv, Stepped, vars
  <1>5. QED
    BY <1>2, <1>4

\* The invariants imply the type invariant of Tcp.tla.
LEMMA ConnectionTyped ==
    ASSUME StreamInv, Told
    PROVE  TypeOK
  <1>1. Record(tcp) /\ TxTypes(tcp) /\ RxTypes(tcp) /\ HasFields(tcp)
    BY DEF StreamInv, ControlInv, Control, Record, Tx, Rx
  <1>2. tcp.pending_flags \in Nat /\ tcp.pending_data \in Nat
    BY FS_CardinalityType DEF StreamInv, Tx, TxTypes, FlagCount
  <1>3. tcp \in Connection
    BY Zenon, <1>1, <1>2 DEF Record, TxTypes, RxTypes, HasFields, Fields, Connection
  <1>4. QED
    BY <1>3 DEF TypeOK, StreamInv, ControlInv, Told

\* With a peer whose SYN answers ours, the invariants hold in every state.
LEMMA StreamAlways == ASSUME ~EarlySyn PROVE Spec => [](StreamInv /\ Told)
  <1>1. Init => StreamInv /\ Told
    BY StreamInit
  <1>2. StreamInv /\ Told /\ [Next]_vars => (StreamInv /\ Told)'
    BY StreamStep
  <1>3. QED
    BY <1>1, <1>2, PTL DEF Spec

\* Sequence numbers stay in step with the two streams: snd_seq with the transmit
\* queue, after SYN and before FIN, and rcv_ack with what has been received,
\* however often the sequence space wraps (tcp_rx_ack(), tcp_rx_seq()).
THEOREM SequencesInStep == ASSUME ~EarlySyn PROVE Spec => []SequenceInStep
  <1>1. StreamInv /\ Told => SequenceInStep
    <2> SUFFICES ASSUME StreamInv, Told PROVE SequenceInStep
      OBVIOUS
    <2>1. TypeOK /\ Tx(tcp) /\ Rx(tcp)
      BY ConnectionTyped DEF StreamInv
    <2>2. Cardinality(tcp.acked \cap {"SYN", "FIN"}) = FlagCount(tcp.acked)
      BY CountFlags
    <2>3. QED
      BY Zenon, <2>1, <2>2 DEF SequenceInStep, Tx, InStep, Rx
  <1>2. QED
    BY <1>1, StreamAlways, PTL

\* Pending operations are counted exactly, so pending_get() and pending_put()
\* balance on every path of tcp.c, tcp_close() with an error included.
THEOREM PendingCounted == ASSUME ~EarlySyn PROVE Spec => []PendingExact
  <1>1. StreamInv /\ Told => PendingExact
    <2> SUFFICES ASSUME StreamInv PROVE PendingExact
      OBVIOUS
    <2>1. Cardinality(Sending(tcp) \cap {"SYN", "FIN"}) = FlagCount(Sending(tcp))
      BY CountFlags
    <2>2. QED
      BY Zenon, <2>1 DEF PendingExact, StreamInv, Tx, SendingFlag
  <1>2. QED
    BY <1>1, StreamAlways, PTL

\* The application has been told of every open window when no call is running:
\* the comparison at the end of tcp_rx() misses no change (tcp.c:1304).
THEOREM WindowTold == ASSUME ~EarlySyn PROVE Spec => []WindowNotified
  <1>1. StreamInv /\ Told => WindowNotified
    BY DEF Told, WindowNotified
  <1>2. QED
    BY <1>1, StreamAlways, PTL

\* The right edge of the receive window never moves back, whatever tcp_discard()
\* frees and whatever window the application asks for.
THEOREM WindowNeverShrinks == ASSUME ~EarlySyn PROVE Spec => RightEdgeAdvances
  <1>1. StreamInv /\ Told /\ [Next]_vars
          => [tcp.listed /\ tcp'.listed /\ "SYN" \in tcp.rcvd
                => tcp'.rnxt + tcp'.rcv_win >= tcp.rnxt + tcp.rcv_win]_vars
    BY Zenon, StreamStep DEF Stepped, Edge
  <1>2. QED
    BY <1>1, StreamAlways, PTL DEF Spec, RightEdgeAdvances

\* Data is delivered in order, without gap or repetition.  A segment may arrive
\* arbitrarily late, so this needs a stream that does not wrap the sequence space
\* (what the maximum segment lifetime gives TCP): its SYN, bytes and FIN, and the
\* number after them, are distinct.
THEOREM DeliversInOrder ==
    ASSUME ~EarlySyn, PeerLen + 2 < SeqSpace
    PROVE  Spec => []DeliveredInOrder
  <1>1. Init => StreamInv /\ Told /\ OrderInv
    BY StreamInit
  <1>2. StreamInv /\ Told /\ OrderInv /\ [Next]_vars => (StreamInv /\ Told /\ OrderInv)'
    BY StreamStep DEF Stepped
  <1>3. OrderInv => DeliveredInOrder
    BY DEF OrderInv, Order, Gap, DeliveredInOrder
  <1>4. QED
    BY <1>1, <1>2, <1>3, PTL DEF Spec
=============================================================================
