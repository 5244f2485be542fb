-------------------------- MODULE TcpReceiveProofs --------------------------
(***************************************************************************)
(* What the receiving functions of net/tcp.c do to the two byte streams,   *)
(* to the right edge of the receive window and to the order of delivery.   *)
(***************************************************************************)
EXTENDS TcpStreamProofs

\* The provers tried, in this order, where a step names none
USE SMT, Zenon, SMTT(90), ZenonT(60)

\* Distances in the peer's sequence space, wrap or no wrap.
LEMMA SeqDistance ==
    ASSUME NEW a \in Int, NEW b \in Int, NEW k \in Int, NEW d \in 0..(SeqSpace - 1),
           a - b = SeqSpace * k + d
    PROVE  SeqDiff(SeqAdd(IRS, a), SeqAdd(IRS, b)) = d
  <1> DEFINE N == SeqSpace
             x == IRS + a
             y == IRS + b
             e == x \div N
             f == y \div N
             r == x % N
             s == y % N
             q == k - e + f
  <1>0. N \in Nat \ {0} /\ IRS \in Int
    BY SequenceSpace
  <1>1. x \in Int /\ y \in Int /\ x - y = N * k + d
    BY <1>0
  <1> HIDE DEF x, y, N
  <1>2. x = N * e + r /\ e \in Int /\ r \in Int
    BY <1>0, <1>1, DivMod
  <1>3. y = N * f + s /\ f \in Int /\ s \in Int
    BY <1>0, <1>1, DivMod
  <1> HIDE DEF e, f, r, s
  <1>4. r - s = N * q + d /\ q \in Int
    BY <1>0, <1>1, <1>2, <1>3
  <1> HIDE DEF q
  <1>5. d \in 0..(N - 1)
    BY DEF N
  <1>6. (N * q + d) % N = d
    BY Zenon, <1>0, <1>4, <1>5, ModUnique
  <1>7. (r - s) % N = d
    BY Zenon, <1>4, <1>6
  <1>8. QED
    BY Zenon, <1>7 DEF SeqDiff, SeqAdd, r, s, x, y, N

\* A packet of the peer's stream as it waits in the queue.
Genuine(q) ==
    /\ q.seq = SeqAdd(IRS, 1 + q.from) /\ q.from + q.len <= PeerLen
    /\ q.fin => q.from + q.len = PeerLen

\* What has been delivered is the stream so far; until the application closes it
\* has got all that has been received; all that waits belongs to the stream.
Order(t) ==
    /\ \A i \in 1..Len(t.delivered) : t.delivered[i] = i - 1
    /\ t.listed /\ "SYN" \in t.rcvd =>
         /\ t.rnxt \in 1..(PeerLen + 2)
         /\ ~t.xfer_closed => t.rnxt = 1 + Len(t.delivered)
    /\ \A i \in 1..Len(t.rx_queue) : Genuine(t.rx_queue[i])

\* What receives nothing keeps the order of delivery.
LEMMA KeptOrder ==
    ASSUME NEW t, NEW u, Rx(t), Order(t), RxKept(u, t)
    PROVE  Order(u)
  <1>1. \A i \in 1..Len(u.rx_queue) : i \in 1..Len(t.rx_queue)
    BY DEF RxKept, Rx, RxTypes
  <1>2. QED
    BY Zenon, <1>1 DEF Order, RxKept

\* Deliver() hands the application the bytes of a packet it does not have.
LEMMA DeliverEffect ==
    ASSUME NEW t, HasFields(t), RxTypes(t), NEW q \in Queued, HasNewData(t, q)
    PROVE  LET u == Deliver(t, q)
               k == q.len - AlreadyRcvd(t, q)
           IN /\ HasFields(u) /\ SameTx(u, t) /\ RxTypes(u)
              /\ u.listed = t.listed /\ u.xfer_closed = t.xfer_closed /\ u.rcvd = t.rcvd
              /\ u.rcv_ack = t.rcv_ack /\ u.rnxt = t.rnxt /\ u.rcv_win = t.rcv_win
              /\ u.rx_queue = t.rx_queue
              /\ k \in Nat /\ AlreadyRcvd(t, q) \in 0..(SeqSpace - 1)
              /\ t.xfer_closed => u.delivered = t.delivered
              /\ ~t.xfer_closed =>
                   /\ Len(u.delivered) = Len(t.delivered) + k
                   /\ \A i \in 1..Len(t.delivered) : u.delivered[i] = t.delivered[i]
                   /\ \A i \in 1..k : u.delivered[Len(t.delivered) + i] =
                                         q.from + AlreadyRcvd(t, q) + i - 1
  <1> DEFINE u == Deliver(t, q)
             a == AlreadyRcvd(t, q)
             k == q.len - a
             old == t.delivered
             more == [i \in 1..k |-> q.from + a + i - 1]
  <1>1. q.seq \in Int /\ q.from \in Nat /\ q.len \in Nat
    BY Zenon, QueuedFields
  <1>2. a \in 0..(SeqSpace - 1)
    <2>1. t.rcv_ack \in Int
      BY DEF RxTypes
    <2>2. QED
      BY Zenon, <1>1, <2>1, SeqMoves DEF AlreadyRcvd
  <1>3. k \in Nat /\ a \in Nat
    BY <1>1, <1>2, SequenceSpace DEF HasNewData
  <1>4. CASE t.xfer_closed
    <2>1. u = t
      BY <1>4 DEF Deliver
    <2>2. SameTx(t, t)
      BY DEF SameTx
    <2> HIDE DEF u, a, k
    <2>3. QED
      BY ZenonT(60), <1>2, <1>3, <1>4, <2>1, <2>2 DEF u, a, k
  <1>5. CASE ~t.xfer_closed
    <2>1. u = [t EXCEPT !.delivered = old \o more]
      BY Zenon, <1>5 DEF Deliver
    <2> HIDE DEF a
    <2>2. more \in Seq(Nat) /\ Len(more) = k /\ \A i \in 1..k : more[i] = q.from + a + i - 1
      <3>1. \A i \in 1..k : q.from + a + i - 1 \in Nat
        BY <1>1, <1>3
      <3>2. \A i \in 1..k : more[i] = q.from + a + i - 1
        OBVIOUS
      <3>3. more \in [1..k -> Nat]
        BY <3>1
      <3> HIDE DEF more, k
      <3>4. more \in Seq(Nat) /\ Len(more) = k
        BY <1>3, <3>3
      <3>5. QED
        BY <3>2, <3>4
    <2>3. old \in Seq(Nat) /\ Len(old) \in Nat
      BY DEF RxTypes
    <2> HIDE DEF k, old, more
    <2> DEFINE new == old \o more
    <2>4. /\ new \in Seq(Nat) /\ Len(new) = Len(old) + k
          /\ \A i \in 1..Len(old) : new[i] = old[i]
          /\ \A i \in 1..k : new[Len(old) + i] = more[i]
      BY <1>3, <2>2, <2>3, SeqJoin
    <2> HIDE DEF new, u
    <2>5. /\ HasFields(u) /\ SameTx(u, t) /\ u.delivered = new
          /\ u.listed = t.listed /\ u.xfer_closed = t.xfer_closed /\ u.rcvd = t.rcvd
          /\ u.rcv_ack = t.rcv_ack /\ u.rnxt = t.rnxt /\ u.rcv_win = t.rcv_win
          /\ u.rx_queue = t.rx_queue
          /\ u.ack_pending = t.ack_pending /\ u.max_rcv_win = t.max_rcv_win
      BY ZenonT(60), <2>1 DEF HasFields, Fields, SameTx, new
    <2>6. RxTypes(u)
      BY Zenon, <2>4, <2>5 DEF RxTypes
    <2>7. QED
      BY Zenon, <1>2, <1>3, <1>5, <2>2, <2>4, <2>5, <2>6 DEF u, a, k, old
  <1>6. QED
    BY <1>4, <1>5

\* What a genuine packet with new data brings: the bytes from the first one not
\* received, up to the end of the packet, which is within the stream.
LEMMA NewBytes ==
    ASSUME PeerLen + 2 < SeqSpace, NEW q \in Queued, Genuine(q), NEW r \in 1..(PeerLen + 2),
           SeqDiff(SeqAdd(IRS, r), q.seq) < q.len
    PROVE  SeqDiff(SeqAdd(IRS, r), q.seq) = r - 1 - q.from /\ r <= q.from + q.len
  <1> DEFINE from == q.from
             len == q.len
             b == 1 + from
             d == r - b
             e == SeqSpace + d
             x == SeqDiff(SeqAdd(IRS, r), q.seq)
  <1>1. from \in Nat /\ len \in Nat /\ PeerLen \in Nat /\ SeqSpace \in Nat
    BY Zenon, QueuedFields, TcpConstants, SequenceSpace
  <1>2. q.seq = SeqAdd(IRS, b) /\ from + len <= PeerLen
    BY DEF Genuine
  <1>3. r \in Int /\ b \in Int /\ 0 \in Int /\ -1 \in Int
    BY <1>1
  <1>4. x < len
    OBVIOUS
  <1> HIDE DEF from, len
  <1>5. CASE d >= 0
    <2>1. d \in 0..(SeqSpace - 1) /\ r - b = SeqSpace * 0 + d
      BY <1>1, <1>2, <1>5
    <2> HIDE DEF d, b
    <2>2. SeqDiff(SeqAdd(IRS, r), SeqAdd(IRS, b)) = d
      BY Zenon, <1>3, <2>1, SeqDistance
    <2>3. x = d
      BY ZenonT(60), <1>2, <2>2
    <2> HIDE DEF x
    <2>4. x = r - 1 - from /\ r <= from + len
      BY <1>1, <1>2, <1>4, <2>3 DEF d, b
    <2>5. QED
      BY <2>4 DEF x, from, len
  <1>6. CASE d < 0
    <2>1. e \in 0..(SeqSpace - 1) /\ r - b = SeqSpace * (-1) + e
      BY <1>1, <1>2, <1>6
    <2>2. e >= len
      BY <1>1, <1>2
    <2> HIDE DEF e, b
    <2>3. SeqDiff(SeqAdd(IRS, r), SeqAdd(IRS, b)) = e
      BY ZenonT(60), <1>3, <2>1, SeqDistance
    <2>4. x = e
      BY Zenon, <1>2, <2>3
    <2> HIDE DEF x
    <2>5. QED
      BY <1>1, <1>4, <2>1, <2>2, <2>4
  <1>7. QED
    BY <1>1, <1>5, <1>6

\* tcp_rx_data() on a packet of the peer's stream.
LEMMA RxDataStream ==
    ASSUME NEW t, Record(t), Tx(t), Rx(t), t.listed, "SYN" \in t.rcvd, NEW q \in Queued
    PROVE  LET u == tcp_rx_data(t, q) IN
           /\ Tx(u) /\ Rx(u) /\ Edge(u, t)
           /\ u.listed = t.listed /\ u.xfer_closed = t.xfer_closed
           /\ u.rcvd = t.rcvd /\ u.rx_queue = t.rx_queue
           /\ PeerLen + 2 < SeqSpace /\ Genuine(q) /\ Order(t) => Order(u)
  <1> DEFINE u == tcp_rx_data(t, q)
             d == Deliver(t, q)
             a == AlreadyRcvd(t, q)
             k == q.len - a
  <1>0. HasFields(t) /\ RxTypes(t) /\ t.rcv_ack = SeqAdd(IRS, t.rnxt)
    BY DEF Record, Rx
  <1>1. CASE ~HasNewData(t, q)
    <2>1. u = t
      BY <1>1 DEF tcp_rx_data
    <2>2. Edge(t, t)
      BY <1>0 DEF Edge, RxTypes
    <2> HIDE DEF u
    <2>3. QED
      BY Zenon, <2>1, <2>2 DEF u
  <1>2. CASE HasNewData(t, q)
    <2>1. u = tcp_rx_seq(d, k)
      BY <1>2 DEF tcp_rx_data
    <2>2. /\ HasFields(d) /\ SameTx(d, t) /\ RxTypes(d)
          /\ d.listed = t.listed /\ d.xfer_closed = t.xfer_closed /\ d.rcvd = t.rcvd
          /\ d.rcv_ack = t.rcv_ack /\ d.rnxt = t.rnxt /\ d.rcv_win = t.rcv_win
          /\ d.rx_queue = t.rx_queue
          /\ k \in Nat /\ a \in 0..(SeqSpace - 1)
          /\ t.xfer_closed => d.delivered = t.delivered
          /\ ~t.xfer_closed =>
               /\ Len(d.delivered) = Len(t.delivered) + k
               /\ \A i \in 1..Len(t.delivered) : d.delivered[i] = t.delivered[i]
               /\ \A i \in 1..k : d.delivered[Len(t.delivered) + i] = q.from + a + i - 1
      BY ZenonT(60), <1>0, <1>2, DeliverEffect
    <2> HIDE DEF d, k, u
    <2>3. /\ HasFields(u) /\ SameTx(u, d) /\ RxTypes(u) /\ Edge(u, d)
          /\ u.listed = d.listed /\ u.xfer_closed = d.xfer_closed /\ u.rcvd = d.rcvd
          /\ u.rcv_ack = SeqAdd(d.rcv_ack, k) /\ u.rnxt = d.rnxt + k
          /\ u.rx_queue = d.rx_queue /\ u.delivered = d.delivered
      BY ZenonT(90), <2>1, <2>2, SeqEffect
    <2>4. Tx(u)
      BY Zenon, <2>2, <2>3, SameTxKept
    <2>5. Rx(u)
      <3>1. IRS \in Int /\ t.rnxt \in Int /\ k \in Int
        BY <1>0, <2>2, SequenceSpace DEF RxTypes
      <3>2. SeqAdd(SeqAdd(IRS, t.rnxt), k) = SeqAdd(IRS, t.rnxt + k)
        BY Zenon, <3>1, SeqAddTwice
      <3>3. QED
        BY ZenonT(90), <1>0, <2>2, <2>3, <3>2 DEF Rx
    <2>6. Edge(u, t)
      BY Zenon, <2>2, <2>3 DEF Edge
    <2>7. ASSUME PeerLen + 2 < SeqSpace, Genuine(q), Order(t) PROVE Order(u)
      <3> DEFINE r == t.rnxt
                 old == t.delivered
                 new == u.delivered
      <3>1. r \in 1..(PeerLen + 2)
        BY <2>7 DEF Order
      <3>2. a = SeqDiff(SeqAdd(IRS, r), q.seq) /\ a < q.len
        BY Zenon, <1>0, <1>2 DEF AlreadyRcvd, HasNewData
      <3> HIDE DEF a, r
      <3>3. a = r - 1 - q.from /\ r <= q.from + q.len
        BY ZenonT(60), <2>7, <3>1, <3>2, NewBytes
      <3>4. q.from \in Nat /\ q.len \in Nat /\ PeerLen \in Nat /\ q.from + q.len <= PeerLen
        BY <2>7, QueuedFields, TcpConstants DEF Genuine
      <3>5. k = q.from + q.len + 1 - r
        BY <3>1, <3>3, <3>4 DEF k
      <3>6. r + k \in 1..(PeerLen + 2)
        BY <3>1, <3>4, <3>5
      <3>7. u.rnxt = r + k
        BY Zenon, <2>2, <2>3 DEF r
      <3>8. CASE t.xfer_closed
        <4>1. new = old
          BY ZenonT(60), <2>2, <2>3, <3>8
        <4>2. QED
          BY ZenonT(60), <2>2, <2>3, <2>7, <3>6, <3>7, <3>8, <4>1 DEF Order
      <3>9. CASE ~t.xfer_closed
        <4>1. r = 1 + Len(old) /\ \A i \in 1..Len(old) : old[i] = i - 1
          BY ZenonT(60), <2>7, <3>9 DEF Order, r
        <4>2. /\ Len(new) = Len(old) + k
              /\ \A i \in 1..Len(old) : new[i] = old[i]
              /\ \A i \in 1..k : new[Len(old) + i] = q.from + a + i - 1
          BY ZenonT(60), <2>2, <2>3, <3>9
        <4>3. Len(old) \in Nat
          BY <1>0 DEF RxTypes
        <4> HIDE DEF old, new
        <4>4. \A i \in 1..k : new[Len(old) + i] = (Len(old) + i) - 1
          <5> SUFFICES ASSUME NEW i \in 1..k
                       PROVE  new[Len(old) + i] = (Len(old) + i) - 1
            OBVIOUS
          <5> DEFINE f == q.from
                     l == Len(old)
          <5>1. new[l + i] = f + a + i - 1
            BY Zenon, <4>2
          <5>2. f \in Nat /\ l \in Nat /\ r = 1 + l /\ a = r - 1 - f /\ i \in Int
            BY <2>2, <3>3, <3>4, <4>1, <4>3
          <5> HIDE DEF f, l
          <5>3. f + a + i - 1 = (l + i) - 1
            BY <5>2
          <5>4. QED
            BY Zenon, <5>1, <5>3 DEF l
        <4>5. ASSUME NEW j \in 1..Len(new) PROVE new[j] = j - 1
          <5>1. CASE j <= Len(old)
            BY <2>2, <4>1, <4>2, <4>3, <5>1
          <5>2. CASE j > Len(old)
            <6> DEFINE i == j - Len(old)
            <6>1. i \in 1..k /\ Len(old) + i = j
              BY <2>2, <4>2, <4>3, <5>2
            <6>2. new[Len(old) + i] = (Len(old) + i) - 1
              BY <4>4, <6>1
            <6> HIDE DEF i
            <6>3. QED
              BY <6>1, <6>2
          <5>3. QED
            BY <2>2, <4>2, <4>3, <5>1, <5>2
        <4>6. r + k = 1 + Len(new)
          BY <2>2, <4>1, <4>2, <4>3
        <4>7. QED
          BY ZenonT(60), <2>2, <2>3, <2>7, <3>6, <3>7, <4>5, <4>6 DEF Order, new
      <3>10. QED
        BY <3>8, <3>9
    <2>8. QED
      BY Zenon, <2>2, <2>3, <2>4, <2>5, <2>6, <2>7 DEF u
  <1>3. QED
    BY Zenon, <1>1, <1>2

\* Near positions of the peer's sequence space have different numbers.
LEMMA SeqNear ==
    ASSUME NEW a \in Int, NEW b \in Int, a - b < SeqSpace, b - a < SeqSpace
    PROVE  SeqAdd(IRS, a) = SeqAdd(IRS, b) => a = b
  <1> DEFINE x == SeqDiff(SeqAdd(IRS, a), SeqAdd(IRS, b))
             d == a - b
             e == SeqSpace + d
  <1>0. SeqSpace \in Nat \ {0} /\ 0 \in Int /\ -1 \in Int
    BY SequenceSpace
  <1>1. d >= 0 => x = d
    <2> SUFFICES ASSUME d >= 0 PROVE x = d
      OBVIOUS
    <2>1. d \in 0..(SeqSpace - 1) /\ a - b = SeqSpace * 0 + d
      BY <1>0
    <2> HIDE DEF d
    <2>2. QED
      BY ZenonT(60), <1>0, <2>1, SeqDistance
  <1>2. d < 0 => x = e
    <2> SUFFICES ASSUME d < 0 PROVE x = e
      OBVIOUS
    <2>1. e \in 0..(SeqSpace - 1) /\ a - b = SeqSpace * (-1) + e
      BY <1>0
    <2> HIDE DEF e
    <2>2. QED
      BY ZenonT(60), <1>0, <2>1, SeqDistance
  <1>3. SeqAdd(IRS, a) = SeqAdd(IRS, b) => x = 0
    <2> SUFFICES ASSUME SeqAdd(IRS, a) = SeqAdd(IRS, b) PROVE x = 0
      OBVIOUS
    <2> DEFINE s == SeqAdd(IRS, b)
    <2>1. s \in 0..(SeqSpace - 1) /\ x = SeqDiff(s, s)
      BY SeqMoves, SequenceSpace
    <2> HIDE DEF s, x
    <2>2. s - s = 0 /\ 0 % SeqSpace = 0
      BY <1>0, <2>1
    <2>3. QED
      BY <2>1, <2>2 DEF SeqDiff
  <1> HIDE DEF x
  <1>4. QED
    BY <1>0, <1>1, <1>2, <1>3

\* The number of the next position of the peer's sequence space.
LEMMA SeqNextOf ==
    ASSUME NEW m \in Int
    PROVE  SeqAdd(SeqAdd(IRS, m), 1) = SeqAdd(IRS, m + 1)
  <1> DEFINE k == 1
  <1>1. k \in Int /\ IRS \in Int
    BY SequenceSpace
  <1> HIDE DEF k
  <1>2. SeqAdd(SeqAdd(IRS, m), k) = SeqAdd(IRS, m + k)
    BY ZenonT(60), <1>1, SeqAddTwice
  <1>3. QED
    BY <1>2 DEF k

\* tcp_rx_fin(): a FIN counts when it is the next in the sequence.
LEMMA RxFinStream ==
    ASSUME NEW t, Sane(t), Tx(t), Rx(t), "SYN" \in t.acked, "SYN" \in t.rcvd, NEW seq
    PROVE  LET u == tcp_rx_fin(t, seq) IN
           /\ Tx(u) /\ Rx(u) /\ Edge(u, t)
           /\ u = t \/ u.xfer_closed
           /\ PeerLen + 2 < SeqSpace /\ seq = SeqAdd(IRS, 1 + PeerLen) /\ Order(t)
                => Order(u)
  <1> DEFINE u == tcp_rx_fin(t, seq)
  <1>0. HasFields(t) /\ Record(t) /\ t.listed /\ RxTypes(t) /\ t.rcv_ack = SeqAdd(IRS, t.rnxt)
    BY DEF Sane, Record, Rx
  <1>1. CASE seq # t.rcv_ack
    <2>1. u = t
      BY <1>1 DEF tcp_rx_fin
    <2>2. Edge(t, t)
      BY <1>0 DEF Edge, RxTypes
    <2> HIDE DEF u
    <2>3. QED
      BY ZenonT(60), <2>1, <2>2 DEF u
  <1>2. CASE seq = t.rcv_ack
    <2> DEFINE s == tcp_rx_seq(t, 1)
               rcvd == s.rcvd \cup {"FIN"}
               v == [s EXCEPT !.rcvd = rcvd]
    <2>1. u = tcp_close(v)
      BY <1>2 DEF tcp_rx_fin
    <2>2. 1 \in Nat
      OBVIOUS
    <2>3. /\ HasFields(s) /\ SameTx(s, t) /\ RxTypes(s) /\ Edge(s, t)
          /\ s.listed = t.listed /\ s.xfer_closed = t.xfer_closed /\ s.rcvd = t.rcvd
          /\ s.rcv_ack = SeqAdd(t.rcv_ack, 1) /\ s.rnxt = t.rnxt + 1
          /\ s.rx_queue = t.rx_queue /\ s.delivered = t.delivered
      BY ZenonT(60), <1>0, <2>2, SeqEffect
    <2>a. /\ s.process = t.process /\ s.timer = t.timer /\ s.wait = t.wait /\ s.told = t.told
      BY ZenonT(60), <1>0 DEF tcp_rx_seq, HasFields, Fields
    <2> HIDE DEF s
    <2>4. rcvd = t.rcvd \cup {"FIN"} /\ rcvd \subseteq Flags /\ "SYN" \in rcvd
      BY <1>0, <2>3 DEF RxTypes, Flags
    <2> HIDE DEF rcvd
    <2>5. /\ HasFields(v) /\ SameTx(v, s)
          /\ v.listed = s.listed /\ v.xfer_closed = s.xfer_closed /\ v.rcvd = rcvd
          /\ v.ack_pending = s.ack_pending /\ v.rcv_ack = s.rcv_ack
          /\ v.rcv_win = s.rcv_win /\ v.max_rcv_win = s.max_rcv_win
          /\ v.rx_queue = s.rx_queue /\ v.rnxt = s.rnxt /\ v.delivered = s.delivered
          /\ v.process = s.process /\ v.timer = s.timer /\ v.wait = s.wait /\ v.told = s.told
      BY ZenonT(60), <2>3 DEF HasFields, Fields, SameTx
    <2> HIDE DEF v, u
    <2>6. SameTx(v, t)
      BY ZenonT(60), <2>3, <2>5 DEF SameTx
    <2>7. Tx(v)
      BY Zenon, <2>6, SameTxKept
    <2>8. Record(v)
      BY ZenonT(90), <1>0, <2>3, <2>a, <2>5, <2>6 DEF Record, SameTx
    <2>9. Sane(v) /\ "SYN" \in v.acked
      BY Zenon, <1>0, <2>6, <2>8 DEF Sane, SameTx, SendingFlag, Sending
    <2>10. Rx(v)
      <3>1. RxTypes(v)
        BY ZenonT(60), <2>3, <2>4, <2>5 DEF RxTypes
      <3>2. IRS \in Int /\ t.rnxt \in Int /\ 1 \in Int
        BY <1>0, SequenceSpace DEF RxTypes
      <3>3. SeqAdd(SeqAdd(IRS, t.rnxt), 1) = SeqAdd(IRS, t.rnxt + 1)
        BY Zenon, <3>2, SeqNextOf
      <3>4. QED
        BY ZenonT(60), <1>0, <2>3, <2>4, <2>5, <3>1, <3>3 DEF Rx
    <2>11. Tx(u) /\ RxKept(u, v) /\ u.xfer_closed
      BY ZenonT(60), <2>1, <2>7, <2>9, <2>10, CloseTx
    <2>12. Rx(u) /\ Edge(u, v) /\ RxTypes(u) /\ RxTypes(v)
      BY ZenonT(60), <2>10, <2>11, RxKeptRx, KeptEdge DEF Rx
    <2>13. Edge(u, t)
      <3>1. Edge(v, t)
        BY ZenonT(60), <2>3, <2>5 DEF Edge
      <3>2. QED
        BY ZenonT(60), <1>0, <2>12, <3>1, EdgeTwice
    <2>14. ASSUME PeerLen + 2 < SeqSpace, seq = SeqAdd(IRS, 1 + PeerLen), Order(t)
           PROVE  Order(u)
      <3> DEFINE r == t.rnxt
      <3>1. r \in 1..(PeerLen + 2) /\ SeqAdd(IRS, 1 + PeerLen) = SeqAdd(IRS, r)
        BY ZenonT(60), <1>0, <1>2, <2>14 DEF Order
      <3> HIDE DEF r
      <3>2. r = 1 + PeerLen
        <4> DEFINE b == 1 + PeerLen
        <4>1. b \in Int /\ r \in Int /\ b - r < SeqSpace /\ r - b < SeqSpace
          BY <2>14, <3>1, TcpConstants, SequenceSpace
        <4>2. SeqAdd(IRS, b) = SeqAdd(IRS, r)
          BY <3>1
        <4> HIDE DEF b
        <4>3. b = r
          BY ZenonT(60), <4>1, <4>2, SeqNear
        <4>4. QED
          BY <4>3 DEF b
      <3>3. r + 1 \in 1..(PeerLen + 2)
        BY <3>1, <3>2, TcpConstants
      <3>4. u.rnxt = r + 1 /\ u.delivered = t.delivered
        BY ZenonT(60), <2>3, <2>5, <2>11 DEF RxKept, r
      <3>5. \A i \in 1..Len(u.rx_queue) : i \in 1..Len(t.rx_queue) /\ u.rx_queue[i] = t.rx_queue[i]
        <4>1. \A i \in 1..Len(u.rx_queue) : i \in 1..Len(v.rx_queue)
          BY <2>11, <2>12 DEF RxKept, RxTypes
        <4>2. QED
          BY ZenonT(60), <2>3, <2>5, <2>11, <4>1 DEF RxKept
      <3>6. QED
        BY ZenonT(60), <2>11, <2>14, <3>3, <3>4, <3>5 DEF Order
    <2>15. QED
      BY ZenonT(60), <2>11, <2>12, <2>13, <2>14 DEF u
  <1>3. QED
    BY <1>1, <1>2

\* tcp_rx_syn() with the peer's initial sequence number.
LEMMA RxSynStream ==
    ASSUME NEW t, Record(t), Tx(t), Rx(t), t.listed
    PROVE  LET u == tcp_rx_syn(t, IRS) IN
           /\ HasFields(u) /\ Tx(u) /\ Rx(u) /\ Edge(u, t)
           /\ u.listed = t.listed /\ u.xfer_closed = t.xfer_closed
           /\ u.rx_queue = t.rx_queue /\ t.rcvd \subseteq u.rcvd
           /\ PeerLen + 2 < SeqSpace /\ Order(t) => Order(u)
  <1> DEFINE u == tcp_rx_syn(t, IRS)
             s == Synchronised(t, IRS)
             v == tcp_rx_seq(s, 1)
             sent == v.sent \cup {"ACK"}
             rcvd == v.rcvd \cup {"SYN"}
  <1>0. HasFields(t) /\ RxTypes(t) /\ TxTypes(t) /\ IRS \in 0..(SeqSpace - 1)
    BY SequenceSpace DEF Record, Rx, Tx
  <1>1. /\ HasFields(s) /\ SameTx(s, t)
        /\ s.rcv_ack = (IF "SYN" \in t.rcvd THEN t.rcv_ack ELSE IRS)
        /\ s.listed = t.listed /\ s.xfer_closed = t.xfer_closed /\ s.rcvd = t.rcvd
        /\ s.ack_pending = t.ack_pending
        /\ s.rcv_win = t.rcv_win /\ s.max_rcv_win = t.max_rcv_win
        /\ s.rx_queue = t.rx_queue /\ s.rnxt = t.rnxt /\ s.delivered = t.delivered
    <2>1. CASE "SYN" \in t.rcvd
      BY ZenonT(60), <1>0, <2>1 DEF Synchronised, SameTx
    <2>2. CASE "SYN" \notin t.rcvd
      BY ZenonT(60), <1>0, <2>2 DEF Synchronised, SameTx, HasFields, Fields
    <2>3. QED
      BY Zenon, <2>1, <2>2
  <1>2. RxTypes(s)
    <2> HIDE DEF s
    <2>1. s.rcv_ack \in 0..(SeqSpace - 1)
      BY <1>0, <1>1 DEF RxTypes
    <2>2. QED
      BY ZenonT(60), <1>0, <1>1, <2>1 DEF RxTypes
  <1>3. CASE IRS # s.rcv_ack
    <2>1. u = s /\ "SYN" \in t.rcvd
      BY <1>1, <1>3 DEF tcp_rx_syn
    <2>2. s = t
      BY <2>1 DEF Synchronised
    <2>3. Edge(t, t)
      BY <1>0 DEF Edge, RxTypes
    <2> HIDE DEF u, s
    <2>4. QED
      BY ZenonT(60), <1>0, <2>1, <2>2, <2>3 DEF u
  <1>4. CASE IRS = s.rcv_ack
    <2>1. u = [v EXCEPT !.sent = sent, !.rcvd = rcvd]
      BY <1>4 DEF tcp_rx_syn
    <2> HIDE DEF s
    <2>2. 1 \in Nat
      OBVIOUS
    <2>3. /\ HasFields(v) /\ SameTx(v, s) /\ RxTypes(v) /\ Edge(v, s)
          /\ v.listed = s.listed /\ v.xfer_closed = s.xfer_closed /\ v.rcvd = s.rcvd
          /\ v.rcv_ack = SeqAdd(s.rcv_ack, 1) /\ v.rnxt = s.rnxt + 1
          /\ v.rx_queue = s.rx_queue /\ v.delivered = s.delivered
      BY ZenonT(60), <1>1, <1>2, <2>2, SeqEffect
    <2> HIDE DEF v
    <2>4. SameTx(v, t)
      BY ZenonT(60), <1>1, <2>3 DEF SameTx
    <2>5. rcvd \subseteq Flags /\ "SYN" \in rcvd /\ t.rcvd \subseteq rcvd
      BY <1>0, <1>1, <2>3 DEF RxTypes, Flags
    <2>6. /\ sent \subseteq Flags /\ FlagCount(sent \ t.acked) = FlagCount(Sending(t))
          /\ (sent \ t.acked) \cap {"SYN", "FIN"} = SendingFlag(t)
      BY <1>0, <2>4 DEF TxTypes, SameTx, Sending, SendingFlag, FlagCount, Flags
    <2> HIDE DEF rcvd, sent, u
    <2>7. /\ HasFields(u) /\ u.sent = sent /\ u.rcvd = rcvd
          /\ u.listed = v.listed /\ u.acked = v.acked
          /\ u.snd_seq = v.snd_seq /\ u.snd_sent = v.snd_sent /\ u.snd_win = v.snd_win
          /\ u.txhead = v.txhead /\ u.txtail = v.txtail /\ u.txends = v.txends
          /\ u.una = v.una /\ u.nxt = v.nxt
          /\ u.pending_data = v.pending_data /\ u.pending_flags = v.pending_flags
          /\ u.xfer_closed = v.xfer_closed
          /\ u.ack_pending = v.ack_pending /\ u.rcv_ack = v.rcv_ack
          /\ u.rcv_win = v.rcv_win /\ u.max_rcv_win = v.max_rcv_win
          /\ u.rx_queue = v.rx_queue /\ u.rnxt = v.rnxt /\ u.delivered = v.delivered
      BY ZenonT(60), <2>1, <2>3 DEF HasFields, Fields
    <2>8. TxTypes(u)
      BY ZenonT(90), <1>0, <2>4, <2>6, <2>7 DEF TxTypes, SameTx
    <2>9. /\ FlagCount(Sending(u)) = FlagCount(Sending(t))
          /\ SendingFlag(u) = SendingFlag(t)
      BY Zenon, <2>4, <2>6, <2>7 DEF SameTx, Sending, SendingFlag
    <2>10. Tx(u)
      <3>1. t.listed => InStep(u)
        BY ZenonT(90), <2>4, <2>7, <2>9 DEF Tx, InStep, SameTx
      <3>2. QED
        BY ZenonT(60), <2>4, <2>7, <2>8, <2>9, <3>1 DEF Tx, SameTx
    <2>11. RxTypes(u)
      BY Zenon, <2>3, <2>5, <2>7 DEF RxTypes
    <2>12. Edge(u, t)
      BY ZenonT(60), <1>1, <2>3, <2>7 DEF Edge
    <2>13. IRS = SeqAdd(IRS, t.rnxt) /\ ("SYN" \notin t.rcvd => t.rnxt = 0 /\ t.delivered = <<>>)
      <3>1. CASE "SYN" \in t.rcvd
        BY ZenonT(60), <1>1, <1>4, <3>1 DEF Rx
      <3>2. CASE "SYN" \notin t.rcvd
        <4>1. t.rnxt = 0 /\ t.delivered = <<>>
          BY <3>2 DEF Rx
        <4>2. IRS = SeqAdd(IRS, 0)
          BY <1>0, SequenceSpace DEF SeqAdd
        <4>3. QED
          BY Zenon, <4>1, <4>2
      <3>3. QED
        BY ZenonT(60), <3>1, <3>2
    <2>14. Rx(u)
      <3>1. IRS \in Int /\ t.rnxt \in Int /\ 1 \in Int
        BY <1>0, SequenceSpace DEF RxTypes
      <3>2. SeqAdd(SeqAdd(IRS, t.rnxt), 1) = SeqAdd(IRS, t.rnxt + 1)
        BY Zenon, <3>1, SeqNextOf
      <3>3. u.rcv_ack = SeqAdd(IRS, u.rnxt)
        BY ZenonT(60), <1>1, <1>4, <2>3, <2>7, <2>13, <3>2
      <3>4. QED
        BY ZenonT(60), <2>5, <2>7, <2>11, <3>3 DEF Rx
    <2>15. ASSUME PeerLen + 2 < SeqSpace, Order(t) PROVE Order(u)
      <3>1. "SYN" \notin t.rcvd
        <4> SUFFICES ASSUME "SYN" \in t.rcvd PROVE FALSE
          OBVIOUS
        <4> DEFINE r == t.rnxt
        <4>1. r \in 1..(PeerLen + 2) /\ IRS = SeqAdd(IRS, r)
          BY <2>13, <2>15 DEF Order
        <4> HIDE DEF r
        <4>2. IRS = SeqAdd(IRS, 0)
          BY <1>0, SequenceSpace DEF SeqAdd
        <4>3. r \in Int /\ r - 0 < SeqSpace /\ 0 - r < SeqSpace /\ 0 \in Int
          BY <2>15, <4>1, TcpConstants, SequenceSpace
        <4>4. SeqAdd(IRS, r) = SeqAdd(IRS, 0) => r = 0
          BY Zenon, <4>3, SeqNear
        <4>5. QED
          BY <4>1, <4>2, <4>4
      <3>2. u.rnxt = 1 /\ u.delivered = <<>> /\ u.rx_queue = t.rx_queue
        <4>1. u.rnxt = t.rnxt + 1 /\ t.rnxt = 0
          BY ZenonT(60), <1>1, <2>3, <2>7, <2>13, <3>1
        <4>2. u.rnxt = 1
          BY <4>1
        <4>3. QED
          BY Zenon, <1>1, <2>3, <2>7, <2>13, <3>1, <4>2
      <3>3. u.rnxt \in 1..(PeerLen + 2) /\ u.rnxt = 1 + Len(u.delivered)
              /\ \A i \in 1..Len(u.delivered) : u.delivered[i] = i - 1
        BY <3>2, TcpConstants
      <3>4. QED
        BY ZenonT(60), <2>15, <3>2, <3>3 DEF Order
    <2>16. QED
      BY ZenonT(60), <1>1, <2>3, <2>5, <2>7, <2>10, <2>12, <2>14, <2>15 DEF u
  <1>5. QED
    BY ZenonT(60), <1>3, <1>4

\* Queueing a packet puts it somewhere among the others.
LEMMA InsertedElements ==
    ASSUME NEW queue \in Seq(Queued), NEW q \in Queued
    PROVE  /\ Inserted(queue, q) \in Seq(Queued)
           /\ \A i \in 1..Len(Inserted(queue, q)) :
                \/ Inserted(queue, q)[i] = q
                \/ \E j \in 1..Len(queue) : Inserted(queue, q)[i] = queue[j]
  <1> DEFINE n == Len(queue)
             S == {i \in 1..(n + 1) : i = n + 1 \/ tcp_cmp(q.seq, queue[i].seq) < 0}
             p == InsertPos(queue, q.seq)
             a == SubSeq(queue, 1, p - 1)
             b == <<q>>
             c == SubSeq(queue, p, n)
  <1>1. n \in Nat /\ S \subseteq Nat /\ n + 1 \in S
    OBVIOUS
  <1>2. p \in S
    <2>1. p = Least(S)
      BY DEF InsertPos
    <2>2. QED
      BY ZenonT(60), <1>1, <2>1, LeastIsMin
  <1>3. p \in 1..(n + 1)
    BY <1>2
  <1>4. Inserted(queue, q) = a \o b \o c
    BY DEF Inserted
  <1> HIDE DEF p
  <1>5. /\ 1 \in 1..(n + 1) /\ p - 1 \in (1 - 1)..n /\ p \in 1..(n + 1) /\ n \in (p - 1)..n
    BY <1>1, <1>3
  <1>6. a \in Seq(Queued) /\ Len(a) = p - 1 /\ \A i \in 1..(p - 1) : a[i] = queue[i]
    <2>1. /\ a \in Seq(Queued) /\ Len(a) = (p - 1) - 1 + 1
          /\ \A i \in 1..((p - 1) - 1 + 1) : a[i] = queue[1 + i - 1]
      BY ZenonT(60), <1>5, PartOfSeq
    <2> HIDE DEF a
    <2>2. QED
      BY <1>3, <2>1
  <1>7. c \in Seq(Queued) /\ Len(c) = n - p + 1 /\ \A i \in 1..(n - p + 1) : c[i] = queue[p + i - 1]
    BY ZenonT(60), <1>5, PartOfSeq
  <1>8. b \in Seq(Queued) /\ Len(b) = 1 /\ b[1] = q
    OBVIOUS
  <1> HIDE DEF a, b, c
  <1> DEFINE ab == a \o b
             r == ab \o c
  <1>9. ab \in Seq(Queued) /\ Len(ab) = p
          /\ \A i \in 1..p : ab[i] = IF i <= p - 1 THEN a[i] ELSE q
    <2>1. /\ ab \in Seq(Queued) /\ Len(ab) = Len(a) + Len(b)
          /\ \A i \in 1..(Len(a) + Len(b)) :
                ab[i] = IF i <= Len(a) THEN a[i] ELSE b[i - Len(a)]
      BY ZenonT(60), <1>6, <1>8, SeqJoin
    <2> HIDE DEF ab
    <2>2. QED
      BY <1>3, <1>6, <1>8, <2>1
  <1> HIDE DEF ab
  <1>10. /\ r \in Seq(Queued) /\ Len(r) = Len(ab) + Len(c)
         /\ \A i \in 1..(Len(ab) + Len(c)) :
               r[i] = IF i <= Len(ab) THEN ab[i] ELSE c[i - Len(ab)]
    BY ZenonT(60), <1>7, <1>9, SeqJoin
  <1> HIDE DEF r
  <1>11. ASSUME NEW i \in 1..Len(r)
         PROVE  r[i] = q \/ \E j \in 1..n : r[i] = queue[j]
    <2>1. CASE i <= p - 1
      <3>1. r[i] = queue[i] /\ i \in 1..n
        BY <1>1, <1>3, <1>6, <1>7, <1>9, <1>10, <2>1
      <3>2. QED
        BY <3>1
    <2>2. CASE i = p
      BY <1>1, <1>3, <1>7, <1>9, <1>10, <2>2
    <2>3. CASE i > p
      <3> DEFINE k == i - p
      <3>1. k \in 1..(n - p + 1) /\ r[i] = c[k] /\ p + k - 1 \in 1..n
        BY <1>1, <1>3, <1>7, <1>9, <1>10, <2>3
      <3> HIDE DEF k
      <3>2. r[i] = queue[p + k - 1]
        BY ZenonT(60), <1>7, <3>1
      <3>3. QED
        BY ZenonT(60), <3>1, <3>2
    <2>4. QED
      BY <1>1, <1>3, <2>1, <2>2, <2>3
  <1>12. Inserted(queue, q) = r
    BY ZenonT(60), <1>4 DEF r, ab, a, b, c
  <1>13. QED
    BY ZenonT(60), <1>10, <1>11, <1>12

\* tcp_rx_enqueue(): a packet in the window joins the queue.
LEMMA EnqueueStream ==
    ASSUME NEW t, HasFields(t), Tx(t), Rx(t), NEW q \in Queued
    PROVE  LET u == tcp_rx_enqueue(t, q) IN
           /\ Tx(u) /\ Rx(u) /\ Edge(u, t)
           /\ u.listed = t.listed /\ u.xfer_closed = t.xfer_closed
           /\ Order(t) /\ (q.len # 0 \/ q.fin => Genuine(q)) => Order(u)
  <1> DEFINE u == tcp_rx_enqueue(t, q)
             new == Inserted(t.rx_queue, q)
             v == [t EXCEPT !.rx_queue = new]
  <1>0. HasFields(t) /\ RxTypes(t)
    BY DEF Rx
  <1>1. Edge(t, t)
    BY <1>0 DEF Edge, RxTypes
  <1>2. u = t \/ (u = v /\ (q.len # 0 \/ q.fin))
    BY DEF tcp_rx_enqueue, Enqueueable
  <1> HIDE DEF new, u
  <1>3. /\ SameTx(v, t)
        /\ v.listed = t.listed /\ v.xfer_closed = t.xfer_closed /\ v.rcvd = t.rcvd
        /\ v.ack_pending = t.ack_pending /\ v.rcv_ack = t.rcv_ack
        /\ v.rcv_win = t.rcv_win /\ v.max_rcv_win = t.max_rcv_win
        /\ v.rx_queue = new /\ v.rnxt = t.rnxt /\ v.delivered = t.delivered
    BY Zenon, <1>0 DEF HasFields, Fields, SameTx
  <1>4. /\ new \in Seq(Queued)
        /\ \A i \in 1..Len(new) : new[i] = q \/ \E j \in 1..Len(t.rx_queue) : new[i] = t.rx_queue[j]
    BY Zenon, <1>0, InsertedElements DEF RxTypes, new
  <1> HIDE DEF v
  <1>5. Tx(v)
    BY Zenon, <1>3, SameTxKept
  <1>6. Rx(v)
    <2>1. RxTypes(v)
      BY ZenonT(60), <1>0, <1>3, <1>4 DEF RxTypes
    <2>2. QED
      BY Zenon, <1>3, <2>1 DEF Rx
  <1>7. Edge(v, t)
    BY Zenon, <1>1, <1>3 DEF Edge
  <1>8. Order(t) /\ Genuine(q) => Order(v)
    BY ZenonT(60), <1>3, <1>4 DEF Order
  <1>9. QED
    BY ZenonT(60), <1>1, <1>2, <1>3, <1>5, <1>6, <1>7, <1>8 DEF u

\* The first packet leaves the queue.
LEMMA DequeueStream ==
    ASSUME NEW t, Record(t), Tx(t), Rx(t), t.rx_queue # <<>>
    PROVE  /\ Tx(Dequeued(t)) /\ Rx(Dequeued(t)) /\ Edge(Dequeued(t), t)
           /\ Dequeued(t).rcvd = t.rcvd /\ Dequeued(t).xfer_closed = t.xfer_closed
           /\ Dequeued(t).rcv_ack = t.rcv_ack
           /\ Head(t.rx_queue) \in Queued
           /\ Order(t) => Order(Dequeued(t)) /\ Genuine(Head(t.rx_queue))
  <1> DEFINE queue == t.rx_queue
             new == Tail(queue)
             u == Dequeued(t)
  <1>0. HasFields(t) /\ RxTypes(t) /\ queue \in Seq(Queued) /\ queue # <<>>
    BY DEF Record, Rx, RxTypes
  <1>1. Edge(t, t)
    BY <1>0 DEF Edge, RxTypes
  <1>2. u = [t EXCEPT !.rx_queue = new]
    BY DEF Dequeued
  <1> HIDE DEF queue
  <1>3. /\ new \in Seq(Queued) /\ Len(new) = Len(queue) - 1 /\ Len(queue) \in Nat \ {0}
        /\ \A i \in 1..Len(new) : new[i] = queue[i + 1]
        /\ Head(queue) \in Queued /\ Head(queue) = queue[1]
    BY <1>0, SeqRest
  <1>4. \A i \in 1..Len(new) : i + 1 \in 1..Len(queue)
    BY <1>3
  <1>5. 1 \in 1..Len(queue)
    BY <1>3
  <1> HIDE DEF new, u
  <1>6. /\ SameTx(u, t)
        /\ u.listed = t.listed /\ u.xfer_closed = t.xfer_closed /\ u.rcvd = t.rcvd
        /\ u.ack_pending = t.ack_pending /\ u.rcv_ack = t.rcv_ack
        /\ u.rcv_win = t.rcv_win /\ u.max_rcv_win = t.max_rcv_win
        /\ u.rx_queue = new /\ u.rnxt = t.rnxt /\ u.delivered = t.delivered
    BY Zenon, <1>0, <1>2 DEF HasFields, Fields, SameTx
  <1>7. Tx(u)
    BY Zenon, <1>6, SameTxKept
  <1>8. Rx(u)
    <2>1. RxTypes(u)
      BY ZenonT(60), <1>0, <1>3, <1>6 DEF RxTypes
    <2>2. QED
      BY ZenonT(60), <1>6, <2>1 DEF Rx
  <1>9. Edge(u, t)
    BY Zenon, <1>1, <1>6 DEF Edge
  <1>10. Order(t) => Order(u) /\ Genuine(Head(queue))
    BY ZenonT(60), <1>3, <1>4, <1>5, <1>6 DEF Order, queue
  <1>11. QED
    BY ZenonT(60), <1>3, <1>6, <1>7, <1>8, <1>9, <1>10 DEF u, queue
=============================================================================
