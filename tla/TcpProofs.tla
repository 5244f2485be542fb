----------------------------- MODULE TcpProofs ------------------------------
(***************************************************************************)
(* The control properties of a TCP connection, proved for sequence spaces, *)
(* windows, streams and queues of any size: how the functions of net/tcp.c *)
(* keep struct tcp_connection in order, then the steps among its callers.  *)
(***************************************************************************)
EXTENDS Tcp, TLAPS

\* The provers tried, in this order, where a step names none
USE SMT, Zenon, SMTT(90), ZenonT(60)

Fields ==
    {"listed", "xfer_closed", "ack_pending", "sent", "acked", "rcvd", "snd_seq",
     "snd_sent", "snd_win", "rcv_ack", "rcv_win", "max_rcv_win", "txhead", "txtail",
     "txends", "rx_queue", "process", "timer", "wait", "pending_flags",
     "pending_data", "una", "nxt", "rnxt", "told", "delivered"}

HasFields(t) == t = [f \in Fields |-> t[f]]

\* A record with the fields of Connection, of which those are typed that decide
\* which state a connection is in and what it sends.
Record(t) ==
    /\ HasFields(t)
    /\ t.listed \in BOOLEAN /\ t.xfer_closed \in BOOLEAN
    /\ t.snd_seq \in 0..(SeqSpace - 1) /\ t.snd_sent \in Int /\ t.snd_win \in Int
    /\ t.txhead \in Int /\ t.txtail \in Int /\ t.una \in Int /\ t.nxt \in Nat
    /\ t.process \in BOOLEAN /\ t.timer \in BOOLEAN /\ t.wait \in BOOLEAN
    /\ t.told \in BOOLEAN

\* A listed connection is in one of the states that tcp.h documents.
Synchronized(t) ==
    \/ SYN_RCVD(t) \/ ESTABLISHED(t) \/ FIN_WAIT_1(t) \/ FIN_WAIT_2(t)
    \/ CLOSING_OR_LAST_ACK(t) \/ TIME_WAIT(t) \/ CLOSE_WAIT(t)

Shape(t) == IF t.listed THEN SYN_SENT(t) \/ Synchronized(t) ELSE CLOSED(t)

Quiet(t) ==
    /\ ~t.timer /\ ~t.wait /\ ~t.process /\ t.rx_queue = <<>> /\ TxEmpty(t)

\* The inductive invariant of one connection.  Beyond the properties proved,
\* it says that a SYN that has been sent is still accounted for in snd_sent
\* (which tcp_close() relies on in SYN_RCVD), that data is queued only once our
\* SYN is acknowledged (or a FIN could be processed in SYN_RCVD), that
\* FIN_WAIT_2 and TIME_WAIT have no retransmission timer, and that FIN means
\* the application is gone.
Control(t) ==
    /\ Record(t)
    /\ Shape(t)
    /\ ~t.listed => Quiet(t)
    /\ t.listed /\ "SYN" \notin t.acked /\ t.nxt > 0 => t.snd_sent = 1
    /\ t.listed /\ "SYN" \notin t.acked /\ "SYN" \in t.rcvd => t.nxt > 0
    /\ t.timer => "FIN" \notin t.acked
    /\ t.wait => TIME_WAIT(t)
    /\ "FIN" \in t.sent => t.xfer_closed /\ TxEmpty(t)
    /\ t.listed /\ "SYN" \notin t.acked => t.una = 0 /\ t.nxt <= 1 /\ t.snd_seq = ISS
    /\ t.rx_queue # <<>> => "SYN" \in t.rcvd /\ "SYN" \in t.acked
    /\ t.listed /\ t.told => "SYN" \in t.rcvd
    /\ t.listed /\ t.xfer_closed => "SYN" \in t.rcvd

\* Something to send implies that a transmission is due (NoStall).
Awake(t) == SendingFlag(t) # {} \/ XmitLen(t) > 0 => t.timer \/ t.process

\* Adding one to a sequence number is a distance of one, wrap or no wrap.
LEMMA NextSeq ==
    ASSUME NEW s \in 0..(SeqSpace - 1)
    PROVE  SeqDiff(SeqAdd(s, 1), s) = 1
  <1>1. SeqSpace \in Nat \ {0, 1}
    BY SequenceSpace
  <1>2. CASE s + 1 < SeqSpace
    <2>1. (s + 1) % SeqSpace = s + 1
      BY <1>1, <1>2
    <2>2. (s + 1 - s) % SeqSpace = 1
      BY <1>1
    <2>3. QED
      BY <2>1, <2>2 DEF SeqDiff, SeqAdd
  <1>3. CASE s + 1 = SeqSpace
    <2>1. (s + 1) % SeqSpace = 0
      BY <1>1, <1>3
    <2>2. (0 - s) % SeqSpace = 1
      BY <1>1, <1>3
    <2>3. QED
      BY <2>1, <2>2 DEF SeqDiff, SeqAdd
  <1>4. QED
    BY <1>1, <1>2, <1>3

\* What is to be sent depends on a few fields only; with a SYN or FIN to
\* send there is no data to send.
LEMMA SendLengths ==
    ASSUME NEW t, Record(t)
    PROVE  /\ XmitLen(t) \in Int
           /\ SendingFlag(t) # {} => XmitLen(t) = 0
           /\ XmitSeqLen(t) \in Int
           /\ SendingFlag(t) # {} => XmitSeqLen(t) = 1
           /\ SendingFlag(t) = {} => XmitSeqLen(t) = XmitLen(t)
  <1>1. XmitLen(t) \in Int
    BY SequenceSpace DEF Record, XmitLen, MinOf, TxLen, tcp_xmit_win
  <1>2. SendingFlag(t) # {} => XmitLen(t) = 0
    BY DEF XmitLen, CanSendData, SendingFlag, Sending, Record
  <1>3. QED
    BY <1>1, <1>2 DEF XmitSeqLen

-----------------------------------------------------------------------------
(* tcp_xmit().                                                             *)

\* tcp_xmit() leaves all of this alone.
SameState(u, t) ==
    /\ u.listed = t.listed /\ u.xfer_closed = t.xfer_closed
    /\ u.sent = t.sent /\ u.acked = t.acked /\ u.rcvd = t.rcvd
    /\ u.snd_win = t.snd_win /\ u.txhead = t.txhead /\ u.txtail = t.txtail
    /\ u.txends = t.txends /\ u.wait = t.wait /\ u.process = t.process
    /\ u.una = t.una /\ u.snd_seq = t.snd_seq

\* What tcp_xmit() leaves alone, and what it sets.
LEMMA XmitEffect ==
    ASSUME NEW t, Record(t), NEW out, NEW w, NEW u, u = tcp_xmit(t, out, w)
    PROVE  /\ Record(u) /\ SameState(u, t)
           /\ u.rx_queue \in {t.rx_queue, <<>>}
           /\ u.told => t.told \/ "ACK" \in t.sent
           /\ u.nxt >= t.nxt
           /\ u.nxt <= MaxOf(t.nxt, t.una + XmitSeqLen(t))
           /\ (u.timer <=> t.timer \/ XmitSeqLen(t) > 0)
           /\ \/ t.timer /\ u.snd_sent = t.snd_sent /\ u.nxt = t.nxt
              \/ ~t.timer /\ u.snd_sent = XmitSeqLen(t)
  <1> DEFINE Start == XmitStart(t)
             Expand == XmitExpand(Start, w)
             Discard == DiscardAll(Start)
             Send == XmitSent(Expand)
  <1>1. /\ Record(Start) /\ SameState(Start, t)
        /\ Start.rx_queue = t.rx_queue /\ Start.told = t.told /\ Start.nxt = t.nxt
        /\ Start.snd_sent = XmitSeqLen(t) /\ (Start.timer <=> XmitSeqLen(t) > 0)
    <2>1. XmitSeqLen(t) \in Int /\ (XmitSeqLen(t) > 0) \in BOOLEAN
      BY SendLengths
    <2>2. QED
      BY ZenonT(60), <2>1 DEF XmitStart, Record, HasFields, Fields, SameState
  <1>2. /\ Record(Expand) /\ SameState(Expand, Start)
        /\ Expand.rx_queue = Start.rx_queue /\ Expand.told = Start.told
        /\ Expand.nxt = Start.nxt
        /\ Expand.snd_sent = Start.snd_sent /\ Expand.timer = Start.timer
    BY ZenonT(90), <1>1 DEF XmitExpand, Record, HasFields, Fields, SameState
  <1>3. /\ Record(Discard) /\ SameState(Discard, Start)
        /\ Discard.rx_queue = <<>> /\ Discard.told = Start.told
        /\ Discard.nxt = Start.nxt
        /\ Discard.snd_sent = Start.snd_sent /\ Discard.timer = Start.timer
    BY ZenonT(90), <1>1 DEF DiscardAll, Record, HasFields, Fields, SameState
  <1>4. /\ Record(Send) /\ SameState(Send, Expand)
        /\ Send.rx_queue = Expand.rx_queue /\ Send.nxt >= Expand.nxt
        /\ Send.nxt = MaxOf(Expand.nxt, Expand.una + Expand.snd_sent)
        /\ Send.told = (Expand.told \/ "ACK" \in Expand.sent)
        /\ Send.snd_sent = Expand.snd_sent /\ Send.timer = Expand.timer
    <2>1. /\ MaxOf(Expand.nxt, Expand.una + Expand.snd_sent) \in Nat
          /\ MaxOf(Expand.nxt, Expand.una + Expand.snd_sent) >= Expand.nxt
      BY <1>2 DEF MaxOf, Record
    <2>2. (Expand.told \/ "ACK" \in Expand.sent) \in BOOLEAN
      OBVIOUS
    <2>3. QED
      BY ZenonT(90), <1>2, <2>1, <2>2 DEF XmitSent, Record, HasFields, Fields, SameState
  <1>5. CASE t.timer
    <2>1. u = t
      BY <1>5 DEF tcp_xmit
    <2>2. t.nxt \in Int
      BY DEF Record
    <2>3. t.nxt <= MaxOf(t.nxt, t.una + XmitSeqLen(t))
      BY SendLengths DEF Record, MaxOf
    <2>4. QED
      BY <1>5, <2>1, <2>2, <2>3 DEF SameState
  <1>6. CASE ~t.timer
    <2>1. u \in {Start, Discard, Expand, Send}
      BY <1>6 DEF tcp_xmit
    <2> HIDE DEF Start, Discard, Expand, Send
    <2>2. Record(u) /\ SameState(u, t) /\ u.rx_queue \in {t.rx_queue, <<>>}
      BY <1>1, <1>2, <1>3, <1>4, <2>1 DEF SameState
    <2>a. /\ t.nxt \in Int /\ Start.nxt \in Int /\ Expand.nxt \in Int
          /\ Discard.nxt \in Int /\ Send.nxt \in Int
      <3>1. t.nxt \in Int
        BY DEF Record
      <3>2. Start.nxt \in Int
        BY <1>1, <3>1
      <3>3. Expand.nxt \in Int /\ Discard.nxt \in Int
        BY <1>2, <1>3, <3>2
      <3>4. Send.nxt \in Int
        BY <1>4 DEF Record
      <3>5. QED
        BY <3>1, <3>2, <3>3, <3>4
    <2>3. u.told => t.told \/ "ACK" \in t.sent
      BY ZenonT(90), <1>1, <1>2, <1>3, <1>4, <2>1 DEF SameState
    <2>4. (u.timer <=> XmitSeqLen(t) > 0) /\ u.snd_sent = XmitSeqLen(t)
      BY <1>1, <1>2, <1>3, <1>4, <2>1
    <2>5. u.nxt >= t.nxt
      BY <1>1, <1>2, <1>3, <1>4, <2>a, <2>1
    <2>b. u.nxt = t.nxt \/ u.nxt = MaxOf(t.nxt, t.una + XmitSeqLen(t))
      BY <1>1, <1>2, <1>3, <1>4, <2>1 DEF SameState
    <2>6. u.nxt <= MaxOf(t.nxt, t.una + XmitSeqLen(t))
      BY <2>b, SendLengths DEF Record, MaxOf
    <2>7. QED
      BY <1>6, <2>2, <2>3, <2>4, <2>5, <2>6
  <1>7. QED
    BY <1>5, <1>6 DEF Record

\* tcp_xmit() keeps the invariant, and leaves nothing to send without a timer;
\* on a connection just deleted, as from tcp_xfer_close(), it starts no timer.
LEMMA XmitControl ==
    ASSUME NEW t, Control(t), NEW out, NEW w, NEW u, u = tcp_xmit(t, out, w)
    PROVE  Control(u) /\ Awake(u) /\ SameState(u, t)
  <1> USE DEF StateIs, CLOSED, SYN_SENT, SYN_RCVD, ESTABLISHED, FIN_WAIT_1,
              FIN_WAIT_2, CLOSING_OR_LAST_ACK, TIME_WAIT, CLOSE_WAIT, Synchronized
  <1>1. Record(t)
    BY DEF Control
  <1>2. /\ Record(u) /\ SameState(u, t)
        /\ u.rx_queue \in {t.rx_queue, <<>>}
        /\ u.told => t.told \/ "ACK" \in t.sent
        /\ u.nxt >= t.nxt
        /\ u.nxt <= MaxOf(t.nxt, t.una + XmitSeqLen(t))
        /\ (u.timer <=> t.timer \/ XmitSeqLen(t) > 0)
        /\ \/ t.timer /\ u.snd_sent = t.snd_sent /\ u.nxt = t.nxt
           \/ ~t.timer /\ u.snd_sent = XmitSeqLen(t)
    BY <1>1, XmitEffect
  <1>3. SendingFlag(u) = SendingFlag(t) /\ XmitLen(u) = XmitLen(t)
    BY <1>2 DEF SameState, SendingFlag, Sending, XmitLen, CanSendData, TxLen, tcp_xmit_win
  <1>4. Shape(u) /\ (u.wait => TIME_WAIT(u))
    BY <1>2 DEF Control, SameState, Shape
  <1>5. t.listed /\ "SYN" \notin t.acked => SendingFlag(t) # {}
    BY DEF Control, Shape, SendingFlag, Sending
  <1>6. "FIN" \in t.acked \/ ~t.listed => SendingFlag(t) = {} /\ XmitLen(t) = 0
    BY DEF Control, Shape, SendingFlag, Sending, XmitLen, CanSendData
  <1>7. /\ u.timer => "FIN" \notin u.acked
        /\ ~u.listed => ~u.timer
    BY <1>1, <1>2, <1>6, SendLengths DEF Control, SameState, Quiet
  <1>8. u.listed /\ "SYN" \notin u.acked /\ u.nxt > 0 => u.snd_sent = 1
    BY <1>1, <1>2, <1>5, SendLengths DEF Control, SameState
  <1>9. u.listed /\ "SYN" \notin u.acked /\ "SYN" \in u.rcvd => u.nxt > 0
    BY <1>1, <1>2 DEF Control, SameState, Record
  <1>10. /\ u.listed /\ u.told => "SYN" \in u.rcvd
         /\ u.listed /\ u.xfer_closed => "SYN" \in u.rcvd
    BY <1>2 DEF Control, SameState, Shape
  <1>11. Awake(u)
    BY <1>1, <1>2, <1>3, SendLengths DEF Awake
  <1>12. ~u.listed => Quiet(u)
    BY <1>2, <1>7 DEF Control, SameState, Quiet, TxEmpty
  <1>13. u.listed /\ "SYN" \notin u.acked => u.una = 0 /\ u.nxt <= 1 /\ u.snd_seq = ISS
    <2>1. u.listed /\ "SYN" \notin u.acked => XmitSeqLen(t) = 1 /\ t.una = 0 /\ t.nxt <= 1
      BY <1>1, <1>2, <1>5, SendLengths DEF Control, SameState
    <2>2. u.nxt \in Int /\ t.nxt \in Int
      BY <1>1, <1>2 DEF Record
    <2>3. u.listed /\ "SYN" \notin u.acked => u.nxt <= 1
      BY <1>2, <2>1, <2>2 DEF MaxOf
    <2>4. QED
      BY <1>2, <2>3 DEF Control, SameState
  <1>14. QED
    BY <1>2, <1>4, <1>7, <1>8, <1>9, <1>10, <1>11, <1>12, <1>13
       DEF Control, SameState, TxEmpty

-----------------------------------------------------------------------------
(* Acknowledgements and closing.                                           *)

\* A step of the flags on a connection that has received a SYN: the flag in
\* flight is acknowledged ("acks"), FIN is added ("fins"), or nothing.
LEMMA AckedEffect ==
    ASSUME NEW t, Record(t), NEW ack \in 0..(SeqSpace - 1), NEW win \in Int,
           NEW u, u = AckedFlagAndData(t, ack, win)
    PROVE  /\ Record(u)
           /\ u.listed = t.listed /\ u.xfer_closed = t.xfer_closed
           /\ u.sent = t.sent /\ u.rcvd = t.rcvd /\ u.rx_queue = t.rx_queue
           /\ u.wait = t.wait /\ u.process = t.process
           /\ u.told = t.told /\ u.nxt = t.nxt
           /\ ~u.timer
           /\ u.acked = t.acked \cup SendingFlag(t)
           /\ TxEmpty(t) => TxEmpty(u)
  <1>1. AckLen(t, ack) \in Int
    BY SequenceSpace DEF AckLen, SeqDiff, Record
  <1>2. AckedData(t, ack) \in Int
    BY <1>1 DEF AckedData
  <1>3. TxHeadAfter(t, AckedData(t, ack)) \in Int
    BY <1>2 DEF TxHeadAfter, MinOf, Record
  <1>4. t.una + AckLen(t, ack) \in Int
    BY <1>1 DEF Record
  <1>6. TxEmpty(t) => TxEndsAfter(t, AckedData(t, ack)) = {}
    BY DEF TxEndsAfter, TxEmpty
  <1> DEFINE una == t.una + AckLen(t, ack)
             head == TxHeadAfter(t, AckedData(t, ack))
             ends == TxEndsAfter(t, AckedData(t, ack))
             data == Put(t.pending_data, Cardinality(t.txends \ ends))
             flags == Put(t.pending_flags, IF SendingFlag(t) # {} THEN 1 ELSE 0)
             acked == t.acked \cup SendingFlag(t)
             v == [t EXCEPT !.snd_win = win, !.timer = FALSE, !.snd_seq = ack,
                            !.snd_sent = 0, !.una = una]
  <1>7. u = [v EXCEPT !.txhead = head, !.txends = ends, !.pending_data = data,
                      !.pending_flags = flags, !.acked = acked]
    BY DEF AckedFlagAndData, Record, HasFields, Fields
  <1>8. una \in Int /\ head \in Int
    BY <1>3, <1>4
  <1>9. acked = t.acked \cup SendingFlag(t) /\ (TxEmpty(t) => ends = {})
    BY <1>6
  <1> HIDE DEF una, head, ends, data, flags, acked
  <1>10. Record(v)
    <2>1. una \in Int
      BY <1>8
    <2>2. HasFields(v)
      BY ZenonT(90) DEF Record, HasFields, Fields
    <2>3. /\ v.listed = t.listed /\ v.xfer_closed = t.xfer_closed
          /\ v.sent = t.sent /\ v.acked = t.acked /\ v.rcvd = t.rcvd
          /\ v.snd_seq = ack /\ v.snd_sent = 0 /\ v.snd_win = win
          /\ v.txhead = t.txhead /\ v.txtail = t.txtail /\ v.una = una
          /\ v.nxt = t.nxt /\ v.process = t.process /\ v.timer = FALSE
          /\ v.wait = t.wait /\ v.told = t.told
      BY DEF Record, HasFields, Fields
    <2> HIDE DEF v
    <2>4. v.snd_sent \in Int /\ v.una \in Int
      BY <2>1, <2>3
    <2>5. QED
      BY <2>2, <2>3, <2>4, Zenon DEF Record
  <1>11. /\ v.listed = t.listed /\ v.xfer_closed = t.xfer_closed
         /\ v.sent = t.sent /\ v.rcvd = t.rcvd /\ v.rx_queue = t.rx_queue
         /\ v.wait = t.wait /\ v.process = t.process
         /\ v.told = t.told /\ v.nxt = t.nxt /\ ~v.timer
    BY DEF Record, HasFields, Fields
  <1> HIDE DEF v
  <1>12. Record(u)
    BY ZenonT(90), <1>7, <1>8, <1>10 DEF Record, HasFields, Fields
  <1>13. /\ u.listed = v.listed /\ u.xfer_closed = v.xfer_closed
         /\ u.sent = v.sent /\ u.rcvd = v.rcvd /\ u.rx_queue = v.rx_queue
         /\ u.wait = v.wait /\ u.process = v.process
         /\ u.told = v.told /\ u.nxt = v.nxt
         /\ u.timer = v.timer /\ u.acked = acked /\ u.txends = ends
    BY ZenonT(90), <1>7, <1>10 DEF Record, HasFields, Fields
  <1>14. QED
    BY <1>9, <1>11, <1>12, <1>13 DEF TxEmpty

\* Adding FIN to a synchronised connection that may send one.
LEMMA FinControl ==
    ASSUME NEW t, Control(t), t.listed, "SYN" \in t.acked, "SYN" \in t.rcvd,
           NEW u, u = FinIfDrained(t)
    PROVE  /\ Control(u) /\ u.listed /\ Synchronized(u) /\ u.process = t.process
           /\ u.acked = t.acked /\ u.wait = t.wait /\ u.rcvd = t.rcvd
  <1>1. CASE ~(TxEmpty(t) /\ t.xfer_closed /\ "FIN" \notin t.sent)
    BY <1>1 DEF FinIfDrained, Control, Shape, SYN_SENT, StateIs
  <1>2. CASE TxEmpty(t) /\ t.xfer_closed /\ "FIN" \notin t.sent
    <2> DEFINE sent == t.sent \cup {"FIN"}
               flags == t.pending_flags + 1
    <2>a. sent = t.sent \cup {"FIN"}
      OBVIOUS
    <2>1. u = [t EXCEPT !.sent = sent, !.pending_flags = flags]
      BY <1>2 DEF FinIfDrained, StartFin
    <2> HIDE DEF sent, flags
    <2>b. Record(t)
      BY DEF Control
    <2>c. Record(u)
      BY ZenonT(90), <2>a, <2>b, <2>1 DEF Record, HasFields, Fields
    <2>d. /\ u.listed = t.listed /\ u.xfer_closed = t.xfer_closed
          /\ u.sent = sent /\ u.acked = t.acked /\ u.rcvd = t.rcvd
          /\ u.rx_queue = t.rx_queue /\ u.wait = t.wait /\ u.timer = t.timer
          /\ u.process = t.process /\ u.told = t.told /\ u.nxt = t.nxt
          /\ u.txends = t.txends
      BY ZenonT(90), <2>b, <2>1 DEF Record, HasFields, Fields
    <2>2. /\ Record(u)
          /\ u.listed = t.listed /\ u.xfer_closed = t.xfer_closed
          /\ u.sent = t.sent \cup {"FIN"} /\ u.acked = t.acked /\ u.rcvd = t.rcvd
          /\ u.rx_queue = t.rx_queue /\ u.wait = t.wait /\ u.timer = t.timer
          /\ u.process = t.process /\ u.told = t.told /\ u.nxt = t.nxt
          /\ u.txends = t.txends
      BY <2>a, <2>c, <2>d
    <2>3. /\ ESTABLISHED(t) => FIN_WAIT_1(u)
          /\ CLOSE_WAIT(t) => CLOSING_OR_LAST_ACK(u)
      BY <2>2 DEF ESTABLISHED, FIN_WAIT_1, CLOSE_WAIT, CLOSING_OR_LAST_ACK, StateIs
    <2>4. ESTABLISHED(t) \/ CLOSE_WAIT(t)
      BY <1>2 DEF Control, Shape, Synchronized, StateIs, SYN_SENT, SYN_RCVD,
           ESTABLISHED, FIN_WAIT_1, FIN_WAIT_2, CLOSING_OR_LAST_ACK, TIME_WAIT,
           CLOSE_WAIT
    <2>5. ~TIME_WAIT(u) /\ ~t.wait /\ "FIN" \notin u.acked
      BY <1>2, <2>2, <2>4 DEF Control, TIME_WAIT, StateIs, ESTABLISHED, CLOSE_WAIT
    <2>6. Synchronized(u)
      BY <2>3, <2>4 DEF Synchronized
    <2>7. QED
      BY <1>2, <2>2, <2>5, <2>6 DEF Control, Shape, TxEmpty
  <1>3. QED
    BY <1>1, <1>2

\* An acknowledgement on a connection that has received a SYN.
LEMMA AckControl ==
    ASSUME NEW t, Control(t), t.listed, "SYN" \in t.rcvd,
           NEW ack \in 0..(SeqSpace - 1), NEW win \in Int,
           NEW u, u = tcp_rx_ack(t, ack, win)
    PROVE  /\ Control(u) /\ u.listed /\ Synchronized(u) /\ u.rcvd = t.rcvd
           /\ u.process = t.process /\ u.wait = t.wait
           /\ "FIN" \in u.acked => "FIN" \in t.sent
           /\ t.acked \subseteq u.acked
           /\ AckLen(t, ack) # 0 /\ ~(AckLen(t, ack) > t.snd_sent)
                => "SYN" \in u.acked
  <1>a. Record(t) /\ Synchronized(t) /\ ("FIN" \in t.acked => "FIN" \in t.sent)
    BY DEF Control, Shape, Synchronized, SYN_SENT, SYN_RCVD, ESTABLISHED, FIN_WAIT_1,
         FIN_WAIT_2, CLOSING_OR_LAST_ACK, TIME_WAIT, CLOSE_WAIT, StateIs
  <1>1. CASE AckLen(t, ack) > t.snd_sent
    BY <1>a, <1>1 DEF tcp_rx_ack
  <1>2. CASE ~(AckLen(t, ack) > t.snd_sent) /\ AckLen(t, ack) = 0
    <2>1. u = [t EXCEPT !.snd_win = win]
      BY <1>2 DEF tcp_rx_ack
    <2>2. Record(u)
      BY ZenonT(90), <1>a, <2>1 DEF Record, HasFields, Fields
    <2>3. /\ u.listed = t.listed /\ u.xfer_closed = t.xfer_closed
          /\ u.sent = t.sent /\ u.acked = t.acked /\ u.rcvd = t.rcvd
          /\ u.rx_queue = t.rx_queue /\ u.wait = t.wait /\ u.process = t.process
          /\ u.told = t.told /\ u.nxt = t.nxt /\ u.timer = t.timer
          /\ u.txends = t.txends /\ u.snd_sent = t.snd_sent
          /\ u.una = t.una /\ u.snd_seq = t.snd_seq
      BY ZenonT(90), <1>a, <2>1 DEF Record, HasFields, Fields
    <2>4. Synchronized(u) /\ (TIME_WAIT(t) => TIME_WAIT(u))
      BY <1>a, <2>3 DEF Synchronized, SYN_RCVD, ESTABLISHED, FIN_WAIT_1,
           FIN_WAIT_2, CLOSING_OR_LAST_ACK, TIME_WAIT, CLOSE_WAIT, StateIs
    <2>5. Control(u)
      BY <2>2, <2>3, <2>4 DEF Control, Shape, TxEmpty
    <2>6. QED
      BY <1>a, <1>2, <2>3, <2>4, <2>5
  <1>3. CASE ~(AckLen(t, ack) > t.snd_sent) /\ AckLen(t, ack) # 0
    <2> DEFINE v == AckedFlagAndData(t, ack, win)
    <2>0. u = FinIfDrained(v)
      BY <1>3 DEF tcp_rx_ack
    <2>1. /\ Record(v)
          /\ v.listed = t.listed /\ v.xfer_closed = t.xfer_closed
          /\ v.sent = t.sent /\ v.rcvd = t.rcvd /\ v.rx_queue = t.rx_queue
          /\ v.wait = t.wait /\ v.process = t.process
          /\ v.told = t.told /\ v.nxt = t.nxt
          /\ ~v.timer
          /\ v.acked = t.acked \cup SendingFlag(t)
          /\ TxEmpty(t) => TxEmpty(v)
      BY Zenon, <1>a, AckedEffect
    <2> HIDE DEF v
    <2>2. /\ SYN_RCVD(t) => ESTABLISHED(v)
          /\ ESTABLISHED(t) => ESTABLISHED(v)
          /\ FIN_WAIT_1(t) => FIN_WAIT_2(v)
          /\ FIN_WAIT_2(t) => FIN_WAIT_2(v)
          /\ CLOSING_OR_LAST_ACK(t) => TIME_WAIT(v)
          /\ TIME_WAIT(t) => TIME_WAIT(v)
          /\ CLOSE_WAIT(t) => CLOSE_WAIT(v)
      BY <2>1 DEF SendingFlag, Sending, StateIs, SYN_RCVD, ESTABLISHED, FIN_WAIT_1,
           FIN_WAIT_2, CLOSING_OR_LAST_ACK, TIME_WAIT, CLOSE_WAIT
    <2>3. Synchronized(v) /\ "SYN" \in v.acked /\ ("FIN" \in v.acked => "FIN" \in v.sent)
      BY <1>a, <2>2 DEF Synchronized, StateIs, ESTABLISHED, FIN_WAIT_2, TIME_WAIT,
           CLOSE_WAIT
    <2>4. Control(v)
      BY Zenon, <2>1, <2>2, <2>3 DEF Control, Shape
    <2>5. /\ Control(u) /\ u.listed /\ Synchronized(u) /\ u.process = v.process
          /\ u.acked = v.acked /\ u.wait = v.wait /\ u.rcvd = v.rcvd
      BY Zenon, <2>0, <2>1, <2>3, <2>4, FinControl
    <2>6. QED
      BY <1>3, <2>1, <2>3, <2>5
  <1>4. QED
    BY <1>1, <1>2, <1>3

\* Deleting a connection leaves it quiet, from whatever state.
LEMMA DeletedControl ==
    ASSUME NEW t, Record(t), NEW u, u = Deleted(XferClosed(t))
    PROVE  Control(u) /\ Awake(u) /\ ~u.listed
  <1> DEFINE x == XferClosed(t)
             data == Put(x.pending_data, Cardinality(x.txends))
             flags == Put(x.pending_flags, 2)
             v == [x EXCEPT !.sent = {"RST"}, !.acked = {}, !.rcvd = {},
                            !.rx_queue = <<>>, !.pending_data = data]
             y == [v EXCEPT !.txhead = x.txtail, !.txends = {},
                            !.pending_flags = flags, !.process = FALSE]
  <1>1. Record(x) /\ x.xfer_closed
    BY ZenonT(60) DEF XferClosed, Record, HasFields, Fields
  <1>2. u = [y EXCEPT !.timer = FALSE, !.wait = FALSE, !.listed = FALSE]
    BY Zenon, <1>1 DEF Deleted, Record, HasFields, Fields
  <1> HIDE DEF x, data, flags
  <1>3. /\ Record(v) /\ v.sent = {"RST"} /\ v.acked = {} /\ v.rcvd = {}
        /\ v.rx_queue = <<>> /\ v.xfer_closed
    BY ZenonT(90), <1>1 DEF Record, HasFields, Fields
  <1>4. x.txtail \in Int
    BY <1>1 DEF Record
  <1> HIDE DEF v
  <1>5. Record(y)
    BY ZenonT(90), <1>3, <1>4 DEF Record, HasFields, Fields
  <1>6. /\ y.sent = v.sent /\ y.acked = v.acked /\ y.rcvd = v.rcvd
        /\ y.rx_queue = v.rx_queue /\ ~y.process /\ y.txends = {}
    BY <1>3 DEF Record, HasFields, Fields
  <1> HIDE DEF y
  <1>7. Record(u)
    BY ZenonT(90), <1>2, <1>5 DEF Record, HasFields, Fields
  <1>8. /\ u.sent = y.sent /\ u.acked = y.acked /\ u.rcvd = y.rcvd
        /\ u.rx_queue = y.rx_queue /\ u.process = y.process /\ u.txends = y.txends
        /\ ~u.timer /\ ~u.wait /\ ~u.listed
    BY ZenonT(90), <1>2, <1>5 DEF Record, HasFields, Fields
  <1>9. CLOSED(u) /\ Quiet(u) /\ "FIN" \notin u.sent
    BY <1>3, <1>6, <1>8 DEF CLOSED, StateIs, Quiet, TxEmpty
  <1>10. SendingFlag(u) = {} /\ XmitLen(u) = 0
    BY <1>9 DEF CLOSED, StateIs, SendingFlag, Sending, XmitLen, CanSendData
  <1>11. QED
    BY <1>7, <1>8, <1>9, <1>10 DEF Control, Shape, Quiet, Awake

\* A time-out, a reset and a shutdown delete the connection from any state.
LEMMA AbortControl ==
    ASSUME NEW t, Record(t), NEW u, u = Abort(t)
    PROVE  Control(u) /\ Awake(u) /\ ~u.listed
  <1> DEFINE v == [t EXCEPT !.sent = {"RST"}, !.acked = {}, !.rcvd = {}]
  <1>1. Record(v) /\ v.rcvd = {}
    BY ZenonT(90) DEF Record, HasFields, Fields
  <1>2. u = tcp_close(v)
    BY DEF Abort
  <1> HIDE DEF v
  <1>3. u = Deleted(XferClosed(v))
    BY <1>1, <1>2 DEF tcp_close
  <1>4. QED
    BY <1>1, <1>3, DeletedControl

\* tcp_close() deletes a connection that has not received a SYN; on any other
\* it keeps the invariant.
LEMMA CloseControl ==
    ASSUME NEW t, Control(t), t.listed, NEW u, u = tcp_close(t)
    PROVE  /\ Control(u)
           /\ u.listed \/ Awake(u)
           /\ "SYN" \in t.rcvd => /\ u.listed /\ Synchronized(u)
                              /\ u.rcvd = t.rcvd /\ "SYN" \in u.acked
           /\ (TIME_WAIT(t) => t.wait) => (TIME_WAIT(u) => u.wait)
  <1> DEFINE x == XferClosed(t)
  <1>1. CASE "SYN" \notin t.rcvd
    <2>1. Record(t) /\ x.rcvd = t.rcvd
      BY DEF Control, XferClosed, Record, HasFields, Fields
    <2>2. u = Deleted(x)
      BY <1>1, <2>1 DEF tcp_close
    <2>3. Control(u) /\ Awake(u) /\ ~u.listed
      BY <2>1, <2>2, DeletedControl
    <2>4. QED
      BY <1>1, <2>3 DEF Control, Quiet, Shape, CLOSED, TIME_WAIT, StateIs
  <1>2. CASE "SYN" \in t.rcvd
    <2>0. Record(t)
      BY DEF Control
    <2>1. /\ Record(x)
          /\ x.listed = t.listed /\ x.xfer_closed
          /\ x.sent = t.sent /\ x.acked = t.acked /\ x.rcvd = t.rcvd
          /\ x.rx_queue = t.rx_queue /\ x.wait = t.wait /\ x.process = t.process
          /\ x.told = t.told /\ x.nxt = t.nxt /\ x.timer = t.timer
          /\ x.txends = t.txends /\ x.snd_sent = t.snd_sent
          /\ x.una = t.una /\ x.snd_seq = t.snd_seq
      BY ZenonT(90), <2>0 DEF XferClosed, Record, HasFields, Fields
    <2>2. u = FinIfDrained(PretendSynAcked(x))
      BY <1>2, <2>1 DEF tcp_close
    <2> HIDE DEF x
    <2>3. Synchronized(t) /\ Synchronized(x) /\ (TIME_WAIT(t) <=> TIME_WAIT(x))
      BY <1>2, <2>1 DEF Control, Shape, Synchronized, SYN_SENT, SYN_RCVD, ESTABLISHED,
           FIN_WAIT_1, FIN_WAIT_2, CLOSING_OR_LAST_ACK, TIME_WAIT, CLOSE_WAIT, StateIs
    <2>4. Control(x)
      BY <1>2, <2>1, <2>3 DEF Control, Shape, TxEmpty
    <2>5. CASE "SYN" \in x.acked
      <3>1. u = FinIfDrained(x)
        BY <2>2, <2>5 DEF PretendSynAcked
      <3>2. /\ Control(u) /\ u.listed /\ Synchronized(u) /\ u.acked = x.acked
            /\ u.wait = x.wait /\ u.rcvd = x.rcvd
        BY ZenonT(90), <1>2, <2>1, <2>4, <2>5, <3>1, FinControl
      <3>3. TIME_WAIT(u) => TIME_WAIT(x)
        BY <2>3, <3>2 DEF Synchronized, SYN_RCVD, ESTABLISHED, FIN_WAIT_1, FIN_WAIT_2,
             CLOSING_OR_LAST_ACK, TIME_WAIT, CLOSE_WAIT, StateIs
      <3>4. QED
        BY <2>1, <2>3, <2>5, <3>2, <3>3
    <2>6. CASE "SYN" \notin x.acked
      <3> DEFINE ack == SeqAdd(x.snd_seq, 1)
                 p == tcp_rx_ack(x, ack, 0)
      <3>1. ack \in 0..(SeqSpace - 1) /\ AckLen(x, ack) = 1
        BY <2>1, NextSeq, SequenceSpace DEF AckLen, SeqAdd, Record
      <3>2. x.snd_sent = 1 /\ x.listed
        BY <1>2, <2>1, <2>4, <2>6 DEF Control
      <3>3. "FIN" \notin x.sent
        BY <2>3, <2>6 DEF Synchronized, SYN_RCVD, ESTABLISHED, FIN_WAIT_1, FIN_WAIT_2,
             CLOSING_OR_LAST_ACK, TIME_WAIT, CLOSE_WAIT, StateIs
      <3>4. u = FinIfDrained(p)
        BY <2>2, <2>6 DEF PretendSynAcked
      <3> HIDE DEF ack
      <3>5. /\ Control(p) /\ p.listed /\ p.rcvd = x.rcvd /\ "SYN" \in p.acked
            /\ "FIN" \notin p.acked
        BY <1>2, <2>1, <2>4, <3>1, <3>2, <3>3, AckControl
      <3> HIDE DEF p
      <3>6. /\ Control(u) /\ u.listed /\ Synchronized(u) /\ u.acked = p.acked
            /\ u.rcvd = p.rcvd
        BY <1>2, <2>1, <3>4, <3>5, FinControl
      <3>7. QED
        BY <2>1, <3>5, <3>6 DEF TIME_WAIT, StateIs
    <2>7. QED
      BY <2>5, <2>6
  <1>3. QED
    BY <1>1, <1>2

-----------------------------------------------------------------------------
(* The receive path.                                                       *)

\* Functions that touch none of the fields the invariant speaks of.
Frame(u, t) ==
    /\ HasFields(u) /\ SameState(u, t)
    /\ u.snd_sent = t.snd_sent /\ u.nxt = t.nxt /\ u.timer = t.timer /\ u.told = t.told
    /\ u.rx_queue # <<>> => "SYN" \in t.rcvd /\ "SYN" \in t.acked

LEMMA FrameControl ==
    ASSUME NEW t, Control(t), t.listed, NEW u, Frame(u, t)
    PROVE  /\ Control(u) /\ (Awake(t) => Awake(u))
           /\ TIME_WAIT(u) <=> TIME_WAIT(t)
           /\ Synchronized(u) <=> Synchronized(t)
  <1> USE DEF StateIs, SYN_SENT, SYN_RCVD, ESTABLISHED, FIN_WAIT_1,
              FIN_WAIT_2, CLOSING_OR_LAST_ACK, TIME_WAIT, CLOSE_WAIT, Synchronized
  <1>1. Record(u)
    BY ZenonT(60) DEF Control, Record, Frame, SameState
  <1>2. Shape(u) /\ (TIME_WAIT(u) <=> TIME_WAIT(t)) /\ (Synchronized(u) <=> Synchronized(t))
    BY ZenonT(90) DEF Control, Frame, SameState, Shape
  <1>3. SendingFlag(u) = SendingFlag(t) /\ XmitLen(u) = XmitLen(t)
    BY DEF Frame, SameState, SendingFlag, Sending, XmitLen, CanSendData, TxLen,
         tcp_xmit_win
  <1>4. Control(u)
    BY <1>1, <1>2 DEF Control, Frame, SameState, TxEmpty
  <1>5. Awake(t) => Awake(u)
    BY <1>3 DEF Awake, Frame, SameState
  <1>6. QED
    BY <1>2, <1>4, <1>5

\* Accounting for received sequence space, delivering, discarding, dequeueing
\* and queueing a packet are such functions.
LEMMA RxFrame ==
    ASSUME NEW t, Control(t), t.listed, NEW n, NEW q
    PROVE  /\ Frame(tcp_rx_seq(t, n), t)
           /\ Frame(Deliver(t, q), t)
           /\ Frame(tcp_discard(t), t)
           /\ Frame([t EXCEPT !.rx_queue = Tail(@)], t) \/ t.rx_queue = <<>>
           /\ Frame([t EXCEPT !.ack_pending = TRUE], t)
           /\ "SYN" \in t.acked /\ "SYN" \in t.rcvd => Frame(tcp_rx_enqueue(t, q), t)
           /\ q.len = 0 /\ ~q.fin => Frame(tcp_rx_enqueue(t, q), t)
  <1>1. HasFields(t) /\ (t.rx_queue # <<>> => "SYN" \in t.rcvd /\ "SYN" \in t.acked)
    BY DEF Control, Record
  <1>2. Frame(t, t)
    BY <1>1 DEF Frame, SameState
  <1>3. Frame(tcp_rx_seq(t, n), t)
    BY ZenonT(90), <1>1 DEF Frame, SameState, HasFields, Fields, tcp_rx_seq
  <1>4. Frame(Deliver(t, q), t)
    <2>1. CASE t.xfer_closed
      BY <1>2, <2>1 DEF Deliver
    <2>2. CASE ~t.xfer_closed
      <3> DEFINE d == Deliver(t, q).delivered
      <3>1. Deliver(t, q) = [t EXCEPT !.delivered = d]
        BY <1>1, <2>2 DEF Deliver, HasFields, Fields
      <3> HIDE DEF d
      <3>2. Frame([t EXCEPT !.delivered = d], t)
        BY ZenonT(90), <1>1 DEF Frame, SameState, HasFields, Fields
      <3>3. QED
        BY <3>1, <3>2
    <2>3. QED
      BY <2>1, <2>2
  <1>5. Frame(tcp_discard(t), t)
    BY ZenonT(90), <1>1, <1>2 DEF Frame, SameState, HasFields, Fields, tcp_discard
  <1>6. Frame([t EXCEPT !.rx_queue = Tail(@)], t) \/ t.rx_queue = <<>>
    BY ZenonT(90), <1>1 DEF Frame, SameState, HasFields, Fields
  <1>7. Frame([t EXCEPT !.ack_pending = TRUE], t)
    BY ZenonT(60), <1>1 DEF Frame, SameState, HasFields, Fields
  <1>8. "SYN" \in t.acked /\ "SYN" \in t.rcvd => Frame(tcp_rx_enqueue(t, q), t)
    BY ZenonT(90), <1>1, <1>2 DEF Frame, SameState, HasFields, Fields, tcp_rx_enqueue
  <1>9. q.len = 0 /\ ~q.fin => Frame(tcp_rx_enqueue(t, q), t)
    BY <1>2 DEF tcp_rx_enqueue, Enqueueable
  <1>10. QED
    BY <1>3, <1>4, <1>5, <1>6, <1>7, <1>8, <1>9

\* tcp_rx_data() on a listed connection.
LEMMA RxDataControl ==
    ASSUME NEW t, Control(t), t.listed, NEW q, NEW u, u = tcp_rx_data(t, q)
    PROVE  Control(u) /\ SameState(u, t)
  <1> DEFINE d == Deliver(t, q)
             n == q.len - AlreadyRcvd(t, q)
  <1>1. Frame(d, t)
    BY Zenon, RxFrame
  <1> HIDE DEF d, n
  <1>2. Control(d) /\ d.listed
    BY Zenon, <1>1, FrameControl DEF Frame, SameState
  <1>3. Frame(tcp_rx_seq(d, n), d)
    BY Zenon, <1>2, RxFrame
  <1>4. Control(tcp_rx_seq(d, n))
    BY <1>2, <1>3, FrameControl
  <1>5. u = t \/ u = tcp_rx_seq(d, n)
    BY DEF tcp_rx_data, d, n
  <1>6. SameState(t, t) /\ SameState(tcp_rx_seq(d, n), t)
    BY <1>1, <1>3 DEF Frame, SameState
  <1>7. QED
    BY <1>4, <1>5, <1>6

\* tcp_rx_fin() once our SYN is acknowledged.
LEMMA RxFinControl ==
    ASSUME NEW t, Control(t), t.listed, "SYN" \in t.acked, "SYN" \in t.rcvd, NEW seq,
           NEW u, u = tcp_rx_fin(t, seq)
    PROVE  Control(u) /\ u.listed
  <1>1. CASE seq # t.rcv_ack
    BY <1>1 DEF tcp_rx_fin
  <1>2. CASE seq = t.rcv_ack
    <2> DEFINE s == tcp_rx_seq(t, 1)
               rcvd == s.rcvd \cup {"FIN"}
               v == [s EXCEPT !.rcvd = rcvd]
    <2>1. u = tcp_close(v)
      BY <1>2 DEF tcp_rx_fin
    <2>2. Frame(s, t)
      BY Zenon, RxFrame
    <2> HIDE DEF s
    <2>3. Control(s) /\ s.listed /\ "SYN" \in s.acked /\ "SYN" \in s.rcvd
      BY Zenon, <2>2, FrameControl DEF Frame, SameState
    <2>4. rcvd = s.rcvd \cup {"FIN"}
      OBVIOUS
    <2>5. Record(s)
      BY <2>3 DEF Control
    <2> HIDE DEF rcvd
    <2>6. Record(v)
      BY <2>5 DEF Record, HasFields, Fields
    <2>7. /\ v.listed = s.listed /\ v.xfer_closed = s.xfer_closed
          /\ v.sent = s.sent /\ v.acked = s.acked /\ v.rcvd = rcvd
          /\ v.rx_queue = s.rx_queue /\ v.wait = s.wait
          /\ v.told = s.told /\ v.nxt = s.nxt /\ v.timer = s.timer
          /\ v.txends = s.txends
      BY <2>5 DEF Record, HasFields, Fields
    <2> HIDE DEF v
    <2>8. /\ ESTABLISHED(s) => CLOSE_WAIT(v)
          /\ FIN_WAIT_1(s) => CLOSING_OR_LAST_ACK(v)
          /\ FIN_WAIT_2(s) => TIME_WAIT(v)
          /\ CLOSING_OR_LAST_ACK(s) => CLOSING_OR_LAST_ACK(v)
          /\ TIME_WAIT(s) => TIME_WAIT(v)
          /\ CLOSE_WAIT(s) => CLOSE_WAIT(v)
      BY <2>4, <2>7 DEF StateIs, ESTABLISHED, FIN_WAIT_1, FIN_WAIT_2,
           CLOSING_OR_LAST_ACK, TIME_WAIT, CLOSE_WAIT
    <2>9. /\ ESTABLISHED(s) \/ FIN_WAIT_1(s) \/ FIN_WAIT_2(s)
               \/ CLOSING_OR_LAST_ACK(s) \/ TIME_WAIT(s) \/ CLOSE_WAIT(s)
      BY ZenonT(60), <2>3 DEF Control, Shape, Synchronized, SYN_SENT, SYN_RCVD, StateIs
    <2>10. Synchronized(v) /\ "SYN" \in v.rcvd /\ "SYN" \in v.acked
      BY ZenonT(60), <2>3, <2>4, <2>7, <2>8, <2>9 DEF Synchronized
    <2>11. Control(v) /\ v.listed
      BY ZenonT(90), <2>3, <2>6, <2>7, <2>8, <2>10 DEF Control, Shape, TxEmpty
    <2>12. QED
      BY <2>1, <2>10, <2>11, CloseControl
  <1>3. QED
    BY <1>1, <1>2

\* tcp_rx_syn(): the first SYN synchronises the connection, whether or not the
\* same segment has acknowledged ours; a later one changes no state.
LEMMA RxSynControl ==
    ASSUME NEW t, Record(t), t.listed, ~t.wait, t.rx_queue = <<>>,
           StateIs(t, {"SYN"}, {}, {}) \/ StateIs(t, {"SYN"}, {"SYN"}, {}),
           "SYN" \notin t.acked => /\ t.nxt > 0 /\ t.snd_sent = 1
                                   /\ t.una = 0 /\ t.nxt <= 1 /\ t.snd_seq = ISS,
           NEW seq, NEW u, u = tcp_rx_syn(t, seq)
    PROVE  Control(u) /\ u.listed
  <1> DEFINE s == Synchronised(t, seq)
             r == tcp_rx_seq(s, 1)
             sent == r.sent \cup {"ACK"}
             rcvd == r.rcvd \cup {"SYN"}
  <1>1. s = [t EXCEPT !.rcv_ack = seq] /\ s.rcv_ack = seq
    BY DEF Synchronised, Record, HasFields, Fields, StateIs
  <1>2. u = [r EXCEPT !.sent = sent, !.rcvd = rcvd]
    BY <1>1 DEF tcp_rx_syn
  <1>3. Frame(s, t)
    BY <1>1 DEF Frame, SameState, Record, HasFields, Fields
  <1> HIDE DEF s
  <1>4. Frame(r, s)
    BY ZenonT(90), <1>3 DEF Frame, SameState, tcp_rx_seq, HasFields, Fields, Record
  <1> HIDE DEF r
  <1>5. Record(r)
    BY <1>3, <1>4, ZenonT(90) DEF Record, Frame, SameState
  <1>6. sent = r.sent \cup {"ACK"} /\ rcvd = r.rcvd \cup {"SYN"}
    OBVIOUS
  <1> HIDE DEF sent, rcvd
  <1>7. Record(u)
    BY ZenonT(90), <1>2, <1>5 DEF Record, HasFields, Fields
  <1>8. /\ u.listed = r.listed /\ u.xfer_closed = r.xfer_closed
        /\ u.sent = sent /\ u.acked = r.acked /\ u.rcvd = rcvd
        /\ u.rx_queue = r.rx_queue /\ u.wait = r.wait
        /\ u.told = r.told /\ u.nxt = r.nxt /\ u.timer = r.timer
        /\ u.txends = r.txends /\ u.snd_sent = r.snd_sent
        /\ u.una = r.una /\ u.snd_seq = r.snd_seq
    BY ZenonT(90), <1>2, <1>5 DEF Record, HasFields, Fields
  <1>9. SYN_RCVD(u) \/ ESTABLISHED(u)
    BY <1>3, <1>4, <1>6, <1>8 DEF Frame, SameState, StateIs, SYN_RCVD, ESTABLISHED
  <1>10. u.listed /\ ~u.wait /\ u.rx_queue = <<>>
    BY <1>3, <1>4, <1>8 DEF Frame, SameState, StateIs
  <1>11. "SYN" \notin u.acked => /\ u.nxt > 0 /\ u.snd_sent = 1
                                /\ u.una = 0 /\ u.nxt <= 1 /\ u.snd_seq = ISS
    BY <1>3, <1>4, <1>8 DEF Frame, SameState
  <1>12. QED
    BY <1>7, <1>9, <1>10, <1>11 DEF Control, Shape, Synchronized, SYN_RCVD, ESTABLISHED,
         StateIs

\* A duplicate SYN changes no state.
LEMMA RxSynAgain ==
    ASSUME NEW t, Control(t), t.listed, "SYN" \in t.rcvd, NEW seq,
           NEW u, u = tcp_rx_syn(t, seq)
    PROVE  Control(u) /\ SameState(u, t)
  <1>1. "ACK" \in t.sent
    BY DEF Control, Shape, Synchronized, SYN_SENT, SYN_RCVD, ESTABLISHED, FIN_WAIT_1,
         FIN_WAIT_2, CLOSING_OR_LAST_ACK, TIME_WAIT, CLOSE_WAIT, StateIs
  <1>2. CASE seq # t.rcv_ack
    BY Zenon, <1>2 DEF tcp_rx_syn, Synchronised, SameState
  <1>3. CASE seq = t.rcv_ack
    <2> DEFINE r == tcp_rx_seq(t, 1)
               sent == r.sent \cup {"ACK"}
               rcvd == r.rcvd \cup {"SYN"}
    <2>1. u = [r EXCEPT !.sent = sent, !.rcvd = rcvd]
      BY <1>3 DEF tcp_rx_syn, Synchronised
    <2>2. Frame(r, t)
      BY ZenonT(60), RxFrame
    <2> HIDE DEF r
    <2>3. sent = r.sent /\ rcvd = r.rcvd
      BY <1>1, <2>2 DEF Frame, SameState
    <2> HIDE DEF sent, rcvd
    <2>4. u = r
      BY ZenonT(60), <2>1, <2>2, <2>3 DEF Frame, HasFields, Fields
    <2>5. QED
      BY <2>2, <2>4, FrameControl DEF Frame
  <1>4. QED
    BY <1>2, <1>3

\* In a listed connection our SYN is unacknowledged in SYN_SENT and SYN_RCVD
\* only, and graceful closure is TIME_WAIT.
LEMMA StateFacts ==
    ASSUME NEW t, Control(t)
    PROVE  /\ ClosedGracefully(t) <=> TIME_WAIT(t)
           /\ SendingFlag(t) # {"SYN", "FIN"}
           /\ t.timer => \/ SYN_SENT(t) \/ SYN_RCVD(t) \/ ESTABLISHED(t)
                         \/ FIN_WAIT_1(t) \/ CLOSE_WAIT(t) \/ CLOSING_OR_LAST_ACK(t)
           /\ t.listed => SYN_SENT(t) \/ "SYN" \in t.rcvd
  BY DEF Control, Shape, Synchronized, CLOSED, SYN_SENT, SYN_RCVD, ESTABLISHED,
       FIN_WAIT_1, FIN_WAIT_2, CLOSING_OR_LAST_ACK, TIME_WAIT, CLOSE_WAIT, StateIs,
       ClosedGracefully, SendingFlag, Sending, Quiet

\* An acceptable acknowledgement in SYN_SENT: our SYN is acknowledged, or
\* nothing but the window changes.
LEMMA SynSentAck ==
    ASSUME NEW t, Control(t), t.listed, SYN_SENT(t),
           NEW ack \in 0..(SeqSpace - 1), NEW win \in Int, ~(AckLen(t, ack) > t.snd_sent),
           NEW u, u = tcp_rx_ack(t, ack, win)
    PROVE  /\ Record(u) /\ u.listed /\ ~u.wait /\ u.rx_queue = <<>> /\ u.rcvd = {}
           /\ \/ Control(u) /\ SYN_SENT(u) /\ u.nxt = t.nxt
              \/ StateIs(u, {"SYN"}, {"SYN"}, {})
  <1>1. /\ Record(t) /\ ~t.wait /\ t.rx_queue = <<>> /\ ~t.xfer_closed
        /\ t.sent = {"SYN"} /\ t.acked = {} /\ t.rcvd = {}
    BY DEF Control, SYN_SENT, TIME_WAIT, StateIs
  <1>2. CASE AckLen(t, ack) = 0
    <2>1. u = [t EXCEPT !.snd_win = win]
      BY <1>2 DEF tcp_rx_ack
    <2>2. Record(u)
      BY ZenonT(90), <1>1, <2>1 DEF Record, HasFields, Fields
    <2>3. /\ u.listed = t.listed /\ u.xfer_closed = t.xfer_closed
          /\ u.sent = t.sent /\ u.acked = t.acked /\ u.rcvd = t.rcvd
          /\ u.rx_queue = t.rx_queue /\ u.wait = t.wait /\ u.process = t.process
          /\ u.told = t.told /\ u.nxt = t.nxt /\ u.timer = t.timer
          /\ u.txends = t.txends /\ u.snd_sent = t.snd_sent
          /\ u.una = t.una /\ u.snd_seq = t.snd_seq
      BY ZenonT(90), <1>1, <2>1 DEF Record, HasFields, Fields
    <2>4. Control(u) /\ SYN_SENT(u)
      BY <1>1, <2>2, <2>3 DEF Control, Shape, SYN_SENT, StateIs, TxEmpty
    <2>5. QED
      BY <1>1, <2>2, <2>3, <2>4
  <1>3. CASE AckLen(t, ack) # 0
    <2> DEFINE v == AckedFlagAndData(t, ack, win)
    <2>1. u = FinIfDrained(v)
      BY <1>3 DEF tcp_rx_ack
    <2>a. Record(t)
      BY <1>1
    <2>2. /\ Record(v)
          /\ v.listed = t.listed /\ v.xfer_closed = t.xfer_closed
          /\ v.sent = t.sent /\ v.rcvd = t.rcvd /\ v.rx_queue = t.rx_queue
          /\ v.wait = t.wait /\ v.process = t.process
          /\ v.told = t.told /\ v.nxt = t.nxt
          /\ ~v.timer
          /\ v.acked = t.acked \cup SendingFlag(t)
          /\ TxEmpty(t) => TxEmpty(v)
      BY Zenon, <2>a, AckedEffect
    <2> HIDE DEF v
    <2>3. u = v
      BY <1>1, <2>1, <2>2 DEF FinIfDrained
    <2>4. SendingFlag(t) = {"SYN"}
      BY <1>1 DEF SendingFlag, Sending
    <2>5. QED
      BY ZenonT(60), <1>1, <2>2, <2>3, <2>4 DEF StateIs
  <1>4. QED
    BY <1>2, <1>3

\* The inductive invariant: Control at all times; between calls, in addition,
\* something to send has a wake-up and TIME_WAIT has its timer.
ControlInv ==
    /\ Control(tcp)
    /\ pc \in {"new", "idle", "rx"}
    /\ pc = "new" => /\ ~tcp.listed /\ ~tcp.told /\ ~tcp.xfer_closed
                     /\ tcp.nxt = 0 /\ tcp.una = 0 /\ tcp.snd_seq = ISS
    /\ pc = "rx" => tcp.listed
    /\ pc = "idle" => Awake(tcp) /\ (TIME_WAIT(tcp) => tcp.wait)

LEMMA ControlInit == Init => ControlInv
  <1> SUFFICES ASSUME Init PROVE ControlInv
    OBVIOUS
  <1>1. HasFields(tcp)
    BY Zenon DEF Init, HasFields, Fields
  <1>2. Record(tcp)
    BY <1>1, SequenceSpace DEF Init, Record
  <1>3. CLOSED(tcp) /\ Quiet(tcp)
    BY DEF Init, CLOSED, StateIs, Quiet, TxEmpty
  <1>4. Control(tcp)
    BY <1>2, <1>3 DEF Control, Shape, Init, CLOSED, StateIs
  <1>5. QED
    BY <1>4 DEF Init, ControlInv

\* What a conforming peer can have sent, when its SYN answers ours.
LEMMA SegmentFacts ==
    ASSUME ~EarlySyn, NEW s \in Segments, tcp.nxt \in Int
    PROVE  /\ s.ack \in 0..(SeqSpace - 1) /\ s.win \in Int
           /\ \/ s.syn /\ ~s.rst /\ ~s.fin /\ s.len = 0 /\ tcp.nxt # 0
              \/ s.rst /\ ~s.syn /\ ~s.fin /\ s.len = 0 /\ tcp.nxt # 0
              \/ /\ ~s.syn /\ ~s.rst /\ s.ackf /\ tcp.told
                 /\ \E a \in 1..tcp.nxt : s.ack = Ack(a)
  <1>0. \A a \in Int : Ack(a) \in 0..(SeqSpace - 1)
    BY SequenceSpace DEF Ack, SeqAdd
  <1>1. ASSUME s \in SynSegments
        PROVE  /\ s.ack \in 0..(SeqSpace - 1) /\ s.win \in Int
               /\ s.syn /\ ~s.rst /\ ~s.fin /\ s.len = 0 /\ tcp.nxt # 0
    <2>1. tcp.nxt # 0
      BY <1>1 DEF SynSegments
    <2>2. PICK a \in {0} \cup (1..MinOf(1, tcp.nxt)), w \in PeerWins :
            s = [syn |-> TRUE, ackf |-> a > 0, fin |-> FALSE, rst |-> FALSE,
                 seq |-> IRS, ack |-> Ack(a), win |-> w, from |-> 0, len |-> 0]
      BY <1>1, <2>1 DEF SynSegments
    <2>3. a \in Int /\ w \in Int
      BY TcpConstants DEF MinOf
    <2>4. QED
      BY <1>0, <2>1, <2>2, <2>3
  <1>2. ASSUME NEW d \in DataSegments
        PROVE  /\ d.ack \in 0..(SeqSpace - 1) /\ d.win \in Int
               /\ ~d.syn /\ ~d.rst /\ d.ackf /\ tcp.told
               /\ \E a \in 1..tcp.nxt : d.ack = Ack(a)
    <2>1. tcp.told
      BY <1>2 DEF DataSegments
    <2>2. PICK f \in BOOLEAN, from \in 0..PeerLen, l \in 0..PeerLen,
               a \in 1..tcp.nxt, w \in PeerWins :
            d = [syn |-> FALSE, ackf |-> TRUE, fin |-> f, rst |-> FALSE,
                 seq |-> SeqAdd(IRS, 1 + from), ack |-> Ack(a), win |-> w,
                 from |-> from, len |-> l]
      BY <1>2, <2>1 DEF DataSegments
    <2>3. a \in Int /\ w \in Int
      BY TcpConstants
    <2>4. QED
      BY <1>0, <2>1, <2>2, <2>3
  <1>3. ASSUME s \in RstSegments
        PROVE  /\ s.ack \in 0..(SeqSpace - 1) /\ s.win \in Int
               /\ s.rst /\ ~s.syn /\ ~s.fin /\ s.len = 0 /\ tcp.nxt # 0
    <2>1. Resets /\ tcp.nxt # 0
      BY <1>3 DEF RstSegments
    <2>2. PICK p \in 0..(PeerLen + 2), a \in 1..tcp.nxt :
            s = [syn |-> FALSE, ackf |-> TRUE, fin |-> FALSE, rst |-> TRUE,
                 seq |-> SeqAdd(IRS, p), ack |-> Ack(a), win |-> 0,
                 from |-> 0, len |-> 0]
      BY <1>3, <2>1 DEF RstSegments
    <2>3. a \in Int
      OBVIOUS
    <2>4. QED
      BY <1>0, <2>1, <2>2, <2>3
  <1>4. ASSUME s \in AfterFin
        PROVE  /\ s.ack \in 0..(SeqSpace - 1) /\ s.win \in Int
               /\ ~s.syn /\ ~s.rst /\ s.ackf /\ tcp.told
               /\ \E a \in 1..tcp.nxt : s.ack = Ack(a)
    <2>1. PICK d \in DataSegments :
            s = [d EXCEPT !.seq = SeqAdd(IRS, PeerLen + 2), !.fin = FALSE]
      BY Zenon, <1>4 DEF AfterFin
    <2>2. PICK f \in BOOLEAN, from \in 0..PeerLen, l \in 0..PeerLen,
               a \in 1..tcp.nxt, w \in PeerWins :
            d = [syn |-> FALSE, ackf |-> TRUE, fin |-> f, rst |-> FALSE,
                 seq |-> SeqAdd(IRS, 1 + from), ack |-> Ack(a), win |-> w,
                 from |-> from, len |-> l]
      BY <2>1 DEF DataSegments
    <2>3. s.ack = d.ack /\ s.win = d.win /\ s.syn = d.syn /\ s.rst = d.rst
            /\ s.ackf = d.ackf
      BY <2>1, <2>2
    <2>4. QED
      BY <1>2, <2>3
  <1>5. QED
    BY <1>1, <1>2, <1>3, <1>4 DEF Segments

\* tcp_rx() up to the point where the receive queue is processed.
LEMMA RxStep ==
    ASSUME ~EarlySyn, ControlInv, NEW s \in Segments, tcp_rx(s)
    PROVE  ControlInv'
  <1>0. /\ pc = "idle" /\ tcp.listed /\ Control(tcp) /\ Record(tcp) /\ tcp.nxt \in Int
    <2>1. pc = "idle" /\ tcp.listed /\ Control(tcp) /\ Record(tcp)
      BY Zenon DEF tcp_rx, Idle, ControlInv, Control
    <2>2. tcp.nxt \in Int
      BY <2>1 DEF Record
    <2>3. QED
      BY Zenon, <2>1, <2>2
  <1>1. /\ s.ack \in 0..(SeqSpace - 1) /\ s.win \in Int
        /\ \/ s.syn /\ ~s.rst /\ ~s.fin /\ s.len = 0 /\ tcp.nxt # 0
           \/ s.rst /\ ~s.syn /\ ~s.fin /\ s.len = 0 /\ tcp.nxt # 0
           \/ /\ ~s.syn /\ ~s.rst /\ s.ackf /\ tcp.told
              /\ \E a \in 1..tcp.nxt : s.ack = Ack(a)
    BY <1>0, SegmentFacts
  <1> DEFINE acked == IF s.ackf THEN tcp_rx_ack(tcp, s.ack, s.win) ELSE tcp
             forced == ForceAck(acked, s.seq)
             t == RxHeader(tcp, s)
             q == AsQueued(s)
  <1>2. t = IF s.syn THEN tcp_rx_syn(forced, s.seq) ELSE forced
    BY DEF RxHeader
  <1>3. q.len = s.len /\ q.fin = s.fin
    BY DEF AsQueued
  <1>4. /\ \/ tcp' = Abort(t) /\ pc' = pc /\ s.rst /\ RstAccepted(t, SeqAfterSyn(s))
           \/ /\ tcp' = tcp_rx_enqueue(t, q) /\ pc' = "rx"
              /\ ~(s.rst /\ RstAccepted(t, SeqAfterSyn(s)))
        /\ ~(s.ackf /\ AckRefused(tcp, s.ack))
    BY DEF tcp_rx
  <1> HIDE DEF t, q
  \* Whatever the state was, Abort leads to a deleted connection.
  <1>5. ASSUME Record(t), tcp' = Abort(t), pc' = pc PROVE ControlInv'
    <2>1. Control(tcp') /\ Awake(tcp') /\ ~tcp'.listed
      BY <1>5, AbortControl
    <2>2. ~TIME_WAIT(tcp')
      BY <2>1 DEF Control, Shape, CLOSED, TIME_WAIT, StateIs
    <2>3. QED
      BY <1>0, <1>5, <2>1, <2>2 DEF ControlInv
  \* What is left to show when the segment is queued.
  <1>6. ASSUME Control(t), t.listed, tcp' = tcp_rx_enqueue(t, q), pc' = "rx",
               \/ q.len = 0 /\ ~q.fin
               \/ "SYN" \in t.acked /\ "SYN" \in t.rcvd
        PROVE  ControlInv'
    <2>1. Frame(tcp', t)
      BY Zenon, <1>6, RxFrame
    <2>2. Control(tcp') /\ tcp'.listed
      BY ZenonT(60), <1>6, <2>1, FrameControl DEF Frame, SameState
    <2>3. QED
      BY <1>6, <2>2 DEF ControlInv
  <1>7. CASE "SYN" \in tcp.rcvd
    <2>1. /\ Control(acked) /\ acked.listed /\ acked.rcvd = tcp.rcvd
          /\ tcp.acked \subseteq acked.acked
      <3>1. CASE s.ackf
        BY <1>0, <1>1, <1>7, <3>1, AckControl
      <3>2. CASE ~s.ackf
        BY <1>0, <3>2
      <3>3. QED
        BY ZenonT(60), <3>1, <3>2
    <2>2. s.ackf /\ (\E a \in 1..tcp.nxt : s.ack = Ack(a)) => "SYN" \in acked.acked
      <3>1. CASE "SYN" \in tcp.acked
        BY <2>1, <3>1
      <3>2. CASE "SYN" \notin tcp.acked
        <4> SUFFICES ASSUME s.ackf, NEW a \in 1..tcp.nxt, s.ack = Ack(a)
                     PROVE  "SYN" \in acked.acked
          OBVIOUS
        <4>1. tcp.nxt <= 1 /\ tcp.snd_seq = ISS
          BY <1>0, <3>2 DEF Control
        <4>2. a = 1 /\ tcp.nxt > 0
          BY <1>0, <4>1
        <4>3. tcp.snd_sent = 1
          BY <1>0, <3>2, <4>2 DEF Control
        <4>4. ISS \in 0..(SeqSpace - 1)
          BY SequenceSpace
        <4>5. AckLen(tcp, s.ack) = 1
          BY <4>1, <4>2, <4>4, NextSeq DEF AckLen, Ack
        <4>6. QED
          BY <1>0, <1>1, <1>7, <4>3, <4>5, AckControl
      <3>3. QED
        BY <3>1, <3>2
    <2> HIDE DEF acked
    <2>3. Frame(forced, acked)
      BY ZenonT(90), <2>1, RxFrame DEF ForceAck, Frame, SameState, Control, Record
    <2>4. /\ Control(forced) /\ forced.listed /\ forced.rcvd = tcp.rcvd
          /\ forced.acked = acked.acked
      BY Zenon, <2>1, <2>3, FrameControl DEF Frame, SameState
    <2> HIDE DEF forced
    <2>5. Control(t) /\ t.listed /\ t.rcvd = tcp.rcvd /\ t.acked = acked.acked
      <3>1. CASE s.syn
        BY <1>2, <1>7, <2>4, <3>1, RxSynAgain DEF SameState
      <3>2. CASE ~s.syn
        BY <1>2, <2>4, <3>2
      <3>3. QED
        BY <3>1, <3>2
    <2>6. QED
      BY ZenonT(60), <1>1, <1>3, <1>4, <1>5, <1>6, <1>7, <2>2, <2>5 DEF Control
  <1>8. CASE "SYN" \notin tcp.rcvd
    <2>1. SYN_SENT(tcp) /\ ~tcp.told /\ ~HasBeenEstablished(tcp)
      BY Zenon, <1>0, <1>8, StateFacts DEF Control, HasBeenEstablished
    <2>2. /\ tcp.nxt # 0 /\ ~s.fin /\ s.len = 0
          /\ (s.syn /\ ~s.rst) \/ (s.rst /\ ~s.syn)
      BY <1>1, <2>1
    <2>3. s.ackf => ~(AckLen(tcp, s.ack) > tcp.snd_sent)
      BY <1>4, <2>1 DEF AckRefused
    <2>4. /\ Record(acked) /\ acked.listed /\ ~acked.wait /\ acked.rx_queue = <<>>
          /\ acked.rcvd = {}
          /\ \/ Control(acked) /\ SYN_SENT(acked) /\ acked.nxt = tcp.nxt
             \/ StateIs(acked, {"SYN"}, {"SYN"}, {})
      <3>1. CASE s.ackf
        BY ZenonT(60), <1>0, <1>1, <2>1, <2>3, <3>1, SynSentAck
      <3>2. CASE ~s.ackf
        BY Zenon, <1>0, <2>1, <3>2 DEF Control, SYN_SENT, StateIs, TIME_WAIT
      <3>3. QED
        BY ZenonT(60), <3>1, <3>2
    <2> HIDE DEF acked
    <2>5. forced = acked
      BY <2>4 DEF ForceAck
    <2>6. CASE s.syn /\ ~s.rst
      <3>1. t = tcp_rx_syn(acked, s.seq)
        BY <1>2, <2>5, <2>6
      <3>2. "SYN" \notin acked.acked =>
               /\ acked.nxt > 0 /\ acked.snd_sent = 1
               /\ acked.una = 0 /\ acked.nxt <= 1 /\ acked.snd_seq = ISS
        <4> SUFFICES ASSUME "SYN" \notin acked.acked
                     PROVE  /\ acked.nxt > 0 /\ acked.snd_sent = 1
                            /\ acked.una = 0 /\ acked.nxt <= 1 /\ acked.snd_seq = ISS
          OBVIOUS
        <4>1. Control(acked) /\ acked.nxt = tcp.nxt
          BY <2>4 DEF StateIs
        <4>2. acked.nxt > 0
          <5>1. acked.nxt # 0
            BY Zenon, <2>2, <4>1
          <5>2. acked.nxt \in Nat
            BY ZenonT(60), <2>4 DEF Record
          <5>3. QED
            BY <5>1, <5>2
        <4>3. QED
          BY ZenonT(60), <2>4, <4>1, <4>2 DEF Control
      <3>3. Control(t) /\ t.listed
        BY <2>4, <3>1, <3>2, RxSynControl DEF SYN_SENT, StateIs
      <3>4. QED
        BY Zenon, <1>3, <1>4, <1>6, <2>2, <2>6, <3>3
    <2>7. CASE s.rst /\ ~s.syn
      <3>1. t = acked
        BY <1>2, <2>5, <2>7
      <3>2. CASE "SYN" \in acked.acked
        BY ZenonT(60), <1>4, <1>5, <2>4, <2>7, <3>1, <3>2 DEF RstAccepted
      <3>3. CASE "SYN" \notin acked.acked
        BY Zenon, <1>3, <1>4, <1>5, <1>6, <2>2, <2>4, <3>1, <3>3 DEF StateIs
      <3>4. QED
        BY <3>2, <3>3
    <2>8. QED
      BY <2>2, <2>6, <2>7
  <1>9. QED
    BY <1>7, <1>8

\* Calls that end in tcp_xmit() leave nothing to send without a wake-up.
LEMMA XmitStep ==
    ASSUME NEW t, Control(t), TIME_WAIT(t) => t.wait, NEW out, NEW w,
           tcp' = tcp_xmit(t, out, w), pc' \in {"idle"}
    PROVE  ControlInv'
  <1>1. Control(tcp') /\ Awake(tcp') /\ SameState(tcp', t)
    BY XmitControl
  <1>2. TIME_WAIT(tcp') => tcp'.wait
    BY <1>1 DEF SameState, TIME_WAIT, StateIs
  <1>3. QED
    BY <1>1, <1>2 DEF ControlInv

LEMMA AbortStep ==
    ASSUME NEW t, Record(t), tcp' = Abort(t), pc' \in {"idle"}
    PROVE  ControlInv'
  <1>1. Control(tcp') /\ Awake(tcp') /\ ~tcp'.listed
    BY AbortControl
  <1>2. ~TIME_WAIT(tcp')
    BY <1>1 DEF Control, Shape, CLOSED, TIME_WAIT, StateIs
  <1>3. QED
    BY <1>1, <1>2 DEF ControlInv

\* Queueing data from the application to send.
LEMMA QueueControl ==
    ASSUME NEW t, Control(t), t.listed, ~t.xfer_closed, NEW n \in Int,
           NEW u, u = Queueing(t, n)
    PROVE  /\ Control(u) /\ u.listed /\ (TIME_WAIT(u) <=> TIME_WAIT(t))
           /\ u.wait = t.wait /\ u.acked = t.acked /\ u.rcvd = t.rcvd
  <1> DEFINE tail == t.txtail + n
             ends == t.txends \cup {tail}
             data == t.pending_data + 1
  <1>0. Record(t)
    BY DEF Control
  <1>1. tail \in Int
    BY <1>0 DEF Record
  <1>2. u = [t EXCEPT !.txtail = tail, !.txends = ends, !.pending_data = data]
    BY DEF Queueing
  <1> HIDE DEF tail, ends, data
  <1>3. Record(u)
    BY ZenonT(90), <1>0, <1>1, <1>2 DEF Record, HasFields, Fields
  <1>4. /\ u.listed = t.listed /\ u.xfer_closed = t.xfer_closed
        /\ u.sent = t.sent /\ u.acked = t.acked /\ u.rcvd = t.rcvd
        /\ u.rx_queue = t.rx_queue /\ u.wait = t.wait
        /\ u.told = t.told /\ u.nxt = t.nxt /\ u.timer = t.timer
        /\ u.snd_sent = t.snd_sent /\ u.una = t.una /\ u.snd_seq = t.snd_seq
    BY ZenonT(90), <1>0, <1>2 DEF Record, HasFields, Fields
  <1>5. Shape(u) /\ (TIME_WAIT(u) <=> TIME_WAIT(t))
    BY ZenonT(60), <1>4 DEF Control, Shape, Synchronized, SYN_SENT, SYN_RCVD, ESTABLISHED, FIN_WAIT_1,
         FIN_WAIT_2, CLOSING_OR_LAST_ACK, TIME_WAIT, CLOSE_WAIT, StateIs
  <1>6. QED
    BY ZenonT(60), <1>3, <1>4, <1>5 DEF Control

\* Data the application sends, and its reactions to data it receives.
LEMMA SentControl ==
    ASSUME NEW t, Control(t), t.listed, ~t.xfer_closed, NEW n \in TxSizes,
           NEW out, NEW w, NEW u, u = Sent(t, n, out, w)
    PROVE  /\ Control(u) /\ Awake(u) /\ u.listed /\ u.acked = t.acked /\ u.rcvd = t.rcvd
           /\ (TIME_WAIT(t) => t.wait) => (TIME_WAIT(u) => u.wait)
  <1> DEFINE v == Queueing(t, n)
  <1>1. n \in Int
    BY TcpConstants
  <1>2. u = tcp_xmit(v, out, w)
    BY DEF Sent
  <1>3. /\ Control(v) /\ v.listed /\ (TIME_WAIT(v) <=> TIME_WAIT(t))
        /\ v.wait = t.wait /\ v.acked = t.acked /\ v.rcvd = t.rcvd
    BY <1>1, QueueControl
  <1> HIDE DEF v
  <1>4. Control(u) /\ Awake(u) /\ SameState(u, v)
    BY <1>2, <1>3, XmitControl
  <1>5. QED
    BY ZenonT(60), <1>3, <1>4 DEF SameState, TIME_WAIT, StateIs

LEMMA ReactControl ==
    ASSUME NEW t, Control(t), t.listed, "SYN" \in t.acked, "SYN" \in t.rcvd,
           NEW react \in Reactions(t), NEW n \in TxSizes, NEW out, NEW w,
           NEW u, u = AppReact(t, react, n, out, w)
    PROVE  Control(u) /\ u.listed /\ "SYN" \in u.acked /\ "SYN" \in u.rcvd
  <1>1. CASE react = "close"
    <2> DEFINE v == tcp_close(t)
    <2>1. Control(v) /\ v.listed /\ v.rcvd = t.rcvd /\ "SYN" \in v.acked
      BY CloseControl
    <2>2. u = tcp_xmit(v, out, w)
      BY <1>1 DEF AppReact
    <2> HIDE DEF v
    <2>3. Control(u) /\ SameState(u, v)
      BY <2>1, <2>2, XmitControl
    <2>4. QED
      BY <2>1, <2>3 DEF SameState
  <1>2. CASE react = "send"
    <2>1. ~t.xfer_closed
      BY <1>2 DEF Reactions
    <2>2. u = Sent(t, n, out, w)
      BY <1>2 DEF AppReact
    <2>3. QED
      BY <2>1, <2>2, SentControl
  <1>3. CASE react = "alloc"
    <2>1. u = tcp_discard(t)
      BY <1>3 DEF AppReact
    <2>2. Frame(u, t)
      BY Zenon, <2>1, RxFrame
    <2>3. QED
      BY Zenon, <2>2, FrameControl DEF Frame, SameState
  <1>4. CASE react = "none"
    BY <1>4 DEF AppReact
  <1>5. QED
    BY <1>1, <1>2, <1>3, <1>4 DEF Reactions

\* One packet of the receive queue.
LEMMA QueueStep ==
    ASSUME ControlInv, tcp_process_rx_queue
    PROVE  ControlInv'
  <1> DEFINE q == Head(tcp.rx_queue)
             d == Dequeued(tcp)
             t == tcp_rx_data(d, q)
  <1>1. pc = "rx" /\ pc' = "rx" /\ tcp.listed /\ Control(tcp) /\ tcp.rx_queue # <<>>
    BY Zenon DEF tcp_process_rx_queue, ReadyToProcess, ControlInv
  <1>2. "SYN" \in tcp.acked /\ "SYN" \in tcp.rcvd
    BY <1>1 DEF Control
  <1>3. Frame(d, tcp)
    BY Zenon, <1>1, RxFrame DEF Dequeued
  <1>4. Control(d) /\ d.listed /\ d.acked = tcp.acked /\ d.rcvd = tcp.rcvd
    BY Zenon, <1>1, <1>3, FrameControl DEF Frame, SameState
  <1> HIDE DEF d
  <1>5. Control(t) /\ t.listed /\ t.acked = tcp.acked /\ t.rcvd = tcp.rcvd
    BY <1>4, RxDataControl DEF SameState
  <1>6. PICK react \in Reactions(t), n \in TxSizes, out \in Outs, w \in AppWins :
          tcp' = FinPart(AppReact(t, react, n, out, w), q)
    BY DEF tcp_process_rx_queue, Reactions, d
  <1> HIDE DEF t
  <1> DEFINE u == AppReact(t, react, n, out, w)
  <1>7. Control(u) /\ u.listed /\ "SYN" \in u.acked /\ "SYN" \in u.rcvd
    BY <1>2, <1>5, ReactControl
  <1> HIDE DEF u
  <1>8. Control(tcp') /\ tcp'.listed
    <2>1. CASE q.fin
      <3>1. tcp' = tcp_rx_fin(u, SeqAdd(q.seq, q.len))
        BY <1>6, <2>1 DEF FinPart, u
      <3>2. QED
        BY <1>7, <3>1, RxFinControl
    <2>2. CASE ~q.fin
      BY Zenon, <1>6, <1>7, <2>2 DEF FinPart, u
    <2>3. QED
      BY <2>1, <2>2
  <1>9. QED
    BY <1>1, <1>8 DEF ControlInv

\* The end of tcp_rx(): transmit now or later, and enter the 2MSL wait.
LEMMA RxDoneStep ==
    ASSUME ControlInv, tcp_rx_done
    PROVE  ControlInv'
  <1>1. pc' = "idle" /\ tcp.listed /\ Control(tcp)
    BY DEF tcp_rx_done, ControlInv
  <1>2. PICK t : /\ tcp' = StartWait(t)
                 /\ \/ t = [tcp EXCEPT !.process = TRUE]
                    \/ \E out \in Outs, w \in AppWins : t = tcp_xmit(tcp, out, w)
    BY DEF tcp_rx_done
  <1>3. Control(t) /\ Awake(t) /\ t.listed
    <2>1. CASE t = [tcp EXCEPT !.process = TRUE]
      <3>1. /\ Record(t) /\ t.process
            /\ t.listed = tcp.listed /\ t.xfer_closed = tcp.xfer_closed
            /\ t.sent = tcp.sent /\ t.acked = tcp.acked /\ t.rcvd = tcp.rcvd
            /\ t.rx_queue = tcp.rx_queue /\ t.wait = tcp.wait
            /\ t.told = tcp.told /\ t.nxt = tcp.nxt /\ t.timer = tcp.timer
            /\ t.txends = tcp.txends /\ t.snd_sent = tcp.snd_sent
            /\ t.una = tcp.una /\ t.snd_seq = tcp.snd_seq
        BY ZenonT(90), <1>1, <2>1 DEF Control, Record, HasFields, Fields
      <3>2. Shape(t) /\ (TIME_WAIT(t) <=> TIME_WAIT(tcp))
        BY ZenonT(60), <1>1, <3>1 DEF Control, Shape, Synchronized, SYN_SENT, SYN_RCVD, ESTABLISHED,
             FIN_WAIT_1, FIN_WAIT_2, CLOSING_OR_LAST_ACK, TIME_WAIT, CLOSE_WAIT, StateIs
      <3>3. QED
        BY Zenon, <1>1, <3>1, <3>2 DEF Control, Awake, TxEmpty
    <2>2. CASE \E out \in Outs, w \in AppWins : t = tcp_xmit(tcp, out, w)
      BY <1>1, <2>2, XmitControl DEF SameState
    <2>3. QED
      BY <1>2, <2>1, <2>2
  <1>4. CASE TIME_WAIT(t)
    <2>1. tcp' = [t EXCEPT !.wait = TRUE]
      BY <1>2, <1>3, <1>4, StateFacts DEF StartWait
    <2>2. /\ Record(tcp') /\ tcp'.wait
          /\ tcp'.listed = t.listed /\ tcp'.xfer_closed = t.xfer_closed
          /\ tcp'.sent = t.sent /\ tcp'.acked = t.acked /\ tcp'.rcvd = t.rcvd
          /\ tcp'.rx_queue = t.rx_queue /\ tcp'.process = t.process
          /\ tcp'.told = t.told /\ tcp'.nxt = t.nxt /\ tcp'.timer = t.timer
          /\ tcp'.txends = t.txends /\ tcp'.snd_sent = t.snd_sent
          /\ tcp'.una = t.una /\ tcp'.snd_seq = t.snd_seq
      BY ZenonT(90), <1>3, <2>1 DEF Control, Record, HasFields, Fields
    <2>3. TIME_WAIT(tcp')
      BY <1>4, <2>2 DEF TIME_WAIT, StateIs
    <2>4. Control(tcp')
      BY Zenon, <1>3, <2>2, <2>3 DEF Control, TxEmpty, Shape, Synchronized
    <2>5. XmitLen(tcp') = 0 /\ SendingFlag(tcp') = {}
      BY <2>3 DEF XmitLen, SendingFlag, Sending, CanSendData, TIME_WAIT, StateIs
    <2>6. QED
      BY <1>1, <2>2, <2>4, <2>5 DEF ControlInv, Awake
  <1>5. CASE ~TIME_WAIT(t)
    <2>1. tcp' = t
      BY <1>2, <1>3, <1>5, StateFacts DEF StartWait
    <2>2. QED
      BY <1>1, <1>3, <1>5, <2>1 DEF ControlInv
  <1>6. QED
    BY <1>4, <1>5

\* Stopping the timer or clearing the process, on the way to tcp_xmit().
LEMMA WokenControl ==
    ASSUME NEW t, Control(t), t.listed, NEW u,
           \/ u = [t EXCEPT !.timer = FALSE] \/ u = [t EXCEPT !.process = FALSE]
    PROVE  Control(u) /\ (TIME_WAIT(u) <=> TIME_WAIT(t)) /\ u.wait = t.wait
  <1>1. /\ Record(u) /\ (u.timer => t.timer)
        /\ u.listed = t.listed /\ u.xfer_closed = t.xfer_closed
        /\ u.sent = t.sent /\ u.acked = t.acked /\ u.rcvd = t.rcvd
        /\ u.rx_queue = t.rx_queue /\ u.wait = t.wait
        /\ u.told = t.told /\ u.nxt = t.nxt
        /\ u.txends = t.txends /\ u.snd_sent = t.snd_sent
        /\ u.una = t.una /\ u.snd_seq = t.snd_seq
    <2>1. Record(t)
      BY DEF Control
    <2>2. CASE u = [t EXCEPT !.timer = FALSE]
      BY ZenonT(90), <2>1, <2>2 DEF Record, HasFields, Fields
    <2>3. CASE u = [t EXCEPT !.process = FALSE]
      BY ZenonT(90), <2>1, <2>3 DEF Record, HasFields, Fields
    <2>4. QED
      BY Zenon, <2>2, <2>3
  <1>2. Shape(u) /\ (TIME_WAIT(u) <=> TIME_WAIT(t))
    BY <1>1 DEF Control, Shape, Synchronized, SYN_SENT, SYN_RCVD, ESTABLISHED,
         FIN_WAIT_1, FIN_WAIT_2, CLOSING_OR_LAST_ACK, TIME_WAIT, CLOSE_WAIT, StateIs
  <1>3. QED
    BY <1>1, <1>2 DEF Control, TxEmpty

LEMMA ControlStep ==
    ASSUME ~EarlySyn, ControlInv, [Next]_vars
    PROVE  ControlInv'
  <1>1. CASE tcp_open
    <2>1. Control(tcp) /\ Record(tcp) /\ pc' = "idle" /\ ~tcp.listed /\ pc = "new"
      BY <1>1 DEF tcp_open, ControlInv, Control
    <2>2. /\ ~tcp.told /\ ~tcp.xfer_closed /\ tcp.nxt = 0 /\ tcp.una = 0
          /\ tcp.snd_seq = ISS
      BY <2>1 DEF ControlInv
    <2>3. CLOSED(tcp) /\ Quiet(tcp)
      BY Zenon, <2>1 DEF Control, Shape
    <2>4. /\ Record(tcp') /\ tcp'.timer /\ tcp'.listed
          /\ tcp'.sent = {"SYN"} /\ tcp'.acked = tcp.acked /\ tcp'.rcvd = tcp.rcvd
          /\ tcp'.rx_queue = tcp.rx_queue /\ tcp'.wait = tcp.wait
          /\ tcp'.told = tcp.told /\ tcp'.nxt = tcp.nxt
          /\ tcp'.una = tcp.una /\ tcp'.snd_seq = tcp.snd_seq
          /\ tcp'.xfer_closed = tcp.xfer_closed
      BY ZenonT(90), <1>1, <2>1 DEF tcp_open, Record, HasFields, Fields
    <2>5. SYN_SENT(tcp') /\ ~tcp'.wait /\ tcp'.rx_queue = <<>>
      BY <2>3, <2>4 DEF SYN_SENT, CLOSED, StateIs, Quiet
    <2>6. Control(tcp') /\ ~TIME_WAIT(tcp')
      BY <2>2, <2>4, <2>5 DEF Control, Shape, SYN_SENT, StateIs, TIME_WAIT
    <2>7. QED
      BY Zenon, <2>1, <2>4, <2>6 DEF ControlInv, Awake
  <1>2. CASE \E n \in TxSizes : tcp_xfer_deliver(n)
    <2>1. PICK n \in TxSizes, out \in Outs, w \in AppWins :
            /\ Idle /\ ~tcp.xfer_closed /\ pc' = "idle" /\ tcp' = Sent(tcp, n, out, w)
      BY <1>2 DEF tcp_xfer_deliver, Idle
    <2>2. Control(tcp) /\ tcp.listed /\ (TIME_WAIT(tcp) => tcp.wait)
      BY <2>1 DEF Idle, ControlInv
    <2>3. Control(tcp') /\ Awake(tcp') /\ (TIME_WAIT(tcp') => tcp'.wait)
      BY <2>1, <2>2, SentControl
    <2>4. QED
      BY <2>1, <2>3 DEF ControlInv
  <1>3. CASE tcp_xfer_close
    <2> DEFINE t == tcp_close(tcp)
    <2>1. PICK out \in Outs, w \in AppWins :
            Idle /\ pc' = "idle" /\ tcp' = tcp_xmit(t, out, w)
      BY <1>3 DEF tcp_xfer_close, Idle
    <2>2. Control(tcp) /\ tcp.listed /\ (TIME_WAIT(tcp) => tcp.wait)
      BY <2>1 DEF Idle, ControlInv
    <2>3. Control(t) /\ (TIME_WAIT(t) => t.wait)
      BY <2>2, CloseControl
    <2> HIDE DEF t
    <2>4. QED
      BY <2>1, <2>3, XmitStep
  <1>4. CASE \E over \in BOOLEAN : tcp_expired(over)
    <2> DEFINE t == [tcp EXCEPT !.timer = FALSE]
    <2>1. /\ Idle /\ pc' = "idle"
          /\ \/ tcp' = Abort(t)
             \/ \E out \in Outs, w \in AppWins : tcp' = tcp_xmit(t, out, w)
      BY Zenon, <1>4 DEF tcp_expired, Idle
    <2>2. Control(tcp) /\ tcp.listed /\ (TIME_WAIT(tcp) => tcp.wait)
      BY <2>1 DEF Idle, ControlInv
    <2>3. Control(t) /\ (TIME_WAIT(t) => t.wait)
      BY <2>2, WokenControl
    <2> HIDE DEF t
    <2>4. QED
      BY Zenon, <2>1, <2>3, XmitStep, AbortStep DEF Control
  <1>5. CASE tcp_wait_expired
    <2> DEFINE t == [tcp EXCEPT !.wait = FALSE]
    <2>1. Record(tcp) /\ tcp' = Abort(t) /\ pc' = "idle"
      BY <1>5 DEF tcp_wait_expired, Idle, ControlInv, Control
    <2>2. Record(t)
      BY ZenonT(60), <2>1 DEF Record, HasFields, Fields
    <2> HIDE DEF t
    <2>3. QED
      BY <2>1, <2>2, AbortStep
  <1>6. CASE tcp_process
    <2> DEFINE t == [tcp EXCEPT !.process = FALSE]
    <2>1. PICK out \in Outs, w \in AppWins :
            Idle /\ pc' = "idle" /\ tcp' = tcp_xmit(t, out, w)
      BY <1>6 DEF tcp_process, Idle
    <2>2. Control(tcp) /\ tcp.listed /\ (TIME_WAIT(tcp) => tcp.wait)
      BY <2>1 DEF Idle, ControlInv
    <2>3. Control(t) /\ (TIME_WAIT(t) => t.wait)
      BY <2>2, WokenControl
    <2> HIDE DEF t
    <2>4. QED
      BY <2>1, <2>3, XmitStep
  <1>7. CASE tcp_discarder
    <2>1. Idle /\ pc' = "idle" /\ tcp' = tcp_discard(tcp)
      BY <1>7 DEF tcp_discarder, Idle
    <2>2. Control(tcp) /\ Awake(tcp) /\ tcp.listed /\ (TIME_WAIT(tcp) => tcp.wait)
      BY <2>1 DEF Idle, ControlInv
    <2>3. Frame(tcp', tcp)
      BY Zenon, <2>1, <2>2, RxFrame
    <2>4. Control(tcp') /\ Awake(tcp') /\ (TIME_WAIT(tcp') => tcp'.wait)
      BY Zenon, <2>2, <2>3, FrameControl DEF Frame, SameState
    <2>5. QED
      BY <2>1, <2>4 DEF ControlInv
  <1>8. CASE tcp_shutdown
    <2>1. Record(tcp) /\ tcp' = Abort(tcp) /\ pc' = "idle"
      BY Zenon, <1>8 DEF tcp_shutdown, Idle, ControlInv, Control
    <2>2. QED
      BY <2>1, AbortStep
  <1>9. CASE \E s \in Segments : tcp_rx(s) \/ tcp_rx_refused(s)
    <2>1. PICK s \in Segments : tcp_rx(s) \/ tcp_rx_refused(s)
      BY <1>9
    <2>2. CASE tcp_rx(s)
      BY <2>2, RxStep
    <2>3. CASE tcp_rx_refused(s)
      BY <2>3 DEF tcp_rx_refused, vars, ControlInv
    <2>4. QED
      BY <2>1, <2>2, <2>3
  <1>10. CASE tcp_process_rx_queue
    BY <1>10, QueueStep
  <1>11. CASE tcp_rx_done
    BY <1>11, RxDoneStep
  <1>12. CASE UNCHANGED vars
    BY <1>12 DEF vars, ControlInv
  <1>13. QED
    BY <1>1, <1>2, <1>3, <1>4, <1>5, <1>6, <1>7, <1>8, <1>9, <1>10, <1>11, <1>12
       DEF Next

\* With a peer whose SYN answers ours, ControlInv is invariant: for every
\* sequence space, window, MTU, stream, queue length and memory condition.
LEMMA ControlAlways == ASSUME ~EarlySyn PROVE Spec => []ControlInv
  <1>1. Init => ControlInv
    BY ControlInit
  <1>2. ControlInv /\ [Next]_vars => ControlInv'
    BY ControlStep
  <1>3. QED
    BY <1>1, <1>2, PTL DEF Spec

\* The assertions of tcp.c on timers and on SYN and FIN hold, a deleted
\* connection is quiet, TIME_WAIT ends and FIN follows the data.
THEOREM ControlCorrect == ASSUME ~EarlySyn PROVE Spec => []ControlSafe
  <1>1. ControlInv => ControlSafe
    <2> SUFFICES ASSUME ControlInv PROVE ControlSafe
      OBVIOUS
    <2>1. Control(tcp) /\ (pc = "idle" => Awake(tcp) /\ (TIME_WAIT(tcp) => tcp.wait))
      BY DEF ControlInv
    <2>2. TimerStates /\ NeverSynAndFin
      BY ZenonT(60), <2>1, StateFacts DEF TimerStates, NeverSynAndFin, Control
    <2>3. DeletedIsQuiet /\ FinAfterData
      BY Zenon, <2>1 DEF DeletedIsQuiet, FinAfterData, Control, Quiet
    <2>4. TimeWaitEnds
      BY <2>1 DEF TimeWaitEnds
    <2>5. QED
      BY <2>2, <2>3, <2>4 DEF ControlSafe
  <1>2. QED
    BY <1>1, ControlAlways, PTL

\* Nothing to send is left without a wake-up: whenever no call is running, a
\* SYN, a FIN or a byte that the window allows has the retransmission timer
\* running or the transmission process scheduled (tcp_xmit(), tcp_rx()).
THEOREM NeverStalls == ASSUME ~EarlySyn PROVE Spec => []NoStall
  <1>1. ControlInv => NoStall
    BY DEF ControlInv, NoStall, Awake
  <1>2. QED
    BY <1>1, ControlAlways, PTL
=============================================================================
