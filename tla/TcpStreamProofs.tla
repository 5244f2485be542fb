-------------------------- MODULE TcpStreamProofs --------------------------
(***************************************************************************)
(* The two halves of a TCP connection as byte streams: arithmetic modulo   *)
(* the sequence space, the invariants of the sending and of the receiving  *)
(* half, and what the functions of net/tcp.c that send, acknowledge, close *)
(* and discard do to them.                                                 *)
(***************************************************************************)
EXTENDS TcpProofs, FiniteSetTheorems

\* The provers tried, in this order, where a step names none
USE SMT, Zenon, SMTT(90), ZenonT(60)

-----------------------------------------------------------------------------
(* Arithmetic modulo the sequence space.                                   *)

\* Two sequences joined.
LEMMA SeqJoin ==
    ASSUME NEW S, NEW p \in Seq(S), NEW q \in Seq(S)
    PROVE  /\ p \o q \in Seq(S) /\ Len(p \o q) = Len(p) + Len(q)
           /\ \A k \in 1..(Len(p) + Len(q)) :
                 (p \o q)[k] = IF k <= Len(p) THEN p[k] ELSE q[k - Len(p)]
  OBVIOUS

\* An element of a sequence over S is in S.
LEMMA SeqAt ==
    ASSUME NEW S, NEW p \in Seq(S), NEW k \in 1..Len(p)
    PROVE  p[k] \in S
  OBVIOUS

\* A part of a sequence.
LEMMA SeqPart ==
    ASSUME NEW S, NEW p, NEW j \in Int, NEW k \in Int, \A i \in j..k : p[i] \in S
    PROVE  /\ SubSeq(p, j, k) \in Seq(S)
           /\ Len(SubSeq(p, j, k)) = IF j <= k THEN k - j + 1 ELSE 0
           /\ \A i \in 1..(k - j + 1) : SubSeq(p, j, k)[i] = p[j + i - 1]
  OBVIOUS

\* What Tail() leaves of a sequence.
LEMMA SeqRest ==
    ASSUME NEW S, NEW p \in Seq(S), p # <<>>
    PROVE  /\ Head(p) \in S /\ Tail(p) \in Seq(S) /\ Len(Tail(p)) = Len(p) - 1
           /\ \A k \in 1..Len(Tail(p)) : Tail(p)[k] = p[k + 1]
  OBVIOUS

\* A set of natural numbers that is not empty has a least element.
LEMMA LeastNat ==
    ASSUME NEW S, S \subseteq Nat, S # {}
    PROVE  \E n \in S : \A m \in S : n <= m
  <1> DEFINE R == OpToRel(<, Nat)
  <1>1. \A x, y \in Nat : <<y, x>> \in R <=> y < x
    BY Zenon DEF OpToRel
  <1>2. IsWellFoundedOn(R, Nat)
    BY Zenon, NatLessThanWellFounded
  <1> HIDE DEF R
  <1>3. \E x \in S : \A y \in S : ~(<<y, x>> \in R)
    BY Zenon, <1>2, WFMin
  <1>4. \E x \in S : \A y \in S : ~(y < x)
    BY Zenon, <1>1, <1>3
  <1>5. QED
    BY <1>4

\* So Least picks it.
LEMMA LeastIsMin ==
    ASSUME NEW S, S \subseteq Nat, S # {}
    PROVE  Least(S) \in S /\ \A m \in S : Least(S) <= m
  BY Zenon, LeastNat DEF Least

\* Quotient and remainder, and that they are unique.
LEMMA DivMod ==
    ASSUME NEW x \in Int, NEW N \in Nat \ {0}
    PROVE  /\ x = N * (x \div N) + (x % N)
           /\ x % N \in 0..(N - 1) /\ x \div N \in Int
  OBVIOUS

\* The remainder is the one number below N that differs by a multiple of N.
LEMMA ModUnique ==
    ASSUME NEW N \in Nat \ {0}, NEW q \in Int, NEW r \in 0..(N - 1)
    PROVE  (N * q + r) % N = r
  <1> DEFINE x == N * q + r
             e == x \div N
             d == x % N
             k == q - e
  <1>1. x \in Int
    OBVIOUS
  <1>2. x = N * e + d /\ d \in 0..(N - 1) /\ e \in Int
    BY <1>1, DivMod
  <1>3. k \in Int
    BY <1>2
  <1> HIDE DEF e, d
  <1>4. N * k = d - r
    BY <1>2
  <1> HIDE DEF k
  <1>5. ~(k >= 1)
    BY <1>2, <1>3, <1>4
  <1>6. ~(k <= -1)
    BY <1>2, <1>3, <1>4
  <1>7. d = r
    BY <1>2, <1>3, <1>4, <1>5, <1>6
  <1>8. QED
    BY <1>7 DEF d, x

\* Reducing before adding changes nothing modulo N.
LEMMA ModAdd ==
    ASSUME NEW N \in Nat \ {0}, NEW x \in Int, NEW n \in Int
    PROVE  ((x % N) + n) % N = (x + n) % N
  <1> DEFINE a == x \div N
             y == (x % N) + n
             b == y \div N
             r == y % N
             q == a + b
  <1>1. x = N * a + (x % N) /\ a \in Int /\ x % N \in Int
    BY DivMod
  <1>2. y \in Int
    BY <1>1
  <1>3. y = N * b + r /\ r \in 0..(N - 1) /\ b \in Int
    BY <1>2, DivMod
  <1> HIDE DEF a, b, r
  <1>4. x + n = N * q + r /\ q \in Int
    BY <1>1, <1>3
  <1> HIDE DEF q
  <1>5. QED
    BY Zenon, <1>3, <1>4, ModUnique DEF r

\* Moving a sequence number twice, and by a difference.
LEMMA SeqMoves ==
    /\ \A s, n \in Int : SeqAdd(s, n) \in 0..(SeqSpace - 1)
    /\ \A a, b \in Int : SeqDiff(a, b) \in 0..(SeqSpace - 1)
    /\ \A s, m, n \in Int : SeqAdd(SeqAdd(s, m), n) = SeqAdd(s, m + n)
    /\ \A s \in Int, a \in 0..(SeqSpace - 1) : SeqAdd(s, SeqDiff(a, s)) = a
  <1>0. SeqSpace \in Nat \ {0}
    BY SequenceSpace
  <1>1. \A s, n \in Int : SeqAdd(s, n) \in 0..(SeqSpace - 1)
    BY <1>0, DivMod DEF SeqAdd
  <1>2. \A a, b \in Int : SeqDiff(a, b) \in 0..(SeqSpace - 1)
    BY <1>0, DivMod DEF SeqDiff
  <1>3. ASSUME NEW s \in Int, NEW m \in Int, NEW n \in Int
        PROVE  SeqAdd(SeqAdd(s, m), n) = SeqAdd(s, m + n)
    <2> DEFINE x == s + m
    <2>0. x \in Int
      OBVIOUS
    <2> HIDE DEF x
    <2>1. ((x % SeqSpace) + n) % SeqSpace = (x + n) % SeqSpace
      BY Zenon, <1>0, <2>0, ModAdd
    <2> USE DEF x
    <2>2. x + n = s + (m + n)
      OBVIOUS
    <2>3. QED
      BY <2>1, <2>2 DEF SeqAdd
  <1>4. ASSUME NEW s \in Int, NEW a \in 0..(SeqSpace - 1)
        PROVE  SeqAdd(s, SeqDiff(a, s)) = a
    <2> DEFINE x == a - s
    <2>0. x \in Int /\ x + s = SeqSpace * 0 + a
      BY <1>0
    <2> HIDE DEF x
    <2>1. ((x % SeqSpace) + s) % SeqSpace = (x + s) % SeqSpace
      BY Zenon, <1>0, <2>0, ModAdd
    <2>2. (SeqSpace * 0 + a) % SeqSpace = a
      BY <1>0, ModUnique
    <2>3. x % SeqSpace \in Int
      BY <1>0, <2>0, DivMod
    <2>4. (x % SeqSpace) + s = s + (x % SeqSpace)
      BY <2>3
    <2>6. QED
      BY <2>0, <2>1, <2>2, <2>4 DEF SeqAdd, SeqDiff, x
  <1>5. QED
    BY <1>1, <1>2, <1>3, <1>4

\* Moving a sequence number twice is moving it once.
LEMMA SeqAddTwice ==
    \A s, m, n \in Int : SeqAdd(SeqAdd(s, m), n) = SeqAdd(s, m + n)
  BY Zenon, SeqMoves

-----------------------------------------------------------------------------
(* Counting flags.                                                         *)

FlagCount(S) ==
    (IF "SYN" \in S THEN 1 ELSE 0) + (IF "FIN" \in S THEN 1 ELSE 0)

\* FlagCount is the number of SYN and FIN in a set.
LEMMA CountFlags ==
    ASSUME NEW S
    PROVE  Cardinality(S \cap {"SYN", "FIN"}) = FlagCount(S)
  <1>1. CASE "SYN" \in S /\ "FIN" \in S
    <2>1. S \cap {"SYN", "FIN"} = {"SYN"} \cup {"FIN"} /\ "FIN" \notin {"SYN"}
      BY <1>1
    <2>2. IsFiniteSet({"SYN"}) /\ Cardinality({"SYN"}) = 1
      BY Zenon, FS_Singleton
    <2>3. Cardinality({"SYN"} \cup {"FIN"}) = 2
      BY <2>1, <2>2, FS_AddElement
    <2>4. QED
      BY <1>1, <2>1, <2>3 DEF FlagCount
  <1>2. CASE "SYN" \in S /\ "FIN" \notin S
    <2>1. S \cap {"SYN", "FIN"} = {"SYN"}
      BY <1>2
    <2>2. QED
      BY <1>2, <2>1, FS_Singleton DEF FlagCount
  <1>3. CASE "SYN" \notin S /\ "FIN" \in S
    <2>1. S \cap {"SYN", "FIN"} = {"FIN"}
      BY <1>3
    <2>2. QED
      BY <1>3, <2>1, FS_Singleton DEF FlagCount
  <1>4. CASE "SYN" \notin S /\ "FIN" \notin S
    <2>1. S \cap {"SYN", "FIN"} = {}
      BY <1>4
    <2>2. QED
      BY <1>4, <2>1, FS_EmptySet DEF FlagCount
  <1>5. QED
    BY <1>1, <1>2, <1>3, <1>4

-----------------------------------------------------------------------------
(* The sending half of a connection.                                       *)

\* snd_seq is the number of the first byte of the transmit queue, and what is in
\* flight is in the queue (or the SYN or FIN): no acknowledgement that is
\* accepted goes beyond it.
InStep(t) ==
    /\ t.snd_seq = SeqAdd(ISS, t.una)
    /\ t.una = t.txhead + FlagCount(t.acked)
    /\ t.txends \subseteq (t.txhead + 1)..t.txtail
    /\ t.txhead < t.txtail => t.txtail \in t.txends
    /\ t.snd_sent <= IF SendingFlag(t) # {} THEN 1 ELSE t.txtail - t.txhead

TxTypes(t) ==
    /\ t.sent \subseteq Flags /\ t.acked \subseteq Flags
    /\ t.snd_seq \in 0..(SeqSpace - 1) /\ t.snd_sent \in Nat /\ t.snd_win \in Nat
    /\ t.txhead \in Nat /\ t.txtail \in Nat /\ t.txhead <= t.txtail
    /\ t.txends \subseteq Nat /\ IsFiniteSet(t.txends)
    /\ t.una \in Nat /\ t.nxt \in Nat

Tx(t) ==
    /\ TxTypes(t)
    /\ t.pending_data = Cardinality(t.txends)
    /\ t.pending_flags = FlagCount(Sending(t))
    /\ t.listed => InStep(t)

SameTx(u, t) ==
    /\ u.listed = t.listed /\ u.sent = t.sent /\ u.acked = t.acked
    /\ u.snd_seq = t.snd_seq /\ u.snd_sent = t.snd_sent /\ u.snd_win = t.snd_win
    /\ u.txhead = t.txhead /\ u.txtail = t.txtail /\ u.txends = t.txends
    /\ u.una = t.una /\ u.nxt = t.nxt
    /\ u.pending_data = t.pending_data /\ u.pending_flags = t.pending_flags

\* What leaves the sending half alone keeps its invariant.
LEMMA SameTxKept ==
    ASSUME NEW t, NEW u, Tx(t), SameTx(u, t)
    PROVE  Tx(u)
  BY Zenon DEF Tx, TxTypes, InStep, SameTx, SendingFlag, Sending

\* What tcp_xmit() does to the sending half.
LEMMA XmitTx ==
    ASSUME NEW t, Record(t), Tx(t), NEW out, NEW w
    PROVE  Tx(tcp_xmit(t, out, w))
  <1> DEFINE u == tcp_xmit(t, out, w)
             start == XmitStart(t)
             expand == XmitExpand(start, w)
  <1>1. HasFields(t) /\ Record(u) /\ SameState(u, t)
    BY XmitEffect DEF Record
  <1>2. \/ t.timer /\ u.snd_sent = t.snd_sent
        \/ ~t.timer /\ u.snd_sent = XmitSeqLen(t)
    BY XmitEffect
  <1>3. u.pending_data = t.pending_data /\ u.pending_flags = t.pending_flags
    <2>1. HasFields(start) /\ start.pending_data = t.pending_data
            /\ start.pending_flags = t.pending_flags
      BY ZenonT(60), <1>1 DEF XmitStart, HasFields, Fields
    <2> HIDE DEF start
    <2>2. HasFields(expand) /\ expand.pending_data = start.pending_data
            /\ expand.pending_flags = start.pending_flags
      BY Zenon, <2>1 DEF XmitExpand, HasFields, Fields
    <2> HIDE DEF expand
    <2>3. /\ XmitSent(expand).pending_data = expand.pending_data
          /\ XmitSent(expand).pending_flags = expand.pending_flags
      BY Zenon, <2>2 DEF XmitSent, HasFields, Fields
    <2>4. /\ DiscardAll(start).pending_data = start.pending_data
          /\ DiscardAll(start).pending_flags = start.pending_flags
      BY Zenon, <2>1 DEF DiscardAll, HasFields, Fields
    <2>5. u \in {t, start, expand, XmitSent(expand), DiscardAll(start)}
      BY DEF tcp_xmit, start, expand
    <2> HIDE DEF u
    <2>6. QED
      BY <2>1, <2>2, <2>3, <2>4, <2>5
  <1>4. XmitSeqLen(t) \in Nat
        /\ XmitSeqLen(t) <= IF SendingFlag(t) # {} THEN 1 ELSE t.txtail - t.txhead
    <2>1. CASE SendingFlag(t) # {}
      BY <2>1, SendLengths
    <2>2. CASE SendingFlag(t) = {}
      <3>1. XmitSeqLen(t) = XmitLen(t)
        BY <2>2, SendLengths
      <3>2. QED
        BY <2>2, <3>1, SequenceSpace DEF XmitLen, MinOf, TxLen, tcp_xmit_win, Tx, TxTypes
    <2>3. QED
      BY <2>1, <2>2
  <1> HIDE DEF u
  <1>5. u.nxt \in Nat
    BY <1>1 DEF Record
  <1>6. Sending(u) = Sending(t) /\ SendingFlag(u) = SendingFlag(t)
    BY <1>1 DEF SameState, Sending, SendingFlag
  <1>7. TxTypes(u)
    BY <1>1, <1>2, <1>4, <1>5 DEF SameState, Tx, TxTypes
  <1>8. t.listed => InStep(u)
    BY <1>1, <1>2, <1>4, <1>6 DEF SameState, Tx, InStep
  <1>9. QED
    BY <1>1, <1>3, <1>6, <1>7, <1>8 DEF SameState, Tx, u

\* The fields of the receiving half.
SameRx(u, t) ==
    /\ u.listed = t.listed /\ u.xfer_closed = t.xfer_closed /\ u.rcvd = t.rcvd
    /\ u.ack_pending = t.ack_pending /\ u.rcv_ack = t.rcv_ack
    /\ u.rcv_win = t.rcv_win /\ u.max_rcv_win = t.max_rcv_win
    /\ u.rx_queue = t.rx_queue /\ u.rnxt = t.rnxt /\ u.delivered = t.delivered

\* Buffers leave the transmit queue, and as many operations are no longer
\* pending.
LEMMA EndsCounted ==
    ASSUME NEW S, IsFiniteSet(S), NEW T, T \subseteq S
    PROVE  Put(Cardinality(S), Cardinality(S \ T)) = Cardinality(T)
  <1>1. IsFiniteSet(T) /\ Cardinality(S) \in Nat /\ Cardinality(T) \in Nat
    BY FS_Subset, FS_CardinalityType
  <1>2. Cardinality(S \ T) = Cardinality(S) - Cardinality(S \cap T)
    BY Zenon, FS_Difference
  <1>3. S \cap T = T
    OBVIOUS
  <1>4. Cardinality(S \ T) = Cardinality(S) - Cardinality(T)
    BY Zenon, <1>2, <1>3
  <1> DEFINE s == Cardinality(S)
             t == Cardinality(T)
             d == Cardinality(S \ T)
  <1>5. s \in Nat /\ t \in Nat /\ d = s - t
    BY <1>1, <1>4
  <1> HIDE DEF s, t, d
  <1>6. Put(s, d) = t
    BY <1>5 DEF Put, MaxOf
  <1>7. QED
    BY Zenon, <1>6 DEF s, t, d

\* An acknowledgement of what is in flight takes it off the queue.
LEMMA AckedTx ==
    ASSUME NEW t, Record(t), Tx(t), t.listed, SendingFlag(t) # {"SYN", "FIN"},
           NEW ack \in 0..(SeqSpace - 1), NEW win \in Nat,
           AckLen(t, ack) # 0, ~(AckLen(t, ack) > t.snd_sent)
    PROVE  /\ Tx(AckedFlagAndData(t, ack, win))
           /\ SameRx(AckedFlagAndData(t, ack, win), t)
  <1> DEFINE u == AckedFlagAndData(t, ack, win)
             len == AckLen(t, ack)
             flag == IF SendingFlag(t) # {} THEN 1 ELSE 0
             una == t.una + len
             head == TxHeadAfter(t, AckedData(t, ack))
             ends == TxEndsAfter(t, AckedData(t, ack))
             data == Put(t.pending_data, Cardinality(t.txends \ ends))
             flags == Put(t.pending_flags, flag)
             acked == t.acked \cup SendingFlag(t)
             v == [t EXCEPT !.snd_win = win, !.timer = FALSE, !.snd_seq = ack,
                            !.snd_sent = 0, !.una = una]
             w == [v EXCEPT !.txhead = head, !.txends = ends, !.acked = acked]
  <1>0. HasFields(t) /\ TxTypes(t) /\ InStep(t)
    BY DEF Record, Tx
  <1>1. u = [w EXCEPT !.pending_data = data, !.pending_flags = flags]
    BY ZenonT(90), <1>0 DEF AckedFlagAndData, HasFields, Fields
  <1>2. len \in Nat /\ len >= 1 /\ len <= t.snd_sent
    <2>1. ack \in Int /\ t.snd_seq \in Int /\ SeqSpace \in Int
      BY <1>0, SequenceSpace DEF TxTypes
    <2>2. len \in 0..(SeqSpace - 1)
      BY Zenon, <2>1, SeqMoves DEF AckLen
    <2> HIDE DEF len
    <2>3. QED
      BY <1>0, <2>1, <2>2 DEF len, TxTypes
  <1>3. ack = SeqAdd(ISS, una)
    <2>a. t.snd_seq \in Int
      BY <1>0 DEF TxTypes
    <2>1. ack = SeqAdd(t.snd_seq, len) /\ t.snd_seq = SeqAdd(ISS, t.una)
      BY ZenonT(60), <1>0, <2>a, SeqMoves DEF AckLen, InStep
    <2>2. ISS \in Int /\ t.una \in Int /\ len \in Int
      BY <1>0, <1>2, SequenceSpace DEF TxTypes
    <2> HIDE DEF len
    <2>3. SeqAdd(SeqAdd(ISS, t.una), len) = SeqAdd(ISS, t.una + len)
      BY Zenon, <2>2, SeqAddTwice
    <2>4. QED
      BY Zenon, <2>1, <2>3
  <1>4. AckedData(t, ack) = len - flag
    BY DEF AckedData
  <1>5. len - flag \in 0..(t.txtail - t.txhead)
    BY <1>0, <1>2 DEF InStep, TxTypes
  <1>6. head = t.txhead + len - flag /\ head \in Nat /\ head <= t.txtail
    BY <1>0, <1>4, <1>5 DEF TxHeadAfter, MinOf, TxTypes
  <1>7. ends = {e \in t.txends : e > head}
    BY DEF TxEndsAfter
  <1>8. /\ FlagCount(acked) = FlagCount(t.acked) + flag
        /\ FlagCount(t.sent \ acked) = 0 /\ FlagCount(Sending(t)) = flag
        /\ acked \subseteq Flags /\ (t.sent \ acked) \cap {"SYN", "FIN"} = {}
    <2>1. acked \subseteq Flags /\ (t.sent \ acked) \cap {"SYN", "FIN"} = {}
      BY <1>0 DEF SendingFlag, Sending, TxTypes, Flags
    <2>2. /\ FlagCount(acked) = FlagCount(t.acked) + flag
          /\ FlagCount(t.sent \ acked) = 0 /\ FlagCount(Sending(t)) = flag
      BY DEF FlagCount, SendingFlag, Sending
    <2>3. QED
      BY <2>1, <2>2
  <1>9. flags = 0
    BY <1>8 DEF Tx, Put, MaxOf
  <1>10. data = Cardinality(ends) /\ IsFiniteSet(ends)
    BY <1>0, <1>7, EndsCounted, FS_Subset DEF Tx, TxTypes
  <1>11. una \in Nat /\ una = head + FlagCount(acked)
    BY <1>0, <1>2, <1>6, <1>8 DEF InStep, TxTypes, FlagCount
  <1>12. /\ ends \subseteq (head + 1)..t.txtail
         /\ head < t.txtail => t.txtail \in ends
    <2>1. t.txends \subseteq (t.txhead + 1)..t.txtail /\ t.txhead \in Nat /\ t.txtail \in Nat
      BY <1>0 DEF InStep, TxTypes
    <2>2. t.txhead < t.txtail => t.txtail \in t.txends
      BY <1>0 DEF InStep
    <2>3. head \in Nat /\ t.txhead <= head
      BY <1>5, <1>6, <2>1
    <2> HIDE DEF head, ends
    <2>4. \A e \in ends : e \in (head + 1)..t.txtail
      BY <1>7, <2>1, <2>3
    <2>5. head < t.txtail => t.txtail \in ends
      BY <1>7, <2>1, <2>2, <2>3
    <2>6. QED
      BY <2>4, <2>5
  <1> HIDE DEF una, head, ends, data, flags, acked
  <1>13. /\ HasFields(v) /\ v.sent = t.sent /\ v.acked = t.acked
         /\ v.snd_seq = ack /\ v.snd_sent = 0 /\ v.snd_win = win
         /\ v.txtail = t.txtail /\ v.una = una /\ v.nxt = t.nxt /\ SameRx(v, t)
    BY ZenonT(90), <1>0 DEF HasFields, Fields, SameRx
  <1> HIDE DEF v
  <1>a. /\ HasFields(w) /\ w.sent = t.sent /\ w.acked = acked
        /\ w.snd_seq = ack /\ w.snd_sent = 0 /\ w.snd_win = win
        /\ w.txhead = head /\ w.txtail = t.txtail /\ w.txends = ends
        /\ w.una = una /\ w.nxt = t.nxt /\ SameRx(w, t)
    BY ZenonT(90), <1>13 DEF HasFields, Fields, SameRx
  <1> HIDE DEF u, w
  <1>14. /\ HasFields(u) /\ u.sent = t.sent /\ u.acked = acked
         /\ u.snd_seq = ack /\ u.snd_sent = 0 /\ u.snd_win = win
         /\ u.txhead = head /\ u.txtail = t.txtail /\ u.txends = ends
         /\ u.una = una /\ u.nxt = t.nxt /\ u.pending_data = data
         /\ u.pending_flags = flags /\ SameRx(u, t)
    BY ZenonT(90), <1>1, <1>a DEF HasFields, Fields, SameRx
  <1>15. Sending(u) = t.sent \ acked /\ SendingFlag(u) = {}
    BY <1>8, <1>14 DEF Sending, SendingFlag
  <1>16. TxTypes(u)
    BY <1>0, <1>6, <1>7, <1>8, <1>10, <1>11, <1>14 DEF TxTypes
  <1>17. InStep(u)
    <2>1. /\ u.snd_seq = SeqAdd(ISS, u.una) /\ u.una = u.txhead + FlagCount(u.acked)
          /\ u.txends \subseteq (u.txhead + 1)..u.txtail
          /\ u.txhead < u.txtail => u.txtail \in u.txends
      BY ZenonT(60), <1>3, <1>11, <1>12, <1>14
    <2>2. u.snd_sent <= u.txtail - u.txhead
      BY <1>0, <1>6, <1>14 DEF TxTypes
    <2>3. QED
      BY Zenon, <1>15, <2>1, <2>2 DEF InStep
  <1>18. Tx(u)
    BY <1>8, <1>9, <1>10, <1>14, <1>15, <1>16, <1>17 DEF Tx
  <1>19. QED
    BY <1>14, <1>18 DEF u

\* What every listed connection satisfies (Control), and also the intermediate
\* state in which SYN has been acknowledged and the peer's SYN is being received.
Sane(t) ==
    /\ t.listed /\ Record(t) /\ "SYN" \in t.sent
    /\ SendingFlag(t) # {"SYN", "FIN"}
    /\ "FIN" \in t.acked => "FIN" \in t.sent

\* The control invariant implies what tcp_rx_ack() and tcp_close() rely on.
LEMMA ControlSane ==
    ASSUME NEW t, Control(t), t.listed
    PROVE  Sane(t)
  <1>1. SendingFlag(t) # {"SYN", "FIN"} /\ Record(t)
    BY StateFacts DEF Control
  <1>2. "SYN" \in t.sent /\ ("FIN" \in t.acked => "FIN" \in t.sent)
    BY DEF Control, Shape, Synchronized, SYN_SENT, SYN_RCVD, ESTABLISHED,
       FIN_WAIT_1, FIN_WAIT_2, CLOSING_OR_LAST_ACK, TIME_WAIT, CLOSE_WAIT, StateIs
  <1>3. QED
    BY <1>1, <1>2 DEF Sane

\* FIN joins an empty queue.
LEMMA FinTx ==
    ASSUME NEW t, Sane(t), Tx(t), "SYN" \in t.acked
    PROVE  Tx(FinIfDrained(t)) /\ SameRx(FinIfDrained(t), t)
  <1>1. CASE ~(TxEmpty(t) /\ t.xfer_closed /\ "FIN" \notin t.sent)
    BY Zenon, <1>1 DEF FinIfDrained, SameRx
  <1>2. CASE TxEmpty(t) /\ t.xfer_closed /\ "FIN" \notin t.sent
    <2> DEFINE sent == t.sent \cup {"FIN"}
               flags == t.pending_flags + 1
               u == [t EXCEPT !.sent = sent, !.pending_flags = flags]
    <2>1. FinIfDrained(t) = u
      BY <1>2 DEF FinIfDrained, StartFin
    <2>2. HasFields(t) /\ TxTypes(t) /\ InStep(t) /\ "FIN" \notin t.acked
      BY <1>2 DEF Sane, Tx, Record
    <2>3. /\ FlagCount(sent \ t.acked) = 1 /\ FlagCount(Sending(t)) = 0
          /\ sent \subseteq Flags /\ SendingFlag(t) = {}
      BY <1>2, <2>2 DEF FlagCount, Sending, SendingFlag, TxTypes, Flags
    <2>4. flags = 1
      BY <2>3 DEF Tx
    <2>5. t.txhead = t.txtail /\ t.snd_sent <= 0
      BY <1>2, <2>2, <2>3 DEF InStep, TxTypes, TxEmpty
    <2> HIDE DEF sent, flags
    <2>6. /\ u.listed = t.listed /\ u.sent = sent /\ u.acked = t.acked
          /\ u.snd_seq = t.snd_seq /\ u.snd_sent = t.snd_sent /\ u.snd_win = t.snd_win
          /\ u.txhead = t.txhead /\ u.txtail = t.txtail /\ u.txends = t.txends
          /\ u.una = t.una /\ u.nxt = t.nxt /\ u.pending_data = t.pending_data
          /\ u.pending_flags = flags /\ SameRx(u, t)
      BY Zenon, <2>2 DEF HasFields, Fields, SameRx
    <2> HIDE DEF u
    <2>7. TxTypes(u)
      BY ZenonT(60), <2>2, <2>3, <2>6 DEF TxTypes
    <2>8. u.snd_sent <= 1 /\ u.snd_sent <= u.txtail - u.txhead
      BY <2>2, <2>5, <2>6 DEF TxTypes
    <2>9. InStep(u)
      BY Zenon, <2>2, <2>6, <2>8 DEF InStep
    <2>10. u.pending_data = Cardinality(u.txends) /\ u.pending_flags = FlagCount(Sending(u))
      BY <2>3, <2>4, <2>6 DEF Tx, Sending
    <2>11. QED
      BY ZenonT(60), <2>1, <2>6, <2>7, <2>9, <2>10 DEF Tx
  <1>3. QED
    BY <1>1, <1>2

\* FIN joining the queue leaves a connection sane.
LEMMA FinSane ==
    ASSUME NEW t, Sane(t), "SYN" \in t.acked
    PROVE  Sane(FinIfDrained(t)) /\ "SYN" \in FinIfDrained(t).acked
  <1>1. CASE ~(TxEmpty(t) /\ t.xfer_closed /\ "FIN" \notin t.sent)
    BY Zenon, <1>1 DEF FinIfDrained
  <1>2. CASE TxEmpty(t) /\ t.xfer_closed /\ "FIN" \notin t.sent
    <2> DEFINE sent == t.sent \cup {"FIN"}
               flags == t.pending_flags + 1
               u == [t EXCEPT !.sent = sent, !.pending_flags = flags]
    <2>1. FinIfDrained(t) = u
      BY <1>2 DEF FinIfDrained, StartFin
    <2>2. sent = t.sent \cup {"FIN"}
      OBVIOUS
    <2> HIDE DEF sent, flags
    <2>3. Record(u) /\ u.listed = t.listed /\ u.sent = sent /\ u.acked = t.acked
      BY ZenonT(90) DEF Sane, Record, HasFields, Fields
    <2> HIDE DEF u
    <2>4. QED
      BY <2>1, <2>2, <2>3 DEF Sane, SendingFlag, Sending
  <1>3. QED
    BY <1>1, <1>2

\* tcp_rx_ack(): an acknowledgement, and FIN if the queue is now empty.
LEMMA RxAckTx ==
    ASSUME NEW t, Sane(t), Tx(t), NEW ack \in 0..(SeqSpace - 1), NEW win \in Nat
    PROVE  /\ Tx(tcp_rx_ack(t, ack, win)) /\ SameRx(tcp_rx_ack(t, ack, win), t)
           /\ Sane(tcp_rx_ack(t, ack, win))
  <1>0. Record(t) /\ HasFields(t) /\ t.listed
    BY DEF Sane, Record
  <1>1. CASE AckLen(t, ack) > t.snd_sent
    BY Zenon, <1>1 DEF tcp_rx_ack, SameRx
  <1>2. CASE ~(AckLen(t, ack) > t.snd_sent) /\ AckLen(t, ack) = 0
    <2> DEFINE u == [t EXCEPT !.snd_win = win]
    <2>1. tcp_rx_ack(t, ack, win) = u
      BY <1>2 DEF tcp_rx_ack
    <2>2. /\ u.listed = t.listed /\ u.sent = t.sent /\ u.acked = t.acked
          /\ u.snd_seq = t.snd_seq /\ u.snd_sent = t.snd_sent /\ u.snd_win = win
          /\ u.txhead = t.txhead /\ u.txtail = t.txtail /\ u.txends = t.txends
          /\ u.una = t.una /\ u.nxt = t.nxt /\ u.pending_data = t.pending_data
          /\ u.pending_flags = t.pending_flags /\ SameRx(u, t)
      BY Zenon, <1>0 DEF HasFields, Fields, SameRx
    <2> HIDE DEF u
    <2>3. Tx(u)
      BY Zenon, <2>2 DEF Tx, TxTypes, InStep, Sending, SendingFlag
    <2>4. Record(u)
      <3>1. win \in Int
        OBVIOUS
      <3>2. QED
        BY Zenon, <1>0, <3>1 DEF Record, HasFields, Fields, u
    <2>5. Sane(u)
      BY Zenon, <2>2, <2>4 DEF Sane, SendingFlag, Sending
    <2>6. QED
      BY ZenonT(60), <2>1, <2>2, <2>3, <2>5
  <1>3. CASE ~(AckLen(t, ack) > t.snd_sent) /\ AckLen(t, ack) # 0
    <2> DEFINE v == AckedFlagAndData(t, ack, win)
    <2>1. Tx(v) /\ SameRx(v, t)
      BY <1>0, <1>3, AckedTx DEF Sane
    <2>2. /\ Record(v)
          /\ v.listed = t.listed /\ v.xfer_closed = t.xfer_closed
          /\ v.sent = t.sent /\ v.rcvd = t.rcvd /\ v.rx_queue = t.rx_queue
          /\ v.wait = t.wait /\ v.process = t.process
          /\ v.told = t.told /\ v.nxt = t.nxt
          /\ ~v.timer
          /\ v.acked = t.acked \cup SendingFlag(t)
          /\ TxEmpty(t) => TxEmpty(v)
      <3>1. win \in Int
        OBVIOUS
      <3>2. QED
        BY ZenonT(60), <1>0, <3>1, AckedEffect
    <2>3. tcp_rx_ack(t, ack, win) = FinIfDrained(v)
      BY <1>3 DEF tcp_rx_ack
    <2> HIDE DEF v
    <2>4. Sane(v) /\ "SYN" \in v.acked
      BY <2>2 DEF Sane, SendingFlag, Sending
    <2>5. Tx(FinIfDrained(v)) /\ SameRx(FinIfDrained(v), v)
      BY Zenon, <2>1, <2>4, FinTx
    <2>6. Sane(FinIfDrained(v))
      BY Zenon, <2>4, FinSane
    <2>7. QED
      BY ZenonT(60), <2>1, <2>3, <2>5, <2>6 DEF SameRx
  <1>4. QED
    BY <1>1, <1>2, <1>3

-----------------------------------------------------------------------------
(* The receiving half of a connection.                                     *)

RxTypes(t) ==
    /\ t.rcvd \subseteq Flags /\ t.ack_pending \in BOOLEAN
    /\ t.rcv_ack \in 0..(SeqSpace - 1) /\ t.rcv_win \in Nat /\ t.max_rcv_win \in Nat
    /\ t.rx_queue \in Seq(Queued) /\ t.rnxt \in Nat /\ t.delivered \in Seq(Nat)

\* The fields of a queued packet.
LEMMA QueuedFields ==
    ASSUME NEW q \in Queued
    PROVE  /\ q.seq \in 0..(SeqSpace - 1) /\ q.seq \in Int
           /\ q.fin \in BOOLEAN /\ q.from \in Nat /\ q.len \in Nat
  BY DEF Queued

\* rcv_ack is the number of the first byte not received.
Rx(t) ==
    /\ RxTypes(t)
    /\ t.listed /\ "SYN" \in t.rcvd => t.rcv_ack = SeqAdd(IRS, t.rnxt)
    /\ t.listed /\ "SYN" \notin t.rcvd => t.rnxt = 0 /\ t.delivered = <<>>

\* What functions do to it that receive nothing: the window may grow, its
\* maximum change, the end of the queue be discarded, the connection be closed
\* or deleted.
RxKept(u, t) ==
    /\ u.listed => t.listed /\ u.rcvd = t.rcvd
    /\ t.xfer_closed => u.xfer_closed
    /\ u.rcv_ack = t.rcv_ack /\ u.rnxt = t.rnxt /\ u.delivered = t.delivered
    /\ u.rcv_win >= t.rcv_win
    /\ Len(u.rx_queue) <= Len(t.rx_queue)
    /\ \A i \in 1..Len(u.rx_queue) : u.rx_queue[i] = t.rx_queue[i]
    /\ RxTypes(u)

\* What receives nothing keeps the invariant of the receiving half.
LEMMA RxKeptRx ==
    ASSUME NEW t, NEW u, Rx(t), RxKept(u, t)
    PROVE  Rx(u)
  BY Zenon DEF Rx, RxKept

\* What leaves the receiving half alone receives nothing.
LEMMA SameRxKept ==
    ASSUME NEW t, NEW u, Rx(t), SameRx(u, t)
    PROVE  RxKept(u, t)
  <1>1. RxTypes(u)
    BY Zenon DEF Rx, RxTypes, SameRx
  <1>2. u.rcv_win >= t.rcv_win /\ Len(u.rx_queue) <= Len(t.rx_queue)
    <2>1. t.rcv_win \in Nat /\ Len(t.rx_queue) \in Nat
      BY DEF Rx, RxTypes
    <2>2. u.rcv_win = t.rcv_win /\ u.rx_queue = t.rx_queue
      BY DEF SameRx
    <2>3. QED
      BY <2>1, <2>2
  <1>3. QED
    BY Zenon, <1>1, <1>2 DEF RxKept, SameRx

\* Two functions that receive nothing, one after the other.
LEMMA RxKeptTwice ==
    ASSUME NEW t, NEW u, NEW v, Rx(t), RxKept(u, t), RxKept(v, u)
    PROVE  RxKept(v, t)
  <1>1. /\ t.rcv_win \in Nat /\ u.rcv_win \in Nat /\ v.rcv_win \in Nat
        /\ Len(t.rx_queue) \in Nat /\ Len(u.rx_queue) \in Nat /\ Len(v.rx_queue) \in Nat
    BY DEF Rx, RxKept, RxTypes
  <1>2. v.rcv_win >= t.rcv_win /\ Len(v.rx_queue) <= Len(t.rx_queue)
    BY <1>1 DEF RxKept
  <1>3. \A i \in 1..Len(v.rx_queue) : v.rx_queue[i] = t.rx_queue[i]
    <2>1. \A i \in 1..Len(v.rx_queue) : i \in 1..Len(u.rx_queue)
      BY <1>1 DEF RxKept
    <2>2. QED
      BY Zenon, <2>1 DEF RxKept
  <1>4. QED
    BY ZenonT(60), <1>2, <1>3 DEF RxKept

\* Deleting a connection: nothing is pending any more, nothing queued.
LEMMA DeletedTx ==
    ASSUME NEW t, Record(t), TxTypes(t), RxTypes(t),
           t.pending_data = Cardinality(t.txends),
           t.pending_flags \in 0..2
    PROVE  /\ Tx(Deleted(XferClosed(t))) /\ RxKept(Deleted(XferClosed(t)), t)
           /\ Deleted(XferClosed(t)).xfer_closed
  <1> DEFINE x == XferClosed(t)
             u == Deleted(x)
             data == Put(x.pending_data, Cardinality(x.txends))
             flags == Put(x.pending_flags, 2)
             v == [x EXCEPT !.sent = {"RST"}, !.acked = {}, !.rcvd = {},
                            !.rx_queue = <<>>, !.pending_data = data]
             y == [v EXCEPT !.txhead = x.txtail, !.txends = {},
                            !.pending_flags = flags, !.process = FALSE]
  <1>1. /\ HasFields(x) /\ x.xfer_closed = TRUE /\ SameTx(x, t)
        /\ x.rcvd = t.rcvd /\ x.ack_pending = t.ack_pending /\ x.rcv_ack = t.rcv_ack
        /\ x.rcv_win = t.rcv_win /\ x.max_rcv_win = t.max_rcv_win
        /\ x.rx_queue = t.rx_queue /\ x.rnxt = t.rnxt /\ x.delivered = t.delivered
    BY ZenonT(60) DEF XferClosed, Record, HasFields, Fields, SameTx
  <1>2. u = [y EXCEPT !.timer = FALSE, !.wait = FALSE, !.listed = FALSE]
    BY Zenon, <1>1 DEF Deleted, HasFields, Fields
  <1>3. data = 0 /\ flags = 0
    <2>1. Cardinality(t.txends) \in Nat
      BY FS_CardinalityType DEF TxTypes
    <2>2. x.pending_data = Cardinality(x.txends) /\ Cardinality(x.txends) \in Nat
      BY <1>1, <2>1 DEF SameTx
    <2>3. data = 0
      BY <2>2 DEF Put, MaxOf
    <2>4. flags = 0
      BY <1>1 DEF SameTx, Put, MaxOf
    <2>5. QED
      BY <2>3, <2>4
  <1> HIDE DEF x, data, flags
  <1>4. /\ HasFields(v) /\ v.xfer_closed = TRUE /\ v.sent = {"RST"} /\ v.acked = {}
        /\ v.rcvd = {} /\ v.rx_queue = <<>> /\ v.pending_data = data
        /\ v.ack_pending = t.ack_pending /\ v.rcv_ack = t.rcv_ack
        /\ v.rcv_win = t.rcv_win /\ v.max_rcv_win = t.max_rcv_win
        /\ v.rnxt = t.rnxt /\ v.delivered = t.delivered
        /\ v.snd_seq = t.snd_seq /\ v.snd_sent = t.snd_sent /\ v.snd_win = t.snd_win
        /\ v.txtail = t.txtail /\ v.una = t.una /\ v.nxt = t.nxt
    BY ZenonT(90), <1>1 DEF HasFields, Fields, SameTx
  <1> HIDE DEF v
  <1>5. /\ HasFields(y) /\ y.xfer_closed = TRUE /\ y.sent = {"RST"} /\ y.acked = {}
        /\ y.rcvd = {} /\ y.rx_queue = <<>> /\ y.pending_data = data
        /\ y.ack_pending = t.ack_pending /\ y.rcv_ack = t.rcv_ack
        /\ y.rcv_win = t.rcv_win /\ y.max_rcv_win = t.max_rcv_win
        /\ y.rnxt = t.rnxt /\ y.delivered = t.delivered
        /\ y.snd_seq = t.snd_seq /\ y.snd_sent = t.snd_sent /\ y.snd_win = t.snd_win
        /\ y.txhead = x.txtail /\ y.txtail = t.txtail /\ y.una = t.una /\ y.nxt = t.nxt
        /\ y.txends = {} /\ y.pending_flags = flags
    BY ZenonT(90), <1>4 DEF HasFields, Fields
  <1> HIDE DEF y, u
  <1>6. /\ u.xfer_closed = TRUE /\ u.sent = {"RST"} /\ u.acked = {}
        /\ u.rcvd = {} /\ u.rx_queue = <<>> /\ u.pending_data = data
        /\ u.ack_pending = t.ack_pending /\ u.rcv_ack = t.rcv_ack
        /\ u.rcv_win = t.rcv_win /\ u.max_rcv_win = t.max_rcv_win
        /\ u.rnxt = t.rnxt /\ u.delivered = t.delivered
        /\ u.snd_seq = t.snd_seq /\ u.snd_sent = t.snd_sent /\ u.snd_win = t.snd_win
        /\ u.txhead = x.txtail /\ u.txtail = t.txtail /\ u.una = t.una /\ u.nxt = t.nxt
        /\ u.txends = {} /\ u.pending_flags = flags /\ u.listed = FALSE
    BY ZenonT(60), <1>2, <1>5 DEF HasFields, Fields
  <1>7. x.txtail = t.txtail
    BY <1>1 DEF SameTx
  <1>8. TxTypes(u)
    BY <1>6, <1>7, FS_EmptySet DEF TxTypes, Flags
  <1>9. Cardinality({}) = 0 /\ FlagCount({"RST"}) = 0
    BY FS_EmptySet DEF FlagCount
  <1>10. Tx(u)
    <2>1. Sending(u) = {"RST"}
      BY <1>6 DEF Sending
    <2>2. QED
      BY ZenonT(60), <1>3, <1>6, <1>8, <1>9, <2>1 DEF Tx
  <1>11. RxTypes(u)
    BY <1>6 DEF RxTypes
  <1>12. Len(u.rx_queue) = 0 /\ Len(t.rx_queue) \in Nat /\ t.rcv_win \in Nat
    BY <1>6 DEF RxTypes
  <1>13. RxKept(u, t)
    <2>1. u.rcv_win >= t.rcv_win /\ Len(u.rx_queue) <= Len(t.rx_queue)
      BY <1>6, <1>12
    <2>2. \A i \in 1..Len(u.rx_queue) : u.rx_queue[i] = t.rx_queue[i]
      BY <1>12
    <2>3. QED
      BY ZenonT(60), <1>6, <1>11, <2>1, <2>2 DEF RxKept
  <1>14. QED
    BY Zenon, <1>6, <1>10, <1>13 DEF u, x

\* A time-out, a reset or a shutdown: the state is set to CLOSED first.
LEMMA AbortTx ==
    ASSUME NEW t, Record(t), Tx(t), Rx(t)
    PROVE  Tx(Abort(t)) /\ RxKept(Abort(t), t) /\ Abort(t).xfer_closed
  <1> DEFINE v == [t EXCEPT !.sent = {"RST"}, !.acked = {}, !.rcvd = {}]
             u == Deleted(XferClosed(v))
  <1>1. /\ Record(v) /\ v.rcvd = {} /\ v.sent = {"RST"} /\ v.acked = {}
        /\ v.listed = t.listed /\ v.xfer_closed = t.xfer_closed
        /\ v.snd_seq = t.snd_seq /\ v.snd_sent = t.snd_sent /\ v.snd_win = t.snd_win
        /\ v.txhead = t.txhead /\ v.txtail = t.txtail /\ v.txends = t.txends
        /\ v.una = t.una /\ v.nxt = t.nxt
        /\ v.pending_data = t.pending_data /\ v.pending_flags = t.pending_flags
        /\ v.ack_pending = t.ack_pending /\ v.rcv_ack = t.rcv_ack
        /\ v.rcv_win = t.rcv_win /\ v.max_rcv_win = t.max_rcv_win
        /\ v.rx_queue = t.rx_queue /\ v.rnxt = t.rnxt /\ v.delivered = t.delivered
    BY ZenonT(90) DEF Record, HasFields, Fields
  <1>2. Abort(t) = tcp_close(v)
    BY DEF Abort
  <1> HIDE DEF v
  <1>3. tcp_close(v) = Deleted(XferClosed(v))
    BY <1>1 DEF tcp_close
  <1>4. TxTypes(v)
    <2>1. TxTypes(t) /\ {"RST"} \subseteq Flags /\ {} \subseteq Flags
      BY DEF Tx, Flags
    <2>2. QED
      BY ZenonT(60), <1>1, <2>1 DEF TxTypes
  <1>5. RxTypes(v)
    <2>1. RxTypes(t) /\ {} \subseteq Flags
      BY DEF Rx
    <2>2. QED
      BY ZenonT(60), <1>1, <2>1 DEF RxTypes
  <1>6. v.pending_data = Cardinality(v.txends) /\ v.pending_flags \in 0..2
    BY <1>1 DEF Tx, FlagCount
  <1> DEFINE w == [v EXCEPT !.listed = FALSE]
  <1>7. Tx(u) /\ RxKept(u, v) /\ u.xfer_closed
    BY ZenonT(60), <1>1, <1>4, <1>5, <1>6, DeletedTx
  <1>8. RxKept(u, t)
    <2>1. ~u.listed
      BY <1>1, DeletedControl
    <2> HIDE DEF u
    <2>2. QED
      BY ZenonT(60), <1>1, <1>7, <2>1 DEF RxKept
  <1>9. QED
    BY Zenon, <1>2, <1>3, <1>7, <1>8

\* tcp_close() on a listed connection.
LEMMA CloseTx ==
    ASSUME NEW t, Sane(t), Tx(t), Rx(t),
           "SYN" \in t.rcvd /\ "SYN" \notin t.acked => t.snd_sent = 1
    PROVE  Tx(tcp_close(t)) /\ RxKept(tcp_close(t), t) /\ tcp_close(t).xfer_closed
  <1> DEFINE x == XferClosed(t)
  <1>0. Record(t) /\ t.listed
    BY DEF Sane
  <1>1. /\ Record(x) /\ SameTx(x, t)
        /\ x.listed = t.listed /\ x.xfer_closed = TRUE /\ x.rcvd = t.rcvd
        /\ x.ack_pending = t.ack_pending /\ x.rcv_ack = t.rcv_ack
        /\ x.rcv_win = t.rcv_win /\ x.max_rcv_win = t.max_rcv_win
        /\ x.rx_queue = t.rx_queue /\ x.rnxt = t.rnxt /\ x.delivered = t.delivered
    BY ZenonT(90), <1>0 DEF XferClosed, Record, HasFields, Fields, SameTx
  <1>2. CASE "SYN" \notin t.rcvd
    <2>1. tcp_close(t) = Deleted(x)
      BY <1>1, <1>2 DEF tcp_close
    <2>2. TxTypes(t) /\ t.pending_data = Cardinality(t.txends) /\ t.pending_flags \in 0..2
      BY DEF Tx, FlagCount
    <2>3. RxTypes(t)
      BY DEF Rx
    <2>4. QED
      BY Zenon, <1>0, <2>1, <2>2, <2>3, DeletedTx
  <1>3. CASE "SYN" \in t.rcvd
    <2>1. tcp_close(t) = FinIfDrained(PretendSynAcked(x))
      BY <1>1, <1>3 DEF tcp_close
    <2> HIDE DEF x
    <2>2. Tx(x)
      BY <1>1, SameTxKept
    <2>3. Sane(x)
      BY Zenon, <1>1 DEF Sane, SameTx, SendingFlag, Sending
    <2>4. RxKept(x, t)
      <3>1. RxTypes(x)
        BY ZenonT(90), <1>1 DEF Rx, RxTypes
      <3>2. x.rcv_win >= t.rcv_win /\ Len(x.rx_queue) <= Len(t.rx_queue)
        BY <1>1 DEF Rx, RxTypes
      <3>3. QED
        BY Zenon, <1>1, <3>1, <3>2 DEF RxKept
    <2> DEFINE p == PretendSynAcked(x)
    <2>5. Tx(p) /\ SameRx(p, x) /\ Sane(p) /\ "SYN" \in p.acked
      <3>1. CASE "SYN" \in x.acked
        BY ZenonT(60), <2>2, <2>3, <3>1 DEF PretendSynAcked, SameRx
      <3>2. CASE "SYN" \notin x.acked
        <4> DEFINE ack == SeqAdd(x.snd_seq, 1)
                   y == tcp_rx_ack(x, ack, 0)
                   f == AckedFlagAndData(x, ack, 0)
        <4>1. ack \in 0..(SeqSpace - 1) /\ AckLen(x, ack) = 1
          BY <1>1, NextSeq, SequenceSpace DEF AckLen, SeqAdd, Record
        <4>2. x.snd_sent = 1
          BY <1>1, <1>3, <3>2 DEF SameTx
        <4>3. p = y
          BY <3>2 DEF PretendSynAcked
        <4> HIDE DEF ack
        <4>4. Tx(y) /\ SameRx(y, x) /\ Sane(y)
          BY <2>2, <2>3, <4>1, RxAckTx
        <4>5. y = FinIfDrained(f)
          BY <4>1, <4>2 DEF tcp_rx_ack
        <4>6. /\ Record(f)
              /\ f.listed = x.listed /\ f.xfer_closed = x.xfer_closed
              /\ f.sent = x.sent /\ f.rcvd = x.rcvd /\ f.rx_queue = x.rx_queue
              /\ f.wait = x.wait /\ f.process = x.process
              /\ f.told = x.told /\ f.nxt = x.nxt
              /\ ~f.timer
              /\ f.acked = x.acked \cup SendingFlag(x)
              /\ TxEmpty(x) => TxEmpty(f)
          <5>1. 0 \in Int
            OBVIOUS
          <5>2. QED
            BY ZenonT(60), <1>1, <4>1, <5>1, AckedEffect
        <4> HIDE DEF f, y
        <4>7. Sane(f) /\ "SYN" \in f.acked
          BY <2>3, <4>6 DEF Sane, SendingFlag, Sending
        <4>8. Sane(FinIfDrained(f)) /\ "SYN" \in FinIfDrained(f).acked
          BY Zenon, <4>7, FinSane
        <4>9. QED
          BY ZenonT(60), <4>3, <4>4, <4>5, <4>8
      <3>3. QED
        BY Zenon, <3>1, <3>2
    <2> HIDE DEF p
    <2>6. Tx(FinIfDrained(p)) /\ SameRx(FinIfDrained(p), p)
      BY Zenon, <2>5, FinTx
    <2>7. SameRx(FinIfDrained(p), x)
      BY Zenon, <2>5, <2>6 DEF SameRx
    <2> DEFINE u == FinIfDrained(p)
    <2> HIDE DEF u
    <2>8. RxKept(u, t)
      <3>1. Rx(x)
        BY ZenonT(60), <2>4, RxKeptRx
      <3>2. RxKept(u, x)
        BY ZenonT(60), <2>7, <3>1, SameRxKept DEF u
      <3>3. QED
        BY ZenonT(60), <2>4, <3>2, RxKeptTwice
    <2>9. u.xfer_closed
      BY Zenon, <1>1, <2>7 DEF SameRx, u
    <2>10. QED
      BY ZenonT(60), <2>1, <2>6, <2>8, <2>9 DEF u, p
  <1>4. QED
    BY <1>2, <1>3

\* tcp_close() under the control invariant.
LEMMA ControlClose ==
    ASSUME NEW t, Control(t), t.listed, Tx(t), Rx(t)
    PROVE  Tx(tcp_close(t)) /\ RxKept(tcp_close(t), t) /\ tcp_close(t).xfer_closed
  <1>1. Sane(t)
    BY ControlSane
  <1>2. "SYN" \in t.rcvd /\ "SYN" \notin t.acked => t.snd_sent = 1
    BY DEF Control
  <1>3. QED
    BY ZenonT(60), <1>1, <1>2, CloseTx

\* Queueing a buffer of n bytes from the application.
LEMMA QueueTx ==
    ASSUME NEW t, Record(t), Tx(t), t.listed, NEW n \in Nat \ {0}
    PROVE  Tx(Queueing(t, n)) /\ SameRx(Queueing(t, n), t)
  <1> DEFINE u == Queueing(t, n)
             tail == t.txtail + n
             ends == t.txends \cup {tail}
             data == t.pending_data + 1
  <1>0. HasFields(t) /\ TxTypes(t) /\ InStep(t)
    BY DEF Record, Tx
  <1>1. u = [t EXCEPT !.txtail = tail, !.txends = ends, !.pending_data = data]
    BY DEF Queueing
  <1>2. tail \in Nat /\ tail > t.txtail /\ t.txhead < tail
    BY <1>0 DEF TxTypes
  <1>3. tail \notin t.txends /\ ends \subseteq (t.txhead + 1)..tail /\ tail \in ends
    BY <1>0, <1>2 DEF InStep, TxTypes
  <1>4. IsFiniteSet(ends) /\ Cardinality(ends) = data /\ ends \subseteq Nat
    <2>1. IsFiniteSet(ends) /\ Cardinality(ends) = Cardinality(t.txends) + 1
      BY <1>0, <1>3, FS_AddElement DEF TxTypes
    <2>2. ends \subseteq Nat
      BY <1>0, <1>2 DEF TxTypes
    <2>3. QED
      BY <2>1, <2>2 DEF Tx
  <1>5. t.snd_sent <= IF SendingFlag(t) # {} THEN 1 ELSE tail - t.txhead
    BY <1>0, <1>2 DEF InStep, TxTypes
  <1> HIDE DEF tail, ends, data, u
  <1>6. /\ u.listed = t.listed /\ u.sent = t.sent /\ u.acked = t.acked
        /\ u.snd_seq = t.snd_seq /\ u.snd_sent = t.snd_sent /\ u.snd_win = t.snd_win
        /\ u.txhead = t.txhead /\ u.txtail = tail /\ u.txends = ends
        /\ u.una = t.una /\ u.nxt = t.nxt /\ u.pending_data = data
        /\ u.pending_flags = t.pending_flags /\ SameRx(u, t)
    BY ZenonT(60), <1>0, <1>1 DEF HasFields, Fields, SameRx
  <1>7. TxTypes(u)
    BY <1>0, <1>2, <1>4, <1>6 DEF TxTypes
  <1>8. Sending(u) = Sending(t) /\ SendingFlag(u) = SendingFlag(t)
    BY <1>6 DEF Sending, SendingFlag
  <1>9. InStep(u)
    BY ZenonT(60), <1>0, <1>2, <1>3, <1>5, <1>6, <1>8 DEF InStep
  <1>10. QED
    BY ZenonT(60), <1>4, <1>6, <1>7, <1>8, <1>9 DEF Tx, u

\* tcp_xmit() and the receiving half.
LEMMA XmitRx ==
    ASSUME NEW t, Record(t), Rx(t), NEW out, NEW w \in Nat
    PROVE  RxKept(tcp_xmit(t, out, w), t)
  <1> DEFINE u == tcp_xmit(t, out, w)
             start == XmitStart(t)
             expand == XmitExpand(start, w)
             all == DiscardAll(start)
             send == XmitSent(expand)
  <1>0. HasFields(t)
    BY DEF Record
  <1>1. HasFields(start) /\ SameRx(start, t)
    BY ZenonT(60), <1>0 DEF XmitStart, HasFields, Fields, SameRx
  <1>2. u \in {t, start, expand, send, all}
    BY DEF tcp_xmit
  <1> HIDE DEF start, u
  <1>3. RxKept(t, t) /\ RxKept(start, t) /\ Rx(start)
    BY ZenonT(60), <1>1, SameRxKept, RxKeptRx DEF SameRx
  <1>4. RxTypes(start)
    BY <1>3 DEF Rx
  <1>5. HasFields(expand) /\ RxKept(expand, start)
    <2> DEFINE win == ExpandedWin(start, AppWin(start, w))
    <2>1. AppWin(start, w) \in Nat
      BY SequenceSpace DEF AppWin
    <2>2. win \in Nat /\ win >= start.rcv_win
      <3> DEFINE m == MinOf(start.max_rcv_win, AppWin(start, w))
                 a == AlignDown(m)
      <3>1. m \in Nat
        BY <1>4, <2>1 DEF MinOf, RxTypes
      <3>2. a \in Int
        <4> HIDE DEF m
        <4>1. m \div WindowAlign \in Int
          BY <3>1, SequenceSpace
        <4>2. QED
          BY <4>1, SequenceSpace DEF AlignDown
      <3>3. win = MaxOf(start.rcv_win, a)
        BY DEF ExpandedWin
      <3> HIDE DEF a, win
      <3>4. QED
        BY <1>4, <3>2, <3>3 DEF MaxOf, RxTypes
    <2>3. expand = [start EXCEPT !.rcv_win = win]
      BY DEF XmitExpand
    <2> HIDE DEF win, expand
    <2>4. /\ HasFields(expand) /\ expand.rcv_win = win
          /\ expand.listed = start.listed /\ expand.xfer_closed = start.xfer_closed
          /\ expand.rcvd = start.rcvd /\ expand.ack_pending = start.ack_pending
          /\ expand.rcv_ack = start.rcv_ack /\ expand.max_rcv_win = start.max_rcv_win
          /\ expand.rx_queue = start.rx_queue /\ expand.rnxt = start.rnxt
          /\ expand.delivered = start.delivered
      BY ZenonT(60), <1>1, <2>3 DEF HasFields, Fields
    <2>5. RxTypes(expand)
      BY Zenon, <1>4, <2>2, <2>4 DEF RxTypes
    <2>6. Len(expand.rx_queue) <= Len(start.rx_queue)
      BY <1>4, <2>4 DEF RxTypes
    <2>7. QED
      BY Zenon, <2>2, <2>4, <2>5, <2>6 DEF RxKept
  <1>6. RxKept(all, start)
    <2> DEFINE S == {start.max_rcv_win} \cup
                    {GapTo(start, start.rx_queue[i]) : i \in 1..Len(start.rx_queue)}
               m == Least(S)
    <2>1. S \subseteq Nat /\ S # {}
      <3>1. \A i \in 1..Len(start.rx_queue) : GapTo(start, start.rx_queue[i]) \in Nat
        <4> SUFFICES ASSUME NEW i \in 1..Len(start.rx_queue)
                     PROVE  GapTo(start, start.rx_queue[i]) \in Nat
          OBVIOUS
        <4>1. start.rx_queue[i] \in Queued /\ start.rcv_ack \in Int
          BY <1>4 DEF RxTypes
        <4>2. start.rx_queue[i].seq \in Int
          BY Zenon, <4>1, QueuedFields
        <4>3. GapTo(start, start.rx_queue[i]) \in 0..(SeqSpace - 1)
          BY Zenon, <4>1, <4>2, SeqMoves DEF GapTo
        <4>4. QED
          BY <4>3, SequenceSpace
      <3>2. QED
        BY <1>4, <3>1 DEF RxTypes
    <2>2. m \in Nat
      BY Zenon, <2>1, LeastIsMin
    <2>3. all = [start EXCEPT !.max_rcv_win = m, !.rx_queue = <<>>]
      BY DEF DiscardAll
    <2> HIDE DEF m, all
    <2>4. /\ all.rcv_win = start.rcv_win
          /\ all.listed = start.listed /\ all.xfer_closed = start.xfer_closed
          /\ all.rcvd = start.rcvd /\ all.ack_pending = start.ack_pending
          /\ all.rcv_ack = start.rcv_ack /\ all.max_rcv_win = m
          /\ all.rx_queue = <<>> /\ all.rnxt = start.rnxt
          /\ all.delivered = start.delivered
      BY Zenon, <1>1, <2>3 DEF HasFields, Fields
    <2>5. RxTypes(all)
      BY <1>4, <2>2, <2>4 DEF RxTypes
    <2>6. /\ Len(all.rx_queue) <= Len(start.rx_queue) /\ all.rcv_win >= start.rcv_win
          /\ \A i \in 1..Len(all.rx_queue) : all.rx_queue[i] = start.rx_queue[i]
      BY <1>4, <2>4 DEF RxTypes
    <2>7. QED
      BY Zenon, <2>4, <2>5, <2>6 DEF RxKept
  <1>7. RxKept(send, expand)
    <2> HIDE DEF expand
    <2> DEFINE nxt == MaxOf(expand.nxt, expand.una + expand.snd_sent)
               told == expand.told \/ "ACK" \in expand.sent
    <2>1. send = [expand EXCEPT !.ack_pending = FALSE, !.nxt = nxt, !.told = told]
      BY DEF XmitSent
    <2> HIDE DEF nxt, told, send
    <2>2. /\ send.rcv_win = expand.rcv_win
          /\ send.listed = expand.listed /\ send.xfer_closed = expand.xfer_closed
          /\ send.rcvd = expand.rcvd /\ send.ack_pending = FALSE
          /\ send.rcv_ack = expand.rcv_ack /\ send.max_rcv_win = expand.max_rcv_win
          /\ send.rx_queue = expand.rx_queue /\ send.rnxt = expand.rnxt
          /\ send.delivered = expand.delivered
      BY Zenon, <1>5, <2>1 DEF HasFields, Fields
    <2>3. RxTypes(expand)
      BY <1>5 DEF RxKept
    <2>4. RxTypes(send)
      BY ZenonT(60), <2>2, <2>3 DEF RxTypes
    <2>5. Len(send.rx_queue) <= Len(expand.rx_queue) /\ send.rcv_win >= expand.rcv_win
      BY <2>2, <2>3 DEF RxTypes
    <2>6. QED
      BY Zenon, <2>2, <2>4, <2>5 DEF RxKept
  <1> HIDE DEF expand, all, send
  <1>8. Rx(expand) /\ RxKept(expand, t) /\ RxKept(all, t) /\ RxKept(send, t)
    <2>1. Rx(expand)
      BY Zenon, <1>3, <1>5, RxKeptRx
    <2>2. RxKept(expand, t) /\ RxKept(all, t)
      BY Zenon, <1>3, <1>5, <1>6, RxKeptTwice
    <2>3. RxKept(send, t)
      BY Zenon, <1>7, <2>2, RxKeptTwice
    <2>4. QED
      BY <2>1, <2>2, <2>3
  <1>9. RxKept(u, t)
    BY <1>2, <1>3, <1>8
  <1>10. QED
    BY <1>9 DEF u

\* A part of a sequence.
LEMMA PartOfSeq ==
    ASSUME NEW S, NEW s \in Seq(S), NEW m \in 1..(Len(s) + 1), NEW n \in (m - 1)..Len(s)
    PROVE  /\ SubSeq(s, m, n) \in Seq(S)
           /\ Len(SubSeq(s, m, n)) = n - m + 1
           /\ \A i \in 1..(n - m + 1) : SubSeq(s, m, n)[i] = s[m + i - 1]
  <1>1. m \in Int /\ n \in Int /\ Len(s) \in Nat
    OBVIOUS
  <1>2. \A i \in m..n : s[i] \in S
    BY <1>1, SeqAt
  <1>3. /\ SubSeq(s, m, n) \in Seq(S)
        /\ Len(SubSeq(s, m, n)) = IF m <= n THEN n - m + 1 ELSE 0
        /\ \A i \in 1..(n - m + 1) : SubSeq(s, m, n)[i] = s[m + i - 1]
    BY <1>1, <1>2, SeqPart
  <1>4. QED
    BY <1>1, <1>3

\* tcp_discard() drops the last queued packet.
LEMMA DiscardRx ==
    ASSUME NEW t, Record(t), Rx(t)
    PROVE  SameTx(tcp_discard(t), t) /\ RxKept(tcp_discard(t), t)
  <1>0. HasFields(t) /\ RxTypes(t)
    BY DEF Record, Rx
  <1>1. CASE t.rx_queue = <<>>
    <2>1. tcp_discard(t) = t
      BY <1>1 DEF tcp_discard
    <2>2. SameRx(t, t) /\ SameTx(t, t)
      BY Zenon DEF SameRx, SameTx
    <2>3. QED
      BY Zenon, <2>1, <2>2, SameRxKept
  <1>2. CASE t.rx_queue # <<>>
    <2> DEFINE last == t.rx_queue[Len(t.rx_queue)]
               max == MinOf(t.max_rcv_win, GapTo(t, last))
               queue == SubSeq(t.rx_queue, 1, Len(t.rx_queue) - 1)
               u == [t EXCEPT !.max_rcv_win = max, !.rx_queue = queue]
    <2>1. tcp_discard(t) = u
      BY <1>2 DEF tcp_discard
    <2>2. Len(t.rx_queue) \in Nat \ {0} /\ last \in Queued /\ t.rcv_ack \in Int
      BY <1>0, <1>2 DEF RxTypes
    <2>3. queue \in Seq(Queued) /\ Len(queue) = Len(t.rx_queue) - 1
            /\ \A i \in 1..Len(queue) : queue[i] = t.rx_queue[i]
      <3> DEFINE s == t.rx_queue
      <3>1. s \in Seq(Queued) /\ Len(s) \in Nat \ {0}
        BY <1>0, <2>2 DEF RxTypes
      <3> HIDE DEF s
      <3>2. Len(s) + 0 \in Nat /\ 1 \in 1..(Len(s) + 1) /\ Len(s) - 1 \in (1 - 1)..Len(s)
        BY <3>1
      <3>3. /\ SubSeq(s, 1, Len(s) - 1) \in Seq(Queued)
            /\ Len(SubSeq(s, 1, Len(s) - 1)) = (Len(s) - 1) - 1 + 1
            /\ \A i \in 1..((Len(s) - 1) - 1 + 1) : SubSeq(s, 1, Len(s) - 1)[i] = s[1 + i - 1]
        BY Zenon, <3>1, <3>2, PartOfSeq
      <3>4. /\ Len(SubSeq(s, 1, Len(s) - 1)) = Len(s) - 1
            /\ \A i \in 1..(Len(s) - 1) : SubSeq(s, 1, Len(s) - 1)[i] = s[i]
        BY <3>1, <3>3
      <3>5. QED
        BY Zenon, <3>3, <3>4 DEF s
    <2>4. max \in Nat
      <3>1. last.seq \in Int
        BY Zenon, <2>2, QueuedFields
      <3>2. GapTo(t, last) \in 0..(SeqSpace - 1)
        BY Zenon, <2>2, <3>1, SeqMoves DEF GapTo
      <3> HIDE DEF last
      <3>3. QED
        BY <1>0, <3>2, SequenceSpace DEF MinOf, RxTypes
    <2> HIDE DEF max, queue
    <2>5. /\ u.listed = t.listed /\ u.xfer_closed = t.xfer_closed /\ u.rcvd = t.rcvd
          /\ u.ack_pending = t.ack_pending /\ u.rcv_ack = t.rcv_ack
          /\ u.rcv_win = t.rcv_win /\ u.max_rcv_win = max /\ u.rx_queue = queue
          /\ u.rnxt = t.rnxt /\ u.delivered = t.delivered /\ SameTx(u, t)
      BY Zenon, <1>0 DEF HasFields, Fields, SameTx
    <2> HIDE DEF u
    <2>6. RxTypes(u)
      BY Zenon, <1>0, <2>3, <2>4, <2>5 DEF RxTypes
    <2>7. u.rcv_win >= t.rcv_win /\ Len(u.rx_queue) <= Len(t.rx_queue)
      BY <1>0, <2>2, <2>3, <2>5 DEF RxTypes
    <2>8. RxKept(u, t)
      BY ZenonT(60), <2>3, <2>5, <2>6, <2>7 DEF RxKept
    <2>9. QED
      BY ZenonT(60), <2>1, <2>5, <2>8
  <1>3. QED
    BY <1>1, <1>2

-----------------------------------------------------------------------------
(* Receiving.                                                              *)

\* The right edge of the receive window, in the peer's sequence space.
Edge(u, t) == u.rnxt + u.rcv_win >= t.rnxt + t.rcv_win

\* The right edge over two functions.
LEMMA EdgeTwice ==
    ASSUME NEW t, NEW u, NEW v, RxTypes(t), RxTypes(u), RxTypes(v), Edge(u, t), Edge(v, u)
    PROVE  Edge(v, t)
  <1> DEFINE a == t.rnxt
             b == t.rcv_win
             c == u.rnxt
             d == u.rcv_win
             e == v.rnxt
             f == v.rcv_win
  <1>1. a \in Nat /\ b \in Nat /\ c \in Nat /\ d \in Nat /\ e \in Nat /\ f \in Nat
    BY DEF RxTypes
  <1>2. c + d >= a + b /\ e + f >= c + d
    BY DEF Edge
  <1> HIDE DEF a, b, c, d, e, f
  <1>3. e + f >= a + b
    BY <1>1, <1>2
  <1>4. QED
    BY <1>3 DEF Edge, a, b, e, f

\* What receives nothing does not move the right edge back.
LEMMA KeptEdge ==
    ASSUME NEW t, NEW u, Rx(t), RxKept(u, t)
    PROVE  Edge(u, t)
  BY DEF Rx, RxTypes, RxKept, Edge

\* tcp_rx_seq(): n bytes of sequence space have been received.
LEMMA SeqEffect ==
    ASSUME NEW t, HasFields(t), RxTypes(t), NEW n \in Nat
    PROVE  LET u == tcp_rx_seq(t, n) IN
           /\ HasFields(u) /\ SameTx(u, t) /\ RxTypes(u) /\ Edge(u, t)
           /\ u.listed = t.listed /\ u.xfer_closed = t.xfer_closed /\ u.rcvd = t.rcvd
           /\ u.rcv_ack = SeqAdd(t.rcv_ack, n) /\ u.rnxt = t.rnxt + n
           /\ u.rx_queue = t.rx_queue /\ u.delivered = t.delivered
  <1> DEFINE u == tcp_rx_seq(t, n)
             ack == SeqAdd(t.rcv_ack, n)
             win == MaxOf(t.rcv_win - n, 0)
             rnxt == t.rnxt + n
  <1>1. u = [t EXCEPT !.rcv_ack = ack, !.rcv_win = win, !.ack_pending = TRUE, !.rnxt = rnxt]
    BY DEF tcp_rx_seq
  <1>2. ack \in 0..(SeqSpace - 1)
    <2>1. t.rcv_ack \in Int /\ n \in Int
      BY DEF RxTypes
    <2>2. QED
      BY Zenon, <2>1, SeqMoves
  <1>3. win \in Nat /\ rnxt \in Nat /\ rnxt + win >= t.rnxt + t.rcv_win
    BY DEF MaxOf, RxTypes
  <1> HIDE DEF ack, win, rnxt, u
  <1>4. /\ HasFields(u) /\ SameTx(u, t)
        /\ u.listed = t.listed /\ u.xfer_closed = t.xfer_closed /\ u.rcvd = t.rcvd
        /\ u.ack_pending = TRUE /\ u.rcv_ack = ack /\ u.rcv_win = win /\ u.rnxt = rnxt
        /\ u.max_rcv_win = t.max_rcv_win
        /\ u.rx_queue = t.rx_queue /\ u.delivered = t.delivered
    BY ZenonT(90), <1>1 DEF HasFields, Fields, SameTx
  <1>5. RxTypes(u)
    BY Zenon, <1>2, <1>3, <1>4 DEF RxTypes
  <1>6. Edge(u, t)
    BY Zenon, <1>3, <1>4 DEF Edge
  <1>7. QED
    BY ZenonT(60), <1>4, <1>5, <1>6 DEF u, ack, rnxt
=============================================================================
