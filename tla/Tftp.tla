-------------------------------- MODULE Tftp --------------------------------
(***************************************************************************)
(* One TFTP, TFTM or MTFTP download (net/udp/tftp.c) with the bitmap of    *)
(* received blocks (module Bitmap), against any conforming server.  The    *)
(* server answers a repeated RRQ on another port (TID), sends a unicast    *)
(* block once the one before it is acknowledged and multicast blocks in    *)
(* any order; whatever it may have sent can arrive, again and at any time. *)
(* A byte of the file is its offset in the file.                           *)
(***************************************************************************)
EXTENDS Bitmap

CONSTANTS
    Schemes,             \* the URI schemes opened
    Length,              \* length of the file
    DefaultSize,         \* TFTP_DEFAULT_BLKSIZE
    BlockSizes,          \* the block sizes a server may negotiate
    BlockSpace,          \* 2^16: block numbers on the wire are modulo this
    MTFTP_MAX_TIMEOUTS,
    Tids,                \* ports from which the server sends
    NoTid,               \* the peer address is all zero
    MaxLate,             \* bound: how many blocks late a unicast packet may come
    LateFallback,        \* TRUE: a server may answer the fallback from a half-done MTFTP
    MaxPackets           \* bound: how many packets reach the client

ASSUME TftpAssumption ==
    /\ Schemes \subseteq {"tftp", "tftpsize", "tftm", "mtftp"}
    /\ Length \in Nat /\ DefaultSize \in Nat \ {0} /\ BlockSizes \subseteq Nat \ {0}
    /\ BlockSpace \in Nat \ {0} /\ MTFTP_MAX_TIMEOUTS \in Nat
    /\ NoTid \notin Tids /\ LateFallback \in BOOLEAN /\ MaxPackets \in Nat /\ MaxLate \in Nat

VARIABLES
    tftp,     \* struct tftp_request
    buffer,   \* what the parent interface was given: offset -> byte
    rrqs,     \* the requests the server may have seen: their option flags
    server,   \* the server's transfers: port -> its options, or NoTransfer
    packets   \* how many packets have reached the client

tftpVars == <<tftp, buffer, rrqs, server, packets>>

-----------------------------------------------------------------------------
\* The functions of tftp.c on struct tftp_request.  Field "tx" is the packet
\* the step sends, "rc" how the request was closed.

None == [type |-> "none"]

tftp_done(t, rc) ==
    [t EXCEPT !.timer = FALSE, !.socket = FALSE, !.mc_socket = FALSE,
              !.rc = IF @ = "open" THEN rc ELSE @]

tftp_reopen(t) ==
    [t EXCEPT !.flags = @ \ {"SEND_ACK"}, !.peer = NoTid, !.socket = TRUE]

\* The parent may be unable to grow its buffer; it then closes the request.
tftp_presize_NoTrailer(t, filesize, fault) ==
    IF filesize <= t.filesize THEN t
    ELSE [t EXCEPT !.filesize = filesize,
                   !.bitmap.length = (filesize + t.blksize - 1) \div t.blksize]
tftp_presize(t, filesize, fault) ==
    LET sized == [t EXCEPT !.filesize = filesize]
        told  == IF fault = "seek" THEN tftp_done(sized, "error") ELSE sized
    IN IF filesize <= t.filesize THEN t
       ELSE [told EXCEPT !.bitmap.length = (filesize \div t.blksize) + 1]

Resizes(t, filesize) == filesize > t.filesize

tftp_send_rrq(t) == [type |-> "rrq", flags |-> t.flags, port |-> t.port]
tftp_send_ack(t) ==
    [type |-> "ack", dest |-> t.peer, block |-> t.bitmap.first_gap % BlockSpace]

\* The timer is started first, whatever becomes of the packet; what a closed
\* socket is given goes nowhere.
tftp_send_packet_Untimed(t) == [t EXCEPT !.timer = FALSE]
tftp_send_packet(t) ==
    [t EXCEPT !.timer = TRUE,
              !.tx = IF ~t.socket THEN None
                     ELSE IF t.peer = NoTid THEN tftp_send_rrq(t)
                     ELSE IF "SEND_ACK" \in t.flags THEN tftp_send_ack(t)
                     ELSE None]

Fallback(t) ==
    tftp_reopen([t EXCEPT !.flags = {"RRQ_SIZES"}, !.mc_socket = FALSE,
                          !.bitmap = NoBitmap, !.port = "TFTP_PORT"])

\* tftp_timer_expired(); the timer has stopped by then.  fault = "socket":
\* the socket cannot be opened again.
Expired(t, fail, fault) ==
    LET late   == [t EXCEPT !.timer = FALSE]
        missed == [late EXCEPT !.mtftp_timeouts = @ + 1]
        open(u) == IF fault = "socket" THEN tftp_done(u, "error") ELSE tftp_send_packet(u)
    IN IF "MTFTP_RECOVERY" \notin t.flags
       THEN IF fail THEN tftp_done(late, "error") ELSE tftp_send_packet(late)
       ELSE IF t.peer # NoTid THEN open(tftp_reopen(late))
       ELSE IF missed.mtftp_timeouts > MTFTP_MAX_TIMEOUTS THEN open(Fallback(missed))
       ELSE tftp_send_packet(missed)

-----------------------------------------------------------------------------
\* Packets received.  An OACK carries the server's block size, the file size
\* (0 if it does not say) and the "mc" flag of the multicast option.

tftp_process_multicast(t, mc) ==
    IF mc = "none" THEN t
    ELSE [t EXCEPT !.flags = IF mc = "slave" THEN @ \ {"SEND_ACK"} ELSE @,
                   !.mc_socket = TRUE]

tftp_process_blksize(t, blksize) == [t EXCEPT !.blksize = blksize]
tftp_process_tsize(t, tsize) == [t EXCEPT !.tsize = tsize]

tftp_rx_oack(t, m, fault) ==
    LET sizes == tftp_process_tsize(tftp_process_blksize(t, m.blksize), m.tsize)
        opts  == tftp_process_multicast(sizes, m.mc)
        sized == IF opts.tsize = 0 THEN opts ELSE tftp_presize(opts, opts.tsize, fault)
    IN IF fault = "socket" /\ m.mc # "none" THEN tftp_done(sizes, "error")
       ELSE IF fault = "nomem" /\ opts.tsize # 0 /\ Resizes(opts, opts.tsize)
       THEN tftp_done(opts, "error")
       ELSE IF "SIZEONLY" \in t.flags
       THEN tftp_done([sized EXCEPT !.tx = [type |-> "error", dest |-> t.peer]], "ok")
       ELSE tftp_send_packet(sized)

\* The block number on the wire stands for the next block with that number.
BlockOf(t, number) ==
    LET base == ((t.bitmap.first_gap + 1) \div BlockSpace) * BlockSpace
    IN base + number - 1

DataRefused(t, m) ==
    \/ m.block = 0 /\ t.bitmap.first_gap + 1 < BlockSpace
    \/ m.len > t.blksize

\* A closed parent interface takes nothing.
Undelivered(t, m, fault) == DataRefused(t, m) \/ fault = "deliver" \/ t.rc # "open"

\* tftp_rx_data() once the data has been delivered
Received(t, m, fault) ==
    LET block == BlockOf(t, m.block)
        end   == block * t.blksize + m.len
        sized == tftp_presize(t, end, fault)
        sent  == tftp_send_packet([sized EXCEPT !.bitmap = bitmap_set(@, block)])
    IN IF fault = "nomem" /\ Resizes(t, end) THEN tftp_done(t, "error")
       ELSE IF bitmap_full(sent.bitmap) THEN tftp_done(sent, "ok") ELSE sent

tftp_rx_data(t, m, fault) ==
    IF "SIZEONLY" \in t.flags
    THEN tftp_done([t EXCEPT !.tx = [type |-> "error", dest |-> t.peer]], "error")
    ELSE IF Undelivered(t, m, fault) THEN tftp_done(t, "error")
    ELSE Received(t, m, fault)

\* The bytes given to the parent by tftp_rx_data()
Delivered(t, m, fault) ==
    LET offset == BlockOf(t, m.block) * t.blksize IN
    IF "SIZEONLY" \in t.flags \/ Undelivered(t, m, fault) THEN buffer
    ELSE [o \in DOMAIN buffer \cup offset..(offset + m.len - 1) |->
             IF o \in offset..(offset + m.len - 1) THEN m.from + o - offset ELSE buffer[o]]

tftp_rx_error(t) == tftp_done(t, "error")

\* The first answer decides the peer, later ones from elsewhere are dropped.
WithPeer(t, src) == [t EXCEPT !.peer = IF @ = NoTid THEN src ELSE @]

tftp_rx(t, m, fault) ==
    LET known == WithPeer(t, m.src) IN
    IF known.peer # m.src THEN t
    ELSE CASE m.type = "oack" -> tftp_rx_oack(known, m, fault)
           [] m.type = "data" -> tftp_rx_data(known, m, fault)
           [] m.type = "error" -> tftp_rx_error(known)

\* A unicast packet makes this client one that sends ACKs.
UnicastFlags(t, m) ==
    IF m.via = "unicast" THEN [t EXCEPT !.flags = @ \cup {"SEND_ACK"}] ELSE t

-----------------------------------------------------------------------------
\* The server.  Of a transfer "next" blocks may have been sent by unicast, to
\* the client's present socket if "here"; with "mtftp" or "mc" it sends to a
\* multicast group, which may have other members.

NoTransfer ==
    [blksize |-> 0, tsize |-> 0, mc |-> "none", mtftp |-> FALSE, oack |-> FALSE,
     next |-> 0, here |-> FALSE]

Answers(r) ==
    LET Answer(sizes, tsizes, mcs, mtftp, oack, next) ==
            [blksize : sizes, tsize : tsizes, mc : mcs, mtftp : {mtftp}, oack : {oack},
             next : {next}, here : {TRUE}]
    IN IF r.port = "MTFTP_PORT" THEN Answer({DefaultSize}, {0}, {"none"}, TRUE, FALSE, 1)
       ELSE Answer({DefaultSize}, {0}, {"none"}, FALSE, FALSE, 1) \cup
            Answer(BlockSizes, {0, Length}, {"none"}, FALSE, TRUE, 0) \cup
            IF "RRQ_MULTICAST" \in r.flags
            THEN Answer(BlockSizes, {0, Length}, {"master", "slave"}, FALSE, TRUE, 0) ELSE {}

\* The server starts a transfer, also one more for a request it has seen.
ServerAnswers(tid) ==
    /\ server[tid] = NoTransfer
    /\ tftp.mtftp_timeouts > MTFTP_MAX_TIMEOUTS /\ tftp.filesize > 0 => LateFallback
    /\ \E r \in rrqs : \E a \in Answers(r) : server' = [server EXCEPT ![tid] = a]
    /\ UNCHANGED <<tftp, buffer, rrqs, packets>>

\* The master client finished or left: the server makes this one the master.
ServerPromotes(tid) ==
    /\ server[tid].mc = "slave"
    /\ server' = [server EXCEPT ![tid].mc = "master"]
    /\ UNCHANGED <<tftp, buffer, rrqs, packets>>

\* What a step that leaves the request at t does to the server: the packet it
\* sent, and that a new socket has a new port, which earlier requests do not name.
Reopened(t) == t.peer = NoTid /\ (tftp.peer # NoTid \/ t.port # tftp.port)
Sees(t) ==
    LET seen  == IF Reopened(t) THEN {} ELSE rrqs
        known == [tid \in Tids |-> [server[tid] EXCEPT !.here = @ /\ ~Reopened(t)]]
    IN /\ rrqs' = IF t.tx.type = "rrq"
                  THEN seen \cup {[flags |-> t.tx.flags, port |-> t.tx.port]} ELSE seen
       /\ server' =
            IF t.tx.type = "ack" /\ t.tx.block = known[t.tx.dest].next % BlockSpace
            THEN [known EXCEPT ![t.tx.dest].next = @ + 1]
            ELSE known

Group(s) == s.mtftp \/ s.mc # "none"
LastBlock(s) == Length \div s.blksize

DataPacket(tid, index, via) ==
    LET s == server[tid] from == index * s.blksize IN
    [type |-> "data", src |-> tid, via |-> via, block |-> (index + 1) % BlockSpace, from |-> from,
     len |-> IF Length - from < s.blksize THEN Length - from ELSE s.blksize]

Packets(tid) ==
    LET s == server[tid]
        Data(indices, via) == {DataPacket(tid, i, via) : i \in indices}
    IN IF s = NoTransfer THEN {}
       ELSE (IF s.here
             THEN {[type |-> "error", src |-> tid, via |-> "unicast"]} \cup
                  Data({i \in 0..LastBlock(s) :
                           s.mtftp \/ (~Group(s) /\ i < s.next /\ i + MaxLate >= s.next - 1)},
                       "unicast")
             ELSE {}) \cup
            (IF s.oack
             THEN {[type |-> "oack", src |-> tid, via |-> "unicast",
                    blksize |-> s.blksize, tsize |-> s.tsize, mc |-> s.mc]} ELSE {}) \cup
            (IF Group(s) THEN Data(0..LastBlock(s), "multicast") ELSE {})

-----------------------------------------------------------------------------
Flags(scheme) ==
    CASE scheme = "tftp" -> {"RRQ_SIZES"}
      [] scheme = "tftpsize" -> {"RRQ_SIZES", "SIZEONLY"}
      [] scheme = "tftm" -> {"RRQ_SIZES", "RRQ_MULTICAST"}
      [] scheme = "mtftp" -> {"MTFTP_RECOVERY"}

tftp_core_open(scheme) ==
    [flags |-> Flags(scheme), peer |-> NoTid, blksize |-> DefaultSize, tsize |-> 0, filesize |-> 0,
     port |-> IF scheme = "mtftp" THEN "MTFTP_PORT" ELSE "TFTP_PORT", mtftp_timeouts |-> 0,
     bitmap |-> NoBitmap, socket |-> TRUE, mc_socket |-> scheme = "mtftp", timer |-> TRUE,
     rc |-> "open", tx |-> None]

TftpInit ==
    /\ tftp \in {tftp_core_open(scheme) : scheme \in Schemes}
    /\ buffer = <<>> /\ rrqs = {} /\ packets = 0
    /\ server = [tid \in Tids |-> NoTransfer]

Step(t) == tftp' = [t EXCEPT !.tx = None] /\ Sees(t)

Faults == {"none", "seek", "nomem", "deliver", "socket"}

tftp_socket_deliver(m, fault) ==
    LET t == UnicastFlags(tftp, m) u == tftp_rx(t, m, fault) IN
    /\ IF m.via = "unicast" THEN tftp.socket ELSE tftp.mc_socket
    /\ packets < MaxPackets /\ packets' = packets + 1
    /\ Step(u)
    /\ buffer' = IF m.type = "data" /\ WithPeer(t, m.src).peer = m.src
                 THEN Delivered(t, m, fault) ELSE buffer

tftp_timer_expired(fail, fault) ==
    /\ tftp.timer
    /\ Step(Expired(tftp, fail, fault))
    /\ UNCHANGED <<buffer, packets>>

\* The parent closes the interface at any time.
tftp_close ==
    /\ tftp.rc = "open" /\ Step(tftp_done(tftp, "error"))
    /\ UNCHANGED <<buffer, packets>>

TftpNext ==
    \/ \E tid \in Tids : ServerAnswers(tid) \/ ServerPromotes(tid)
    \/ \E tid \in Tids, fault \in Faults :
          \E m \in Packets(tid) : tftp_socket_deliver(m, fault)
    \/ \E fail \in BOOLEAN, fault \in {"none", "socket"} : tftp_timer_expired(fail, fault)
    \/ tftp_close

\* Timers are polled for ever, and a timer that is only ever restarted with a
\* backed-off delay expires with its failure flag in the end (RetryTimer).
TftpFairness ==
    /\ WF_tftpVars(\E fail \in BOOLEAN : tftp_timer_expired(fail, "none"))
    /\ SF_tftpVars(tftp_timer_expired(TRUE, "none"))

TftpSpec == TftpInit /\ [][TftpNext]_tftpVars /\ TftpFairness

-----------------------------------------------------------------------------
\* A download that tftp_rx_data() ends with success ("If all blocks have been
\* received, finish", tftp.c) has given its parent the whole file, every byte
\* at its own offset, whatever was lost, repeated or reordered, from whichever
\* of the server's ports, and however the file divides into blocks.
SuccessMeansWhole ==
    tftp.rc = "ok" /\ "SIZEONLY" \notin tftp.flags =>
        buffer = [o \in 0..(Length - 1) |-> o]

\* When the server has fallen silent the request ends: it is closed, with its
\* timer stopped and its sockets closed, also where the parent closed it in
\* the middle of tftp_presize() and tftp_send_packet() started the timer again.
RequestEnds == <>[](tftp.rc # "open" /\ ~tftp.timer /\ ~tftp.socket)
=============================================================================
