-------------------------------- MODULE Slam --------------------------------
(***************************************************************************)
(* One SLAM multicast download (net/udp/slam.c).  The server multicasts    *)
(* the blocks of a file to everybody, in the order its clients ask for     *)
(* them, polls its clients with unicast packets, and may be restarted with *)
(* another file: every packet starts with a header that names the          *)
(* transaction.  Packets are lost, repeated, delayed and damaged.          *)
(***************************************************************************)
EXTENDS Bitmap

CONSTANTS
    Transactions,              \* what servers send: [id, total_bytes, block_size]
    SLAM_MAX_BLOCKS_PER_NACK,
    MaxSlamPackets             \* bound: how many packets reach the client

ASSUME SlamAssumption ==
    /\ \A h \in Transactions : h.total_bytes \in Nat /\ h.block_size \in Nat \ {0}
    /\ SLAM_MAX_BLOCKS_PER_NACK \in Nat \ {0} /\ MaxSlamPackets \in Nat

VARIABLES
    slam,          \* struct slam_request
    slamBuffer,    \* what the parent interface was given: offset -> <<header, offset>>
    slamPackets    \* how many packets have reached the client

slamVars == <<slam, slamBuffer, slamPackets>>

\* The fake header { 0x00 } matches no packet.
FakeHeader == [id |-> 0, total_bytes |-> 0, block_size |-> 0]

NumBlocks(h) == (h.total_bytes + h.block_size - 1) \div h.block_size

\* A disconnect message goes out first if a NACK was sent.
slam_finished_MasterLeft(s, rc) ==
    [s EXCEPT !.slave_timer = FALSE, !.disconnected = @ \/ (s.nack_sent /\ s.rc = "open"),
              !.rc = IF @ = "open" THEN rc ELSE @]
slam_finished(s, rc) ==
    [s EXCEPT !.master_timer = FALSE, !.slave_timer = FALSE,
              !.disconnected = @ \/ (s.nack_sent /\ s.rc = "open"),
              !.rc = IF @ = "open" THEN rc ELSE @]

\* The blocks asked for: from the first gap to the next block that is not
\* missing, at most SLAM_MAX_BLOCKS_PER_NACK of them.
NackRange_Blind(s) ==
    LET first == s.bitmap.first_gap IN first..(first + SLAM_MAX_BLOCKS_PER_NACK - 1)
NackRange(s) ==
    LET first == s.bitmap.first_gap
        Stops(n) == \/ n >= SLAM_MAX_BLOCKS_PER_NACK
                    \/ first + n >= s.num_blocks
                    \/ bitmap_test(s.bitmap, first + n)
        n == CHOOSE k \in 1..SLAM_MAX_BLOCKS_PER_NACK :
                 Stops(k) /\ \A j \in 1..(k - 1) : ~Stops(j)
    IN first..(first + n - 1)

\* What a closed socket is given goes nowhere: the server has not heard of it.
slam_tx_nack(s) == [s EXCEPT !.nack_sent = TRUE, !.heard = @ \/ s.rc = "open"]

\* The timers have stopped when these are called.
MasterExpired(s, fail) ==
    LET late == [s EXCEPT !.master_timer = FALSE]
    IN IF fail THEN late ELSE slam_tx_nack([late EXCEPT !.master_timer = TRUE])
SlaveExpired(s, fail) ==
    LET late == [s EXCEPT !.slave_timer = FALSE]
    IN IF fail THEN slam_finished(late, "error")
       ELSE slam_tx_nack([late EXCEPT !.slave_timer = TRUE])

\* A header other than the cached one starts the transfer again.  The parent
\* may be unable to grow its buffer; it then closes the request.
slam_pull_header(s, h, fault) ==
    LET reset == [s EXCEPT !.header = h, !.num_blocks = NumBlocks(h), !.bitmap = NoBitmap]
        sized == [reset EXCEPT !.bitmap = bitmap_resize(@, NumBlocks(h))]
    IN IF h = s.header THEN s
       ELSE IF fault = "nomem" THEN slam_finished(reset, "error")
       ELSE IF fault = "seek" THEN slam_finished(sized, "error")
       ELSE sized

\* pull_header failed in the handler that called it
HeaderFails(s, h, fault) == h # s.header /\ fault = "nomem"

-----------------------------------------------------------------------------
\* A packet is [header, packet, len].

Packet(h, n) ==
    LET left == h.total_bytes - n * h.block_size IN
    [header |-> h, packet |-> n, len |-> IF left < h.block_size THEN left ELSE h.block_size]
DataPackets == UNION {{Packet(h, n) : n \in 0..(NumBlocks(h) - 1)} : h \in Transactions}

\* The parent takes the data unless it is closed or cannot store it.
Taken(s, m, fault) ==
    /\ ~bitmap_test(s.bitmap, m.packet) /\ m.packet < s.num_blocks
    /\ s.rc = "open" /\ fault # "deliver"

Marked(s, n) ==
    LET set == [s EXCEPT !.bitmap = bitmap_set(@, n)]
    IN IF bitmap_full(set.bitmap) THEN slam_finished(set, "ok") ELSE set

\* A parent that refuses the data closes the request.
McReceived(s, m, fault) ==
    LET h == slam_pull_header(s, m.header, fault) IN
    IF HeaderFails(s, m.header, fault) THEN h
    ELSE IF Taken(h, m, fault) THEN Marked(h, m.packet)
    ELSE IF fault = "deliver" /\ Taken(h, m, "none") THEN slam_finished(h, "error")
    ELSE h

McTimers(s) == [s EXCEPT !.master_timer = FALSE, !.slave_timer = TRUE]

SlamStep ==
    /\ slam.rc = "open" /\ slamPackets < MaxSlamPackets /\ slamPackets' = slamPackets + 1

\* slam_mc_socket_deliver(); both timers are set before the packet is read
slam_mc_socket_deliver(m, fault) ==
    LET s == slam_pull_header(McTimers(slam), m.header, fault) IN
    /\ SlamStep
    /\ slam' = McReceived(McTimers(slam), m, fault)
    /\ slamBuffer' =
         IF ~HeaderFails(slam, m.header, fault) /\ Taken(s, m, fault)
         THEN LET at == m.packet * m.header.block_size IN
              [o \in DOMAIN slamBuffer \cup at..(at + m.len - 1) |->
                  IF o \in at..(at + m.len - 1) THEN <<m.header, o>> ELSE slamBuffer[o]]
         ELSE slamBuffer

\* The rest of a packet cannot be read, or not even a new header: h is then
\* the one that is cached.
slam_mc_socket_damaged(h, fault) ==
    /\ SlamStep
    /\ slam' = slam_pull_header(McTimers(slam), h, fault)
    /\ UNCHANGED slamBuffer

\* slam_socket_deliver(): the server asks what is missing
slam_socket_deliver(h, fault) ==
    LET s == [slam EXCEPT !.master_timer = TRUE] IN
    /\ SlamStep
    /\ slam' = IF HeaderFails(s, h, fault) THEN slam_pull_header(s, h, fault)
               ELSE slam_tx_nack(slam_pull_header(s, h, fault))
    /\ UNCHANGED slamBuffer

slam_socket_damaged(h, fault) ==
    /\ SlamStep
    /\ slam' = slam_pull_header([slam EXCEPT !.master_timer = TRUE], h, fault)
    /\ UNCHANGED slamBuffer

slam_master_timer_expired(fail) ==
    /\ slam.master_timer /\ slam' = MasterExpired(slam, fail)
    /\ UNCHANGED <<slamBuffer, slamPackets>>

slam_slave_timer_expired(fail) ==
    /\ slam.slave_timer /\ slam' = SlaveExpired(slam, fail)
    /\ UNCHANGED <<slamBuffer, slamPackets>>

\* The parent, or a socket whose name cannot be resolved, closes the request.
slam_close ==
    /\ slam.rc = "open" /\ slam' = slam_finished(slam, "error")
    /\ UNCHANGED <<slamBuffer, slamPackets>>

-----------------------------------------------------------------------------
slam_open ==
    [header |-> FakeHeader, num_blocks |-> 1, bitmap |-> bitmap_resize(NoBitmap, 1),
     master_timer |-> FALSE, slave_timer |-> TRUE, nack_sent |-> FALSE, heard |-> FALSE,
     disconnected |-> FALSE, rc |-> "open"]

SlamInit == slam = slam_open /\ slamBuffer = <<>> /\ slamPackets = 0

SlamNext ==
    \/ \E m \in DataPackets, fault \in {"none", "nomem", "seek", "deliver"} :
          slam_mc_socket_deliver(m, fault)
    \/ \E h \in Transactions, fault \in {"none", "nomem", "seek"} : slam_socket_deliver(h, fault)
    \/ \E h \in Transactions \cup {slam.header}, fault \in {"none", "nomem", "seek"} :
          slam_mc_socket_damaged(h, fault) \/ slam_socket_damaged(h, fault)
    \/ \E fail \in BOOLEAN : slam_master_timer_expired(fail) \/ slam_slave_timer_expired(fail)
    \/ slam_close

\* As in Tftp: timers are polled for ever and back off to their failure.
SlamFairness ==
    /\ WF_slamVars(\E fail \in BOOLEAN : slam_slave_timer_expired(fail))
    /\ SF_slamVars(slam_slave_timer_expired(TRUE))

SlamSpec == SlamInit /\ [][SlamNext]_slamVars /\ SlamFairness

-----------------------------------------------------------------------------
\* A request that ends with success has given its parent every byte of the
\* file of the transaction it ends in, at its offset and from that transaction,
\* although the server changed files, and packets of the old one came late.
SlamSuccessMeansWhole ==
    slam.rc = "ok" =>
        \A o \in 0..(slam.header.total_bytes - 1) :
            o \in DOMAIN slamBuffer /\ slamBuffer[o] = <<slam.header, o>>

\* An open request always has its slave timer running; a closed one has no
\* timer, and the server was sent a disconnect if it had heard of this client
\* ("Send a disconnect message if we ever sent anything to the server",
\* slam.c), also when the parent calls slam_finished() back in the middle of
\* slam_pull_header() and the handler goes on to send a NACK.
SlamClosedCleanly ==
    /\ slam.slave_timer <=> slam.rc = "open"
    /\ slam.rc # "open" => ~slam.master_timer /\ (slam.heard => slam.disconnected)

\* A NACK that slam_tx_nack() builds asks for blocks of the file that are
\* missing, the first of them included, and not for any it has, in whatever
\* order blocks came and wherever the file ends.
NackAsksMissing ==
    slam.rc = "open" /\ slam.num_blocks > 0 =>
        /\ NackRange(slam) \subseteq (0..(slam.num_blocks - 1)) \ slam.bitmap.bits
        /\ 0..(slam.bitmap.first_gap - 1) \subseteq slam.bitmap.bits
        /\ slam.bitmap.first_gap \in NackRange(slam)

\* When the server has fallen silent the request ends.
SlamEnds == <>(slam.rc # "open")
=============================================================================
