------------------------------- MODULE Iscsi -------------------------------
(***************************************************************************)
(* A drive over iSCSI: the session (net/tcp/iscsi.c), the SCSI device and  *)
(* its command (drivers/block/scsi.c), the INT 13 command above it and a   *)
(* target below it.  One connection is a stream of units each way: a basic *)
(* header segment is one unit, and so is a block of data.                  *)
(*                                                                         *)
(* A definition Name_Variant before Name is a plausible mistake in it.     *)
(***************************************************************************)
EXTENDS Integers, Sequences, SequencesExt

CONSTANTS
    Credentials,           \* of "none", "forward", "mutual": what is configured
    DriveLength,           \* blocks read or written by a command
    SCSICMD_MAX_RETRIES,
    CapacityInData,        \* the status of READ CAPACITY comes with its data
    SplitRedirect,         \* a redirection may arrive in pieces
    MaxCommands,           \* bound: INT 13 commands
    MaxRedirects, MaxNops  \* bounds on what the target does

VARIABLE iscsi             \* session, device, command and target, a record

-----------------------------------------------------------------------------
\* PDUs.  "arg" is what the header says besides the lengths.
Pdu(op, arg, off, len, pad) == [op |-> op, arg |-> arg, off |-> off, len |-> len, pad |-> pad]
NoPdu == Pdu("none", "none", 0, 0, 0)

BlockUnit(i) == [u |-> "data", val |-> i]
Units(pdu) ==
    <<[u |-> "bhs", val |-> pdu]>> \o [i \in 1..pdu.len |-> BlockUnit(pdu.off + i - 1)]
        \o [i \in 1..pdu.pad |-> [u |-> "pad", val |-> 0]]
Stream(pdus) == FlattenSeq([i \in DOMAIN pdus |-> Units(pdus[i])])

\* The SCSI command: "data" and "scsi" say whether the session's and the
\* command's ends of the interface between them are plugged into the other,
\* "blocked" that the session's is being shut down.
NoCmd == [type |-> "none", retries |-> 0]
Blocks == 0..(DriveLength - 1)
Nowhere == [b \in Blocks |-> -1]

New(creds) ==
    [creds |-> creds, phase |-> "none", strings |-> {}, auth |-> {},
     socket |-> FALSE, connected |-> FALSE, win |-> FALSE, up |-> <<>>, down |-> <<>>,
     tx |-> "IDLE", txpdu |-> NoPdu, process |-> FALSE,
     rx |-> "BHS", rx_offset |-> 0, rxpdu |-> NoPdu,
     command |-> "none", itt |-> 0, transfer |-> [off |-> 0, len |-> 0],
     control |-> TRUE, tested |-> FALSE, ready |-> FALSE, step |-> TRUE,
     cmd |-> NoCmd, data |-> FALSE, scsi |-> FALSE, blocked |-> FALSE,
     int13 |-> [kind |-> "none", rc |-> "none", count |-> 0], buffer |-> Nowhere, capacity |-> "none",
     target |-> [large |-> FALSE, proved |-> FALSE, written |-> {}, redirects |-> 0, nops |-> 0],
     asserts |-> TRUE]

-----------------------------------------------------------------------------
\* Transmission

Asserted(s, cond) == [s EXCEPT !.asserts = @ /\ cond]

iscsi_start_tx(s, pdu) ==
    [Asserted(s, s.tx = "IDLE") EXCEPT !.tx = "BHS", !.txpdu = pdu, !.process = TRUE]

\* The length of the strings is fixed here, the strings are those of the time
\* when the data segment is sent.
iscsi_start_login(s) ==
    iscsi_start_tx(s, Pdu("login", s.strings, 0, IF s.strings = {} THEN 0 ELSE 1, 0))

\* Data-out PDUs of one block (512 bytes).
iscsi_start_data_out(s, datasn) ==
    LET final == datasn + 1 >= s.transfer.len
    IN iscsi_start_tx(s, Pdu("data_out", [datasn |-> datasn, final |-> final],
                             s.transfer.off + datasn, 1, 0))

iscsi_data_out_done(s) ==
    IF s.txpdu.arg.final THEN s ELSE iscsi_start_data_out(s, s.txpdu.arg.datasn + 1)
iscsi_login_request_done(s) == [s EXCEPT !.strings = {}]

\* A data-out PDU falls through to the end of a login request.
iscsi_tx_done(s) ==
    LET t == [s EXCEPT !.process = FALSE] IN
    CASE s.txpdu.op = "data_out" -> iscsi_login_request_done(iscsi_data_out_done(t))
      [] s.txpdu.op = "login" -> iscsi_login_request_done(t)
      [] OTHER -> t

-----------------------------------------------------------------------------
\* Closing

\* Whatever is closed first, iscsi_close() and scsidev_close() close each
\* other, and the device's command with them; INT 13 is told.
scsidev_close(s) ==
    [s EXCEPT !.control = FALSE, !.step = FALSE, !.cmd = NoCmd, !.scsi = FALSE, !.data = FALSE,
              !.int13.rc = IF @ = "busy" THEN "error" ELSE @]
iscsi_close(s) ==
    [scsidev_close(s) EXCEPT !.socket = FALSE, !.connected = FALSE, !.win = FALSE,
                             !.up = <<>>, !.down = <<>>, !.process = FALSE]

iscsi_close_connection_KeepAuth(s) ==
    [s EXCEPT !.socket = FALSE, !.connected = FALSE, !.win = FALSE, !.up = <<>>, !.down = <<>>,
              !.phase = "none", !.strings = {}, !.tx = "IDLE", !.rx = "BHS", !.rx_offset = 0]
iscsi_close_connection(s) ==
    [s EXCEPT !.socket = FALSE, !.connected = FALSE, !.win = FALSE, !.up = <<>>, !.down = <<>>,
              !.phase = "none", !.strings = {}, !.auth = {},
              !.tx = "IDLE", !.rx = "BHS", !.rx_offset = 0]

\* Task tags are 16 bits wide; what matters is that the next one is another.
iscsi_new_itt(s) == [s EXCEPT !.itt = (@ + 1) % 4]

\* The target of a new connection has not proved anything.
iscsi_open_connection(s) ==
    LET t == Asserted(s, s.tx = "IDLE" /\ s.rx = "BHS" /\ s.rx_offset = 0) IN
    iscsi_start_login(iscsi_new_itt(
        [t EXCEPT !.socket = TRUE, !.phase = "security", !.strings = {"SECURITY"},
                  !.auth = @ \cup IF s.creds = "mutual" THEN {"REVERSE_REQUIRED"} ELSE {},
                  !.target.proved = FALSE]))

-----------------------------------------------------------------------------
\* SCSI commands.  Every operator returns the state after the whole call.

iscsi_scsi_window(s) == s.phase = "full" /\ s.command = "none"
scsidev_window(s) == s.control /\ s.ready /\ iscsi_scsi_window(s)

\* The command reaches the session unless the device has been closed.
CanIssue(s, nomem) == s.control /\ iscsi_scsi_window(s) /\ ~nomem
iscsi_start_command(s) == iscsi_start_tx(s, Pdu("command", s.command, 0, 0, 0))
iscsi_scsi_command(s) ==
    [iscsi_start_command(iscsi_new_itt([s EXCEPT !.command = s.cmd.type]))
        EXCEPT !.data = TRUE, !.scsi = TRUE]

iscsi_command_close(s) ==
    LET t == [s EXCEPT !.data = FALSE] IN IF s.command # "none" THEN iscsi_close(t) ELSE t

\* The command's end is shut down or restarted: the session hears of it
\* unless it is shutting down its own end.
CloseScsi(s) ==
    LET t == IF s.scsi /\ ~s.blocked THEN iscsi_command_close(s) ELSE s
    IN [t EXCEPT !.scsi = FALSE]

\* TEST UNIT READY is the device's own command, the others are INT 13's.
scsidev_ready(s, ok) == IF ok THEN [s EXCEPT !.ready = TRUE] ELSE iscsi_close(s)
int13_command_close(s, ok) == [s EXCEPT !.int13.rc = IF ok THEN "ok" ELSE "error"]
scsicmd_close(s, ok) ==
    LET t == CloseScsi(s)
        u == [t EXCEPT !.cmd = NoCmd]
    IN CASE t.cmd.type = "none" -> t
         [] t.cmd.type = "test" -> scsidev_ready(u, ok)
         [] OTHER -> int13_command_close(u, ok)

\* READ CAPACITY (10) of a large drive is followed by READ CAPACITY (16).
scsicmd_read_capacity_done(s, ok, nomem) ==
    LET t == [s EXCEPT !.cmd.type = "capacity16"] IN
    IF ~ok THEN scsicmd_close(s, FALSE)
    ELSE IF s.cmd.type = "capacity10" /\ s.target.large
    THEN IF CanIssue(t, nomem) THEN iscsi_scsi_command(t) ELSE scsicmd_close(t, FALSE)
    ELSE scsicmd_close([s EXCEPT !.capacity = s.cmd.type], TRUE)

scsicmd_done(s, ok, nomem) ==
    LET t == CloseScsi(s)
        u == IF ok THEN t ELSE [t EXCEPT !.cmd.retries = @ + 1]
    IN IF ~ok /\ s.cmd.retries < SCSICMD_MAX_RETRIES /\ CanIssue(u, nomem) THEN iscsi_scsi_command(u)
       ELSE IF s.cmd.type \in {"capacity10", "capacity16"}
       THEN scsicmd_read_capacity_done(u, ok, nomem)
       ELSE scsicmd_close(u, ok)

scsicmd_response(s, status, nomem) == scsicmd_done(s, status = "good", nomem)

\* intf_restart() of the session's end: it is blocked, the command is told,
\* and whatever the end is then plugged into is unplugged.
RestartData(s, nomem) ==
    LET t == IF s.data THEN scsicmd_done([s EXCEPT !.blocked = TRUE], TRUE, nomem) ELSE s
    IN [t EXCEPT !.data = FALSE, !.blocked = FALSE]

\* rsp: "good", "bad" or, when the status came with the data, "none"
iscsi_scsi_done_Unplugs(s, rsp, nomem) ==
    LET t == [Asserted(s, s.tx = "IDLE") EXCEPT !.command = "none"]
        u == IF rsp # "none" /\ t.data THEN scsicmd_response(t, rsp, nomem) ELSE t
    IN IF u.itt = s.itt THEN RestartData(u, nomem) ELSE [u EXCEPT !.data = FALSE]
iscsi_scsi_done(s, rsp, nomem) ==
    LET t == [Asserted(s, s.tx = "IDLE") EXCEPT !.command = "none"]
        u == IF rsp # "none" /\ t.data THEN scsicmd_response(t, rsp, nomem) ELSE t
    IN IF u.itt = s.itt THEN RestartData(u, nomem) ELSE u

\* scsidev_command() creates the command and issues it.
scsidev_command(s, type, nomem) ==
    LET t == [s EXCEPT !.cmd = [type |-> type, retries |-> 0]]
    IN IF CanIssue(t, nomem) THEN iscsi_scsi_command(t) ELSE scsicmd_close(t, FALSE)

scsidev_step(s, nomem) ==
    IF s.tested \/ ~s.control \/ ~iscsi_scsi_window(s) THEN s
    ELSE scsidev_command([s EXCEPT !.tested = TRUE], "test", nomem)

-----------------------------------------------------------------------------
\* Transmission engine: "room" more segments fit into TCP's window.  A PDU is
\* in the stream when its last segment is.

TxLength(s) ==
    CASE s.tx = "BHS" -> 1 [] s.tx = "AHS" -> 0 [] s.tx = "DATA" -> s.txpdu.len
TxNext(s) == CASE s.tx = "BHS" -> "AHS" [] s.tx = "AHS" -> "DATA" [] s.tx = "DATA" -> "IDLE"

iscsi_tx(s) ==
    LET t == [s EXCEPT !.tx = TxNext(s)]
        login == s.txpdu.op = "login"
        whole == IF login THEN [s.txpdu EXCEPT !.arg = s.strings] ELSE s.txpdu
    IN IF s.tx # "DATA" THEN t
       ELSE iscsi_tx_done([Asserted(t, login => s.strings = s.txpdu.arg)
                              EXCEPT !.up = Append(@, whole)])

RECURSIVE iscsi_tx_step(_, _, _)
iscsi_tx_step(s, room, fault) ==
    IF s.tx = "IDLE" \/ (TxLength(s) > 0 /\ ~s.win) THEN [s EXCEPT !.process = FALSE]
    ELSE IF TxLength(s) = 0 THEN iscsi_tx_step(iscsi_tx(s), room, fault)
    ELSE IF fault THEN iscsi_close(s)
    ELSE iscsi_tx_step(iscsi_tx([s EXCEPT !.win = room > 1]), room - 1, fault)

-----------------------------------------------------------------------------
\* Reception.  A handler returns the state and whether it succeeded.

Ok(s) == [s |-> s, ok |-> TRUE]
Failed(s) == [s |-> s, ok |-> FALSE]

iscsi_handle_strings(s, key, nomem) ==
    CASE key \in {"none", "address"} -> Ok(s)
      [] key = "auth" -> Ok([s EXCEPT !.strings = @ \cup {"CHAP_ALGORITHM"},
                                      !.auth = @ \cup {"FORWARD_REQUIRED"}])
      [] key = "challenge" /\ ~nomem ->
            Ok([s EXCEPT !.strings = @ \cup {"CHAP_RESPONSE"} \cup
                                     IF s.creds = "mutual" THEN {"CHAP_CHALLENGE"} ELSE {}])
      [] key = "proof" /\ ~nomem -> Ok([s EXCEPT !.auth = @ \cup {"REVERSE_OK"}])
      [] OTHER -> Failed(s)

iscsi_rx_login_response(s, nomem) ==
    LET r == iscsi_handle_strings(s, s.rxpdu.arg.key, nomem)
        next == s.rxpdu.arg.next
        t == IF next = "stay" THEN r.s
             ELSE [r.s EXCEPT !.phase = next,
                              !.strings = IF next = "operational" THEN {"OPERATIONAL"} ELSE {}]
    IN IF ~r.ok \/ next = "fail" THEN Failed(s)
       ELSE IF next = "redirect"
       THEN IF nomem THEN Failed(iscsi_close_connection(s))
            ELSE Ok(iscsi_open_connection(iscsi_close_connection(r.s)))
       ELSE IF t.phase # "full" THEN Ok(iscsi_start_login(t))
       ELSE IF "REVERSE_REQUIRED" \in t.auth /\ "REVERSE_OK" \notin t.auth THEN Failed(t)
       ELSE Ok(scsidev_step(t, nomem))

\* Data-in PDUs of READ CAPACITY have one unit.
data_in_len(s) == IF s.command = "read" THEN DriveLength ELSE 1
iscsi_rx_data_in(s, frag, remaining, nomem) ==
    LET offset == s.rxpdu.off + s.rx_offset
        end == offset + Len(frag)
        t == [Asserted(s, s.command \in {"read", "capacity10", "capacity16"}
                          /\ end <= data_in_len(s))
                EXCEPT !.buffer = [b \in Blocks |-> IF b \in offset..(end - 1) /\ s.command = "read"
                                                   THEN frag[b - offset + 1].val ELSE @[b]]]
    IN IF remaining > 0 \/ ~s.rxpdu.arg THEN t
       ELSE iscsi_scsi_done(Asserted(t, end = data_in_len(s)), "none", nomem)

iscsi_rx_r2t(s) ==
    iscsi_start_data_out([s EXCEPT !.transfer = [off |-> s.rxpdu.off, len |-> s.rxpdu.arg]], 0)

iscsi_rx_scsi_response(s, nomem) ==
    IF s.rxpdu.arg = "fail" THEN Failed(s) ELSE Ok(iscsi_scsi_done(s, s.rxpdu.arg, nomem))

iscsi_rx_nop_in(s) == IF s.rxpdu.arg = "reserved" THEN Ok(s) ELSE Failed(s)

\* Login and SCSI responses are buffered, and handled when complete.
CanBuffer(s, nomem) == ~nomem \/ s.rx_offset > 0 \/ s.rxpdu.len = 0
iscsi_rx_data(s, frag, remaining, nomem) ==
    LET buffered == s.rxpdu.op \in {"login_response", "scsi_response"} IN
    IF buffered /\ ~CanBuffer(s, nomem) THEN Failed(s)
    ELSE IF buffered /\ remaining > 0 THEN Ok(s)
    ELSE
    CASE s.rxpdu.op = "login_response" -> iscsi_rx_login_response(s, nomem)
      [] s.rxpdu.op = "scsi_response" -> iscsi_rx_scsi_response(s, nomem)
      [] s.rxpdu.op = "data_in" -> Ok(iscsi_rx_data_in(s, frag, remaining, nomem))
      [] s.rxpdu.op = "r2t" -> Ok(iscsi_rx_r2t(s))
      [] s.rxpdu.op = "nop_in" -> iscsi_rx_nop_in(s)

RxLength(s) ==
    CASE s.rx = "BHS" -> 1 [] s.rx = "AHS" -> 0
      [] s.rx = "DATA" -> s.rxpdu.len [] s.rx = "DATA_PADDING" -> s.rxpdu.pad
RxNext(s) ==
    CASE s.rx = "BHS" -> "AHS" [] s.rx = "AHS" -> "DATA"
      [] s.rx = "DATA" -> "DATA_PADDING" [] s.rx = "DATA_PADDING" -> "BHS"

\* What is received in a state is what the sender meant for it.
InStep(s, frag) ==
    \A i \in DOMAIN frag :
        frag[i].u = CASE s.rx = "BHS" -> "bhs" [] s.rx = "DATA" -> "data" [] OTHER -> "pad"

iscsi_rx(s, frag, remaining, nomem) ==
    LET t == Asserted(s, InStep(s, frag)) IN
    CASE s.rx = "BHS" /\ frag # <<>> /\ t.asserts -> Ok([t EXCEPT !.rxpdu = frag[1].val])
      [] s.rx = "DATA" /\ t.asserts -> iscsi_rx_data(t, frag, remaining, nomem)
      [] OTHER -> Ok(t)

FragLength_Whole(s, iobuf) == IF RxLength(s) > Len(iobuf) THEN Len(iobuf) ELSE RxLength(s)
\* An unsigned difference below zero is larger than any buffer.
FragLength(s, iobuf) ==
    IF s.rx_offset > RxLength(s) \/ RxLength(s) - s.rx_offset > Len(iobuf) THEN Len(iobuf)
    ELSE RxLength(s) - s.rx_offset

RECURSIVE iscsi_socket_deliver(_, _, _)
iscsi_socket_deliver(s, iobuf, nomem) ==
    LET n == FragLength(s, iobuf)
        r == iscsi_rx(s, SubSeq(iobuf, 1, n), RxLength(s) - s.rx_offset - n, nomem)
        t == [r.s EXCEPT !.rx_offset = @ + n]
    IN IF ~r.ok THEN iscsi_close(r.s)
       ELSE IF t.rx_offset # RxLength(s) THEN t
       ELSE iscsi_socket_deliver([t EXCEPT !.rx = RxNext(s), !.rx_offset = 0],
                                 SubSeq(iobuf, n + 1, Len(iobuf)), nomem)

-----------------------------------------------------------------------------
\* The target answers the requests in order, and conforms to the protocol: it
\* sends a status once it has all the data it asked for.

Login(key, next) ==
    Pdu("login_response", [key |-> key, next |-> next], 0,
        CASE key = "none" -> 0 [] key = "address" -> 2 [] OTHER -> 1, IF key = "none" THEN 0 ELSE 1)
Response(status) ==
    Pdu("scsi_response", status, 0, IF status = "bad" THEN 1 ELSE 0, IF status = "bad" THEN 1 ELSE 0)
DataIn(off, len, status) == Pdu("data_in", status, off, len, 0)
R2T(off, len) == Pdu("r2t", len, off, 0, 0)

LoginAnswers(s, strings) ==
    {Login("none", "fail")}
    \cup {Login("address", "redirect") : i \in {j \in {1} : s.target.redirects < MaxRedirects}}
    \cup (IF "OPERATIONAL" \in strings THEN {Login("none", "full")} ELSE {})
    \cup (IF "SECURITY" \in strings THEN {Login("none", "operational")} ELSE {})
    \cup (IF "SECURITY" \in strings /\ s.creds # "none" THEN {Login("auth", "stay")} ELSE {})
    \cup (IF "CHAP_ALGORITHM" \in strings THEN {Login("challenge", "stay")} ELSE {})
    \cup (IF "CHAP_RESPONSE" \in strings THEN {Login("none", "operational")} ELSE {})
    \cup (IF "CHAP_CHALLENGE" \in strings
          THEN {Login("proof", "operational"), Login("wrong", "operational")} ELSE {})

CommandAnswers(s, type) ==
    {<<Response("bad")>>, <<Response("fail")>>} \cup
    CASE type = "test" -> {<<Response("good")>>}
      [] type \in {"capacity10", "capacity16"} ->
            {<<DataIn(0, 1, FALSE), Response("good")>>} \cup
            (IF type = "capacity10" /\ s.target.large /\ ~CapacityInData THEN {}
             ELSE {<<DataIn(0, 1, TRUE)>>})
      [] type = "read" ->
            {<<DataIn(0, DriveLength, TRUE)>>, <<DataIn(0, DriveLength, FALSE), Response("good")>>} \cup
            {<<DataIn(0, n, FALSE), DataIn(n, DriveLength - n, FALSE), Response("good")>> :
                n \in 1..(DriveLength - 1)}
      [] type = "write" -> {<<R2T(0, n)>> : n \in 1..DriveLength}

DataOutAnswers(p) ==
    IF ~p.arg.final THEN {<<>>}
    ELSE IF p.off + 1 < DriveLength THEN {<<R2T(p.off + 1, DriveLength - p.off - 1)>>}
    ELSE {<<Response("good")>>, <<Response("bad")>>}

Answers(s, p) ==
    CASE p.op = "login" -> {<<l>> : l \in LoginAnswers(s, p.arg)}
      [] p.op = "command" -> CommandAnswers(s, p.arg)
      [] p.op = "data_out" -> DataOutAnswers(p)

Replied(s, p, pdus) ==
    [s EXCEPT !.up = Tail(@), !.down = @ \o Stream(pdus),
              !.target.redirects = @ + (IF Contains(pdus, Login("address", "redirect")) THEN 1 ELSE 0),
              !.target.proved = @ \/ Contains(pdus, Login("proof", "operational")),
              !.target.written = CASE p.op = "command" -> {} [] p.op = "data_out" -> @ \cup {p.off}
                                   [] OTHER -> @]

Answer == iscsi.up # <<>> /\ \E pdus \in Answers(iscsi, Head(iscsi.up)) :
                                  iscsi' = Replied(iscsi, Head(iscsi.up), pdus)

\* A NOP-In before the next answer, for information or as a ping
NopIn(ttt) ==
    /\ iscsi.phase = "full" /\ iscsi.socket /\ iscsi.target.nops < MaxNops /\ iscsi.down = <<>>
    /\ iscsi' = [iscsi EXCEPT !.down = @ \o Units(Pdu("nop_in", ttt, 0, 0, 0)),
                             !.target.nops = @ + 1]

-----------------------------------------------------------------------------
\* Steps

\* What is left of a session that is closed: iscsi_free(), scsidev_free()
Freed(s) ==
    [scsidev_close(New("none")) EXCEPT !.int13 = s.int13, !.buffer = s.buffer,
                                       !.capacity = s.capacity, !.asserts = s.asserts,
                                       !.target.large = s.target.large,
                                       !.target.written = s.target.written]
Becomes(s) == iscsi' = IF s.control THEN s ELSE Freed(s)

\* TCP is connected, or its window opens: iscsi_tx_resume().
WindowChanged ==
    /\ iscsi.socket /\ ~iscsi.win
    /\ iscsi' = [iscsi EXCEPT !.connected = TRUE, !.win = TRUE, !.process = TRUE]

TxStep(room, fault) == iscsi.process /\ Becomes(iscsi_tx_step(iscsi, room, fault))

\* A redirection arrives whole, or its header alone, unless SplitRedirect.
Redirecting(pdu) == pdu.op = "login_response" /\ pdu.arg.next = "redirect"
Delivered(n) ==
    \/ SplitRedirect \/ n = Len(iscsi.down)
    \/ (iscsi.rx # "BHS" => ~Redirecting(iscsi.rxpdu)) /\
       \A i \in 1..(n - 1) : ~(iscsi.down[i].u = "bhs" /\ Redirecting(iscsi.down[i].val))
SocketDeliver(n, nomem) ==
    /\ n \in DOMAIN iscsi.down /\ Delivered(n)
    /\ Becomes(iscsi_socket_deliver([iscsi EXCEPT !.down = SubSeq(@, n + 1, Len(@))],
                                    SubSeq(iscsi.down, 1, n), nomem))

\* The target, the network or the user closes.
Close == iscsi.control /\ Becomes(iscsi_close(iscsi))

DeviceProcess(nomem) ==
    iscsi.step /\ Becomes(scsidev_step([iscsi EXCEPT !.step = FALSE], nomem))

\* INT 13 has one command at a time, and waits for the window before it.
int13_rw(kind, nomem) ==
    /\ scsidev_window(iscsi) /\ iscsi.int13.rc # "busy" /\ iscsi.int13.count < MaxCommands
    /\ Becomes(scsidev_command(
                   [iscsi EXCEPT !.int13 = [kind |-> kind, rc |-> "busy", count |-> @.count + 1],
                                 !.buffer = Nowhere],
                   IF kind = "capacity" THEN "capacity10" ELSE kind, nomem))
int13_command_expired ==
    iscsi.int13.rc = "busy" /\ Becomes(scsicmd_close(iscsi, FALSE))

-----------------------------------------------------------------------------
\* The size of the drive and the credentials do not interact: a large drive is
\* tried with no credentials only.
IscsiInit ==
    \E creds \in Credentials, large \in BOOLEAN :
        /\ large => creds = "none"
        /\ iscsi = iscsi_open_connection([New(creds) EXCEPT !.target.large = large])

IscsiNext ==
    \/ WindowChanged \/ Answer \/ Close \/ int13_command_expired
    \/ \E room \in 1..5, fault \in BOOLEAN : TxStep(room, fault)
    \/ \E n \in DOMAIN iscsi.down, nomem \in BOOLEAN : SocketDeliver(n, nomem)
    \/ \E ttt \in {"reserved", "ping"} : NopIn(ttt)
    \/ \E nomem \in BOOLEAN : DeviceProcess(nomem)
    \/ \E kind \in {"capacity", "read", "write"}, nomem \in BOOLEAN : int13_rw(kind, nomem)

\* Weak fairness of the scheduler, the network and the target together, with
\* the condition under which they have something to do spelled out.
Working ==
    iscsi.process \/ iscsi.up # <<>> \/ iscsi.down # <<>> \/ (iscsi.socket /\ ~iscsi.win)
Work ==
    \/ WindowChanged \/ Answer
    \/ \E room \in 1..5 : TxStep(room, FALSE)
    \/ \E n \in DOMAIN iscsi.down : SocketDeliver(n, FALSE)
IscsiFairness == []<>~Working \/ []<><<Work>>_iscsi

IscsiSpec == IscsiInit /\ [][IscsiNext]_iscsi /\ IscsiFairness

-----------------------------------------------------------------------------
\* The assertions of iscsi.c hold and both streams stay in step: no PDU is
\* started or completed while another is being sent, the strings of a login
\* request have the length that its header announced, data is for the command
\* it is stored for, and the receiver takes each part of a PDU for what it is,
\* however the stream is cut and whenever the window closes.  The transmission
\* process is scheduled, or the window will, as long as there is a PDU to send.
EnginesInStep ==
    /\ iscsi.asserts
    /\ iscsi.socket /\ iscsi.tx # "IDLE" => iscsi.process \/ ~iscsi.win

\* A SCSI command that is not closed is the one the session works on, and both
\* ends of the interface between them are plugged: its completion can reach
\* it ("Close SCSI command, if this is still the same command",
\* iscsi_scsi_done()), also when its response made it issue another.
CommandsCarried ==
    iscsi.cmd.type # "none" => iscsi.command = iscsi.cmd.type /\ iscsi.data /\ iscsi.scsi

\* A command that succeeds has read or written every block at its place, or
\* found the capacity of the drive with the command that can tell it, although
\* the data came in pieces or was asked for in pieces, was sent again after a
\* failure, and the window closed in between; and nothing was read from a
\* target that had to prove who it is and has not, on this connection.
DriveDataWhole ==
    /\ iscsi.int13.rc = "ok" =>
          CASE iscsi.int13.kind = "read" -> \A b \in Blocks : iscsi.buffer[b] = b
            [] iscsi.int13.kind = "write" -> iscsi.target.written = Blocks
            [] iscsi.int13.kind = "capacity" ->
                  iscsi.capacity = IF iscsi.target.large THEN "capacity16" ELSE "capacity10"
    /\ iscsi.cmd.type # "none" /\ iscsi.creds = "mutual" => iscsi.target.proved

\* Nothing to wait for: the session is closed, or has carried out what it was
\* asked for.
SessionIdle == ~iscsi.control \/ (iscsi.ready /\ iscsi.int13.rc # "busy")
=============================================================================
