-------------------------------- MODULE Ftp --------------------------------
(***************************************************************************)
(* An FTP download (net/tcp/ftp.c): a control channel, on which commands   *)
(* are answered by lines with a status, and a data channel of its own.     *)
(* Both are TCP connections, so what the server does on one of them may be *)
(* seen before or after what it did earlier on the other.                  *)
(*                                                                         *)
(* A line is its first digit, or 0 when it is not the last line of its     *)
(* reply.  The line buffers and the file size are left out.                *)
(***************************************************************************)
EXTENDS Integers, Sequences, SequencesExt

CONSTANTS
    FtpLength,      \* units of the file
    FtpServerDies   \* whether the server may close the control channel before
                    \* it is told to QUIT

ASSUME FtpConstants == FtpLength \in Nat \ {0} /\ FtpServerDies \in BOOLEAN

VARIABLES
    ftp,        \* struct ftp_request, with the data delivered to its recipient
    control,    \* the control channel: the lines under way, and what follows
    data        \* the data channel: the same, with units of the file

ftpVars == <<ftp, control, data>>

ftp_states ==
    <<"CONNECT", "USER", "PASS", "TYPE", "SIZE", "PASV", "RETR", "WAIT", "QUIT", "DONE">>

Channel(symbols, fin) == [symbols |-> symbols, fin |-> fin]
NoChannel == Channel(<<>>, FALSE)

FtpFile == [i \in 1..FtpLength |-> i]

-----------------------------------------------------------------------------
ftp_done(f, rc) == [f EXCEPT !.rc = IF @ = "open" THEN rc ELSE @, !.data = FALSE]

ftp_next_state(f) ==
    [f EXCEPT !.state = IF @ = "DONE" THEN @
                        ELSE ftp_states[CHOOSE i \in 2..10 : ftp_states[i - 1] = @]]

Success(f, status) == status = 2 \/ (status = 3 /\ f.state = "USER")

\* The request after a reply.  "opens": whether the data channel can be opened.
ftp_reply(f, status, opens) ==
    CASE status \in {0, 1} -> f
      [] status = 5 /\ f.state = "SIZE" -> ftp_next_state(f)
      [] Success(f, status) /\ f.state # "PASV" -> ftp_next_state(f)
      [] Success(f, status) /\ f.state = "PASV" ->
            IF opens THEN ftp_next_state([f EXCEPT !.data = TRUE]) ELSE ftp_done(f, "error")
      [] OTHER -> ftp_done(f, "error")

-----------------------------------------------------------------------------
(* The server: its answers to the command that goes with a state, and what *)
(* it does with the data channel.                                          *)

Replies(state) ==
    CASE state = "USER" -> {<<3>>, <<2>>, <<5>>}
      [] state = "SIZE" -> {<<2>>, <<5>>}
      [] state \in {"PASS", "TYPE", "PASV"} -> {<<2>>, <<0, 2>>, <<5>>}
      [] OTHER -> {<<2>>}

Answered(lines, fin) == control' = Channel(Tail(control.symbols) \o lines, fin)

\* A transfer that is complete, one that is broken off, and one refused
Transfers ==
    \/ Answered(<<1, 2>>, FALSE) /\ data' = Channel(FtpFile, TRUE)
    \/ Answered(<<1, 4>>, FALSE) /\ \E sent \in Prefixes(FtpFile) : data' = Channel(sent, TRUE)
    \/ Answered(<<5>>, FALSE) /\ data' = Channel(<<>>, TRUE)

\* A command is sent when a state is entered that has one.
Commanded(f, g) ==
    IF g.state = f.state \/ g.state \in {"WAIT", "DONE"} \/ g.rc # "open"
    THEN Answered(<<>>, control.fin) /\ UNCHANGED data
    ELSE IF g.state = "RETR" THEN Transfers
    ELSE /\ \E lines \in Replies(g.state) : Answered(lines, g.state = "QUIT")
         /\ UNCHANGED data

-----------------------------------------------------------------------------
ftp_open == [rc |-> "open", state |-> "CONNECT", data |-> FALSE, got |-> <<>>]

FtpInit ==
    /\ ftp = ftp_open /\ data = NoChannel
    /\ control \in {Channel(<<2>>, FALSE), Channel(<<0, 2>>, FALSE)}

ftp_control_deliver ==
    /\ ftp.rc = "open" /\ control.symbols # <<>>
    /\ \E opens \in BOOLEAN : ftp' = ftp_reply(ftp, Head(control.symbols), opens)
    /\ Commanded(ftp, ftp')

\* Data goes through to the recipient.
FtpDataDeliver(n) ==
    /\ ftp.rc = "open" /\ ftp.data /\ n \in DOMAIN data.symbols
    /\ ftp' = [ftp EXCEPT !.got = @ \o SubSeq(data.symbols, 1, n)]
    /\ data' = [data EXCEPT !.symbols = SubSeq(@, n + 1, Len(@))]
    /\ UNCHANGED control

\* The end of the data is counted like a reply: QUIT is sent after both.
ftp_data_closed ==
    /\ ftp.rc = "open" /\ ftp.data /\ data = Channel(<<>>, TRUE)
    /\ ftp' = [ftp_next_state(ftp) EXCEPT !.data = FALSE]
    /\ data' = NoChannel
    /\ control' = IF ftp'.state = "QUIT" THEN Channel(control.symbols \o <<2>>, TRUE) ELSE control

FtpControlClosed ==
    /\ ftp.rc = "open" /\ control = Channel(<<>>, TRUE)
    /\ ftp' = ftp_done(ftp, "ok")
    /\ UNCHANGED <<control, data>>

\* A channel is lost, or the recipient gives up.
FtpAborted ==
    /\ ftp.rc = "open"
    /\ ftp' = ftp_done(ftp, "error")
    /\ UNCHANGED <<control, data>>

\* The server stops, and its system closes its connections.
ServerStops ==
    /\ ftp.rc = "open" /\ control # Channel(<<>>, TRUE)
    /\ FtpServerDies \/ ftp.state \in {"QUIT", "DONE"}
    /\ control' = Channel(<<>>, TRUE)
    /\ \E n \in 0..Len(data.symbols) : data' = Channel(SubSeq(data.symbols, 1, n), TRUE)
    /\ UNCHANGED ftp

FtpNext ==
    \/ ftp_control_deliver \/ ftp_data_closed \/ FtpControlClosed \/ FtpAborted \/ ServerStops
    \/ \E n \in DOMAIN data.symbols : FtpDataDeliver(n)

\* The network stack is polled, and TCP delivers what was sent.
FtpFairness ==
    /\ WF_ftpVars(ftp_control_deliver) /\ WF_ftpVars(ftp_data_closed)
    /\ WF_ftpVars(FtpControlClosed)
    /\ WF_ftpVars(\E n \in DOMAIN data.symbols : FtpDataDeliver(n))

FtpSpec == FtpInit /\ [][FtpNext]_ftpVars /\ FtpFairness

-----------------------------------------------------------------------------
(* Properties.                                                             *)

\* A download that ends with success has the whole file, in whatever order the
\* end of the data and the reply to RETR are seen, and also when the server
\* breaks off the transfer.
FtpSuccessMeansWhole == ftp.rc = "ok" => ftp.got = FtpFile

\* A download ends, whichever of the channels is ahead of the other.
FtpEnds == []<>(ftp.rc # "open")

\* "a successful FTP session must pass through each of these states in order"
\* (ftp.c:49): a request that succeeds has been in the last of them.
SuccessMeansDone == ftp.rc = "ok" => ftp.state = "DONE"
=============================================================================
