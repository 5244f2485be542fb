-------------------------------- MODULE Http --------------------------------
(***************************************************************************)
(* An HTTP request (net/tcp/httpcore.c) over a TCP connection: a download, *)
(* or a drive whose blocks are read by partial requests that reuse the     *)
(* connection, with authentication, Retry-After, redirection, chunked      *)
(* bodies and connections that the server keeps alive or closes.           *)
(*                                                                         *)
(* What the server sends is a sequence of symbols <<kind, value, request>>:*)
(* a line, or one unit of data.  The TCP stream arrives in buffers of any  *)
(* number of symbols.  The line buffer, the text of the request and the    *)
(* recipient's xfer_seek() are left out.                                   *)
(*                                                                         *)
(* Everything is done in turn by the processes of the run queue: the       *)
(* network ("net"), the retry timers ("retry") and http_step() ("http").   *)
(* The recipient, which calls step(), acts between the turns.              *)
(*                                                                         *)
(* A definition Name_Variant before Name is a plausible mistake in it.     *)
(***************************************************************************)
EXTENDS Integers, Sequences, FiniteSets, SequencesExt

CONSTANTS
    FileLength,     \* units of the file, and blocks of the drive
    MaxRefusals,    \* bound: requests answered with 503 Service Unavailable
    MaxReads,       \* bound: commands for the drive
    EarlyRefusals   \* whether the size of the drive may be refused before the
                    \* first command asks for it

ASSUME HttpConstants ==
    /\ FileLength \in Nat \ {0} /\ MaxRefusals \in Nat /\ MaxReads \in Nat
    /\ EarlyRefusals \in BOOLEAN

VARIABLES
    http,       \* struct http_request
    wire,       \* what the server has sent and the client has not received
    fin,        \* whether the server closes the connection after that
    site        \* the server: the authentication it asks for, its refusals
                \* and the requests it has had, and the commands for the drive

httpVars == <<http, wire, fin, site>>

File == [i \in 1..FileLength |-> i]

\* kind: what the data transfer interface is plugged into.  rc: "open" until
\* that interface is shut down.  partial: the status of the last command for
\* the drive, "none" before the first, "waiting" while it is attached.  socket:
\* "none" when unplugged, "opening" until TCP has a window, "up", and "gone"
\* when the connection was closed at the far end and is still plugged in.
\* got: the data in rx_buffer, or delivered to the recipient.  timer: "off",
\* "now" for a timer of no ticks, or "later".  run_queue: the processes.
http_open_filter(kind) ==
    [kind |-> kind, rc |-> "open", partial |-> "none", socket |-> "opening",
     flags |-> {"TX_PENDING"}, partial_start |-> 0, partial_len |-> 0, rx_buffer |-> FALSE,
     timer |-> "off", retry_delay |-> "none", rx_state |-> "RESPONSE", code |-> 0, rx_len |-> 0,
     remaining |-> 0, chunked |-> FALSE, chunk_remaining |-> 0, got |-> <<>>,
     run_queue |-> <<"net", "retry", "http">>]

\* The receive states in which the server must not close the connection
BeforeData == {"RESPONSE", "HEADER", "CHUNK_LEN"}

-----------------------------------------------------------------------------
(* Handlers, as operators on the request.                                  *)

http_process_del(h) == [h EXCEPT !.run_queue = Remove(@, "http")]
http_process_add(h) ==
    [h EXCEPT !.run_queue = IF Contains(@, "http") THEN @ ELSE Append(@, "http")]

Finished(h, rc) == [h EXCEPT !.partial = IF @ = "waiting" THEN rc ELSE @]

http_close(h, rc) ==
    [http_process_del(Finished(h, rc)) EXCEPT
        !.rx_state = "DEAD", !.flags = @ \ {"CLIENT_KEEPALIVE"}, !.socket = "none", !.rc = IF @ = "open" THEN rc ELSE @]

\* The end of a response: the request is over, or the connection is kept for
\* the next one, or opened again by the retry timer.
KeptOpen_Untimed(h) ==
    LET alive == "SERVER_KEEPALIVE" \in h.flags IN
    [h EXCEPT !.socket = IF alive THEN @ ELSE "none",
              !.flags = IF alive THEN @ ELSE @ \cup {"REOPEN_SOCKET"},
              !.timer = IF alive THEN @ ELSE IF h.retry_delay = "none" THEN "now" ELSE "later",
              !.retry_delay = "none"]

KeptOpen(h) ==
    LET alive == "SERVER_KEEPALIVE" \in h.flags IN
    [h EXCEPT !.socket = IF alive THEN @ ELSE "none",
              !.flags = IF alive THEN @ ELSE @ \cup {"REOPEN_SOCKET"},
              !.timer = IF h.retry_delay = "none" THEN "now" ELSE "later",
              !.retry_delay = "none"]

http_done_AnyLength(h) ==
    IF h.rx_state \in BeforeData \/ h.chunked THEN http_close(h, "error")
    ELSE LET again == "TRY_AGAIN" \in h.flags
             i == [(IF again THEN h ELSE Finished(h, "ok")) EXCEPT
                      !.rx_state = "IDLE", !.rx_len = 0, !.remaining = 0]
         IN IF again \/ "CLIENT_KEEPALIVE" \in h.flags THEN KeptOpen(i)
            ELSE http_close(i, "ok")

http_done(h) ==
    IF h.rx_state \in BeforeData \/ h.chunked \/ h.remaining # 0 THEN http_close(h, "error")
    ELSE LET again == "TRY_AGAIN" \in h.flags
             i == [(IF again THEN h ELSE Finished(h, "ok")) EXCEPT
                      !.rx_state = "IDLE", !.rx_len = 0]
         IN IF again \/ "CLIENT_KEEPALIVE" \in h.flags THEN KeptOpen(i)
            ELSE http_close(i, "ok")

http_response_to_rc(code) == IF code \in {200, 206, 301, 302, 303} THEN "ok" ELSE "error"

http_rx_response(h, line) ==
    IF line[1] # "status" THEN http_close(h, "error")
    ELSE [h EXCEPT !.code = line[2],
                   !.rx_state = IF "HEAD_ONLY" \in h.flags THEN "TRAILER" ELSE "HEADER"]

http_rx_content_length(h, len) ==
    IF h.remaining # 0 /\ h.remaining # len THEN http_close(h, "error")
    ELSE IF "HEAD_ONLY" \in h.flags THEN h
    ELSE [h EXCEPT !.remaining = len]

\* One retry for each scheme, when the URI has a user name
http_rx_www_authenticate(h, scheme) ==
    IF h.code = 401 /\ scheme \in {"BASIC_AUTH", "DIGEST_AUTH"} \ h.flags
    THEN [h EXCEPT !.flags = @ \cup {"TRY_AGAIN", scheme}] ELSE h

http_rx_retry_after(h) ==
    IF h.code = 503
    THEN [h EXCEPT !.flags = @ \cup {"TRY_AGAIN"}, !.retry_delay = "some"]
    ELSE h

\* The empty line that ends the headers, or the trailer.
EndOfHeaders(h) ==
    LET again == "TRY_AGAIN" \in h.flags IN
    IF ~again /\ http_response_to_rc(h.code) = "error" THEN http_close(h, "error")
    ELSE IF h.rx_state = "TRAILER" THEN http_done(h)
    ELSE [h EXCEPT !.rx_state = IF h.chunked THEN "CHUNK_LEN" ELSE "DATA",
                   !.remaining = IF h.partial_len # 0 /\ ~again THEN h.partial_len ELSE @]

\* A redirected recipient closes this request and opens another.
http_rx_header(h, line) ==
    CASE line[1] = "blank" -> EndOfHeaders(h)
      [] line[1] = "location" -> http_close(h, "redirect")
      [] line[1] = "length" -> http_rx_content_length(h, line[2])
      [] line[1] = "chunked" -> [h EXCEPT !.chunked = TRUE]
      [] line[1] = "keepalive" -> [h EXCEPT !.flags = @ \cup {"SERVER_KEEPALIVE"}]
      [] line[1] = "auth" -> http_rx_www_authenticate(h, line[2])
      [] line[1] = "retry" -> http_rx_retry_after(h)
      [] OTHER -> http_close(h, "error")

http_rx_chunk_len_NoTrailer(h, line) ==
    CASE line[1] = "blank" -> h
      [] line[1] = "chunk" /\ line[2] = 0 ->
            http_done([h EXCEPT !.chunked = FALSE, !.rx_state = "TRAILER"])
      [] line[1] = "chunk" /\ line[2] # 0 ->
            [h EXCEPT !.chunk_remaining = line[2], !.rx_state = "DATA"]
      [] OTHER -> http_close(h, "error")

http_rx_chunk_len(h, line) ==
    CASE line[1] = "blank" -> h
      [] line[1] = "chunk" /\ line[2] = 0 ->
            [h EXCEPT !.chunked = FALSE, !.rx_state = "TRAILER"]
      [] line[1] = "chunk" /\ line[2] # 0 ->
            [h EXCEPT !.chunk_remaining = line[2], !.rx_state = "DATA"]
      [] OTHER -> http_close(h, "error")

\* The part of the buffer that belongs to the chunk and to the content
DataLen(h, n) ==
    LET c == IF h.chunk_remaining # 0 /\ h.chunk_remaining < n THEN h.chunk_remaining ELSE n
    IN IF h.remaining # 0 /\ h.remaining < c THEN h.remaining ELSE c

\* Discarded, copied to rx_buffer at rx_len, or delivered to the recipient.
Stored(h, data) ==
    IF "TRY_AGAIN" \in h.flags THEN h.got
    ELSE IF ~h.rx_buffer THEN h.got \o data
    ELSE [i \in (h.rx_len + 1)..(h.rx_len + Len(data)) |-> data[i - h.rx_len]] @@ h.got

http_rx_data(h, data) ==
    LET n == Len(data)
        d == [h EXCEPT
                !.got = Stored(h, data), !.rx_len = @ + n,
                !.chunk_remaining = IF @ = 0 THEN 0 ELSE @ - n,
                !.rx_state = IF h.chunk_remaining = n THEN "CHUNK_LEN" ELSE @,
                !.remaining = IF @ = 0 THEN 0 ELSE @ - n]
    IN IF h.remaining = n /\ d.rx_state = "DATA" THEN http_done(d) ELSE d

http_rx_line(h, line) ==
    CASE h.rx_state = "RESPONSE" -> http_rx_response(h, line)
      [] h.rx_state \in {"HEADER", "TRAILER"} -> http_rx_header(h, line)
      [] h.rx_state = "CHUNK_LEN" -> http_rx_chunk_len(h, line)

RECURSIVE http_socket_deliver(_, _)
http_socket_deliver(h, iobuf) ==
    CASE iobuf = <<>> \/ h.rx_state = "DEAD" -> h
      [] iobuf # <<>> /\ h.rx_state = "IDLE" -> http_close(h, "error")
      [] iobuf # <<>> /\ h.rx_state = "DATA" ->
            LET n == DataLen(h, Len(iobuf)) IN
            http_socket_deliver(http_rx_data(h, [i \in 1..n |-> iobuf[i][2]]),
                                SubSeq(iobuf, n + 1, Len(iobuf)))
      [] OTHER -> http_socket_deliver(http_rx_line(h, Head(iobuf)), Tail(iobuf))

-----------------------------------------------------------------------------
(* The server, as the client sees it: it answers the requests on a         *)
(* connection in order and frames what it sends by length, in chunks or by *)
(* closing the connection.  It serves the range it is asked for.           *)

Line(kind, value) == <<<<kind, value>>>>
Bytes(body) == [i \in DOMAIN body |-> <<"byte", body[i]>>]
Chunk(body) == Line("chunk", Len(body)) \o Bytes(body) \o Line("blank", 0)

\* A body in one chunk, and in chunks of one unit
Chunks(body) ==
    {IF body = <<>> THEN <<>> ELSE Chunk(body),
     FlattenSeq([i \in DOMAIN body |-> Chunk(<<body[i]>>)])}

\* A message is its symbols and whether its end is the end of the connection.
Message(status, headers, framing, body) ==
    [symbols |-> Line("status", status) \o headers \o framing \o body, closes |-> FALSE]

Messages(status, headers, body, head) ==
    LET sized == Line("length", Len(body)) \o Line("blank", 0)
        chunked == Line("chunked", 0) \o Line("blank", 0)
    IN IF head THEN {Message(status, headers, f, <<>>) : f \in {sized, chunked}}
       ELSE {Message(status, headers, sized, Bytes(body))}
            \cup {Message(status, headers, chunked, c \o Line("chunk", 0) \o Line("blank", 0))
                    : c \in Chunks(body)}
            \cup {[Message(status, headers, Line("blank", 0), Bytes(body)) EXCEPT !.closes = TRUE]}

\* What is asked for: the file, or the blocks of a range.
Asked(h) == SubSeq(File, h.partial_start + 1,
                   IF h.partial_len = 0 THEN FileLength ELSE h.partial_start + h.partial_len)

Authorisation(h) ==
    CASE "BASIC_AUTH" \in h.flags -> "BASIC_AUTH"
      [] "DIGEST_AUTH" \in h.flags /\ "BASIC_AUTH" \notin h.flags -> "DIGEST_AUTH"
      [] OTHER -> "none"

HttpAnswers(h) ==
    LET keep == {Line("keepalive", 0), <<>>}
        head == "HEAD_ONLY" \in h.flags
        status == IF h.partial_len = 0 THEN 200 ELSE 206
    IN UNION {
        IF site.auth # Authorisation(h) /\ site.auth # "none"
        THEN Messages(401, k \o Line("auth", site.auth), <<0>>, head)
        ELSE Messages(status, k, Asked(h), head)
             \cup {Message(302, k, Line("location", 0) \o Line("blank", 0), <<>>),
                   Message(404, k, Line("length", 0) \o Line("blank", 0), <<>>)}
             \cup (IF /\ site.refusals < MaxRefusals
                      /\ EarlyRefusals \/ h.kind = "download" \/ h.partial = "waiting"
                   THEN UNION {Messages(503, k \o Line("retry", 0), b, head) : b \in {<<>>, <<0>>}}
                   ELSE {})
        : k \in keep}

Tagged(symbols, n) == [i \in DOMAIN symbols |-> symbols[i] \o <<n>>]

-----------------------------------------------------------------------------
(* Actions.                                                                *)

HttpInit ==
    /\ \E kind \in {"download", "drive"} : http = http_open_filter(kind)
    /\ wire = <<>> /\ fin = FALSE
    /\ \E auth \in {"none", "BASIC_AUTH", "DIGEST_AUTH", "NTLM"} :
          site = [auth |-> auth, refusals |-> 0, requests |-> 0, reads |-> 0]

\* The connection ends with the plug that is pulled.
Becomes(h, rest, last) ==
    /\ http' = h
    /\ wire' = IF h.socket = "up" THEN rest ELSE <<>>
    /\ fin' = (h.socket = "up" /\ last)

\* A drive has nowhere to put a file: it is asked for its size only.  An
\* interface that is not plugged in has a window, but takes no data.
Prepared(h) ==
    LET nowhere == h.kind = "drive" /\ h.rc = "open" /\ ~h.rx_buffer IN
    [h EXCEPT !.flags = (IF nowhere THEN @ \cup {"HEAD_ONLY", "CLIENT_KEEPALIVE"} ELSE @)
                            \ {"TX_PENDING"}]

http_step(h) ==
    IF "TX_PENDING" \notin h.flags \/ h.socket = "opening"
    THEN Becomes(h, wire, fin) /\ UNCHANGED site
    ELSE LET p == Prepared(h) IN
         IF h.socket # "up" THEN Becomes(http_close(p, "EPIPE"), <<>>, FALSE) /\ UNCHANGED site
         ELSE \E m \in HttpAnswers(p) :
                 /\ Becomes(p, wire \o Tagged(m.symbols, site.requests + 1), fin \/ m.closes)
                 /\ site' = [site EXCEPT !.requests = @ + 1,
                                         !.refusals = IF m.symbols[1][2] = 503 THEN @ + 1 ELSE @]

\* step(): a permanent process goes to the end of the run queue.
Turn(p) == Head(http.run_queue) = p
Stepped ==
    LET q == http.run_queue IN
    [http EXCEPT !.run_queue = IF q[1] = "http" THEN Tail(q) ELSE Append(Tail(q), q[1])]

HttpStep == Turn("http") /\ http_step(Stepped)

\* TCP is established: xfer_window_changed() on a socket that listens.
HttpConnected ==
    /\ Turn("net") /\ http.socket = "opening"
    /\ LET h == [Stepped EXCEPT !.socket = "up"] IN
       IF http.rc = "open" THEN http_step(h) ELSE Becomes(h, <<>>, FALSE) /\ UNCHANGED site

HttpDeliver(n) ==
    /\ Turn("net") /\ http.rc = "open" /\ http.socket = "up"
    /\ Becomes(http_socket_deliver(Stepped, SubSeq(wire, 1, n)), SubSeq(wire, n + 1, Len(wire)), fin)
    /\ UNCHANGED site

http_socket_close ==
    /\ Turn("net") /\ http.rc = "open" /\ http.socket = "up" /\ wire = <<>> /\ fin
    /\ Becomes(http_done([Stepped EXCEPT !.socket = "gone"]), <<>>, FALSE)
    /\ UNCHANGED site

\* The recipient gives up or fails, the connection is lost or memory is short.
HttpAborted ==
    /\ http.rc = "open"
    /\ Becomes(http_close(http, "error"), <<>>, FALSE)
    /\ UNCHANGED site

\* The retry timer expires; the socket may fail to open.
http_retry ==
    /\ Turn("retry") /\ http.timer # "off"
    /\ LET h == [Stepped EXCEPT !.timer = "off"]
           o == IF "REOPEN_SOCKET" \in h.flags
                THEN [h EXCEPT !.flags = @ \ {"REOPEN_SOCKET"}, !.socket = "opening"] ELSE h
           r == IF "TRY_AGAIN" \in o.flags
                THEN http_process_add([o EXCEPT !.flags = (@ \ {"TRY_AGAIN"}) \cup {"TX_PENDING"},
                                           !.rx_state = "RESPONSE"]) ELSE o
       IN \/ Becomes(r, wire, fin)
          \/ "REOPEN_SOCKET" \in h.flags /\ Becomes(http_close(o, "error"), <<>>, FALSE)
    /\ UNCHANGED site

\* Nothing has arrived for this request, or its timer is not due.
NothingDone ==
    /\ http.rc = "open" \/ http.timer # "off"
    /\ Turn("net") \/ (Turn("retry") /\ http.timer # "now")
    /\ Becomes(Stepped, wire, fin) /\ UNCHANGED site

\* block_read(), and block_read_capacity() with a length of 0.  The drive
\* issues one command at a time, when the request is idle.
http_partial_read(start, len) ==
    /\ http.kind = "drive" /\ http.rc = "open" /\ http.partial # "waiting"
    /\ http.rx_state = "IDLE" /\ site.reads < MaxReads
    /\ http' = [http_process_add(http) EXCEPT
                  !.rx_buffer = (len # 0), !.partial_start = start, !.partial_len = len,
                  !.rx_state = "RESPONSE", !.partial = "waiting", !.got = <<>>,
                  !.flags = {"TX_PENDING", "CLIENT_KEEPALIVE"}
                                \cup IF len = 0 THEN {"HEAD_ONLY"} ELSE {}]
    /\ site' = [site EXCEPT !.reads = @ + 1]
    /\ UNCHANGED <<wire, fin>>

\* The server closes a connection on which it has answered.
ServerCloses ==
    /\ http.socket = "up" /\ wire = <<>> /\ ~fin /\ site.requests > 0
    /\ fin' = TRUE /\ UNCHANGED <<http, wire, site>>

\* The server dies in the middle of a message that says where it ends.
ServerDies ==
    /\ wire # <<>> /\ ~fin
    /\ wire' = <<>> /\ fin' = TRUE /\ UNCHANGED <<http, site>>

HttpNext ==
    \/ HttpStep \/ HttpConnected \/ http_socket_close \/ http_retry \/ NothingDone \/ HttpAborted
    \/ \E n \in DOMAIN wire : HttpDeliver(n)
    \/ \E start \in 0..(FileLength - 1) : \E len \in 0..(FileLength - start) :
          http_partial_read(start, len)
    \/ ServerCloses \/ ServerDies

\* The program keeps stepping, TCP connects or fails and delivers what was sent,
\* timers expire, and a server does not keep a connection open for ever.
HttpFairness ==
    /\ WF_httpVars(HttpStep \/ NothingDone) /\ WF_httpVars(ServerCloses)
    /\ SF_httpVars(HttpConnected \/ http_socket_close \/ \E n \in DOMAIN wire : HttpDeliver(n))
    /\ SF_httpVars(http_retry)

HttpSpec == HttpInit /\ [][HttpNext]_httpVars /\ HttpFairness

-----------------------------------------------------------------------------
(* Properties.                                                             *)

\* A download that http_done() closes with success has delivered the file, and
\* a command for the drive that it completes has the blocks that were asked
\* for, in their places, whatever retries came first and however the server
\* frames what it sends or dies while sending it.
HttpSuccessMeansWhole ==
    /\ http.rc = "ok" => http.got = File
    /\ http.partial = "ok" /\ http.partial_len # 0 => http.got = Asked(http)

\* The client is never out of step with the server on a connection that is
\* used again: when a request is sent nothing of an earlier answer is left to
\* be taken for the answer to it.
AnswersInStep ==
    http.rc = "open" =>
        \A i \in DOMAIN wire : wire[i][3] = site.requests /\ http.rx_state # "IDLE"

\* A drive that is idle has nothing to do until the next command.
Busy ==
    /\ http.rc = "open"
    /\ http.kind = "download" \/ http.rx_state # "IDLE" \/ http.partial = "waiting"

\* A download, and every command for the drive, ends: after each retry, each
\* new connection and each way of closing one something is left to wake it.
HttpEnds == []<>~Busy

\* http_close() "prevents reconnection" (httpcore.c:232): a request that is
\* closed has no connection.
NoReconnection == http.rc # "open" => http.socket = "none"

\* When the server does not keep the connection, http_done() is to "close the
\* socket and mark it as requiring reopening" (httpcore.c:349): a request that
\* waits to be sent and has no connection is so marked, or nothing opens one.
SocketReopened ==
    http.rc = "open" /\ http.socket = "none" /\ "TX_PENDING" \in http.flags
        => "REOPEN_SOCKET" \in http.flags
=============================================================================
