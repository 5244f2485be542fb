-------------------------------- MODULE Dhcp --------------------------------
(***************************************************************************)
(* The DHCP client (net/udp/dhcp.c): a DHCP session (discovery, request,   *)
(* ProxyDHCP) and the PXE Boot Server Discovery session that may follow    *)
(* it, with the retry timer of each in ticks.  Servers may answer every    *)
(* request they could have seen, late and more than once, and a DHCP       *)
(* server may refuse the address it offered.                               *)
(***************************************************************************)
EXTENDS Integers, Sequences

CONSTANTS
    TICKS_PER_SEC,
    Offers,         \* what DHCP, BOOTP and ProxyDHCP servers offer (OfferType)
    BootServers,    \* the PXE boot servers, whether or not in the list
    ServerList,     \* option PXE_BOOT_SERVERS: the known boot servers, in order
    NoAddr,         \* 0.0.0.0
    Broadcast, Multicast,
    NoPacket,
    Xids,           \* bound: the transaction IDs 1..Xids
    MaxReplies      \* bound: how many packets reach the client

\* The boot servers of the list
Known == {ServerList[i] : i \in DOMAIN ServerList}

OfferType(o) ==
    /\ DOMAIN o = {"server", "ip", "vci", "pxe", "priority", "nopxe", "bootp"}
    /\ o.vci \in BOOLEAN /\ o.pxe \in BOOLEAN /\ o.nopxe \in BOOLEAN /\ o.bootp \in BOOLEAN
    /\ o.priority \in -128..127

ASSUME DhcpAssumption ==
    /\ TICKS_PER_SEC \in Nat \ {0} /\ Xids \in Nat \ {0} /\ MaxReplies \in Nat
    /\ \A o \in Offers : OfferType(o)
    /\ ServerList \in Seq(BootServers)
    /\ {NoAddr, Broadcast, Multicast} \cap BootServers = {}

VARIABLES
    dhcp,           \* struct dhcp_session
    dhcp_last_xid,
    settings,       \* the settings blocks registered for the network device
    seen,           \* the requests servers may have seen
    replies         \* how many packets have reached the client

dhcpVars == <<dhcp, dhcp_last_xid, settings, seen, replies>>

-----------------------------------------------------------------------------
\* The timeouts of include/ipxe/dhcp.h and of the retry timer

DHCP_MIN_TIMEOUT == 1 * TICKS_PER_SEC
DHCP_DISCOVER_MIN_TIMEOUT == 4 * TICKS_PER_SEC
DHCP_MAX_TIMEOUT == 49 * TICKS_PER_SEC
PROXYDHCP_MAX_TIMEOUT_Minute == 60 * TICKS_PER_SEC
PROXYDHCP_MAX_TIMEOUT == 16 * TICKS_PER_SEC
PXEBS_MAX_TIMEOUT == 3 * TICKS_PER_SEC

Least(min_timeout) == IF min_timeout < 7 THEN 7 ELSE min_timeout
StateTimeout(state) ==
    Least(CASE state = "discover" -> DHCP_DISCOVER_MIN_TIMEOUT
            [] state = "pxebs" -> DHCP_MIN_TIMEOUT
            [] OTHER -> TICKS_PER_SEC \div 4)

\* The limit that the handlers of a state compare the elapsed time with
Limit(state) == IF state = "pxebs" THEN PXEBS_MAX_TIMEOUT ELSE PROXYDHCP_MAX_TIMEOUT

\* "elapsed" counts from the start of the state; the timer runs from
\* "started" for "timeout" ticks.
dhcp_finished(d, rc) == [d EXCEPT !.timer = FALSE, !.rc = IF @ = "open" THEN rc ELSE @]

dhcp_set_state(d, state) ==
    [d EXCEPT !.state = state, !.elapsed = 0, !.timer = TRUE, !.started = 0, !.timeout = 0]

-----------------------------------------------------------------------------
\* What each state transmits

dhcp_discovery_tx(d) == [type |-> "discover", xid |-> d.xid]
dhcp_request_tx(d) == [type |-> "request", xid |-> d.xid, server |-> d.server, ip |-> d.offer]
dhcp_proxy_tx(d) == [type |-> "proxy", xid |-> d.xid, server |-> d.proxy_server]
dhcp_pxebs_tx(d) == [type |-> "pxebs", xid |-> d.xid, dest |-> d.attempt[1]]

\* The timer is started first; a request may be lost on its way.
dhcp_tx(d) ==
    [d EXCEPT !.timer = TRUE, !.started = d.elapsed,
              !.timeout = IF @ < StateTimeout(d.state) THEN StateTimeout(d.state) ELSE @,
              !.tx = CASE d.state = "discover" -> {dhcp_discovery_tx(d)}
                       [] d.state = "request" -> {dhcp_request_tx(d)}
                       [] d.state = "proxy" -> {dhcp_proxy_tx(d)}
                       [] d.state = "pxebs" -> {dhcp_pxebs_tx(d)}]

dhcp_discovery_expired(d) ==
    IF d.offer # NoAddr /\ d.elapsed > PROXYDHCP_MAX_TIMEOUT
    THEN dhcp_set_state(d, "request") ELSE dhcp_tx(d)

dhcp_proxy_expired(d) ==
    IF d.elapsed > PROXYDHCP_MAX_TIMEOUT THEN dhcp_finished(d, "ok") ELSE dhcp_tx(d)

dhcp_pxebs_expired_GivesUp(d) ==
    IF d.elapsed > PXEBS_MAX_TIMEOUT THEN dhcp_finished(d, "unserved") ELSE dhcp_tx(d)
dhcp_pxebs_expired(d) ==
    LET next == [d EXCEPT !.attempt = Tail(@)] IN
    IF d.elapsed <= PXEBS_MAX_TIMEOUT THEN dhcp_tx(d)
    ELSE IF next.attempt # <<>> THEN dhcp_set_state(next, "pxebs")
    ELSE dhcp_finished(next, "unserved")

\* timer_expired() of retry.c backs off the timeout and calls this.
DhcpExpired(d) ==
    LET fail == 2 * d.timeout > DHCP_MAX_TIMEOUT
        late == [d EXCEPT !.timer = FALSE,
                          !.timeout = IF fail THEN DHCP_MAX_TIMEOUT ELSE 2 * @]
    IN IF fail THEN dhcp_finished(late, "timedout")
       ELSE CASE d.state = "discover" -> dhcp_discovery_expired(late)
              [] d.state = "request" -> dhcp_tx(late)
              [] d.state = "proxy" -> dhcp_proxy_expired(late)
              [] d.state = "pxebs" -> dhcp_pxebs_expired(late)

-----------------------------------------------------------------------------
\* Packets received: type, xid, server (the server ID option), src, port, ip
\* (yiaddr), vci (option 60 is "PXEClient"), pxe (has PXE options), priority,
\* nopxe and menu (the boot menu item).

Selected(d, m) ==
    IF m.ip # NoAddr /\ m.port = "BOOTPS" /\ m.type \in {"OFFER", "BOOTP"}
       /\ m.priority >= d.priority
    THEN [d EXCEPT !.offer = m.ip, !.server = m.server, !.priority = m.priority,
                   !.no_pxedhcp = m.nopxe]
    ELSE d

ProxySelected(d, m) ==
    IF m.vci /\ m.priority >= d.proxy_priority
    THEN [d EXCEPT !.proxy_server = m.server, !.proxy_offer = m, !.proxy_priority = m.priority]
    ELSE d

\* Offers without option 60 are ignored until the timeout is 8 seconds.
dhcp_discovery_rx(d, m) ==
    LET e == ProxySelected(Selected(d, m), m) IN
    IF ~m.vci /\ d.timeout \div TICKS_PER_SEC < 8 THEN d
    ELSE IF e.offer # NoAddr
            /\ (e.no_pxedhcp \/ e.proxy_offer # NoPacket \/ e.elapsed > PROXYDHCP_MAX_TIMEOUT)
    THEN dhcp_set_state(e, "request")
    ELSE e

\* The packet is the answer wanted in the request state.
Acknowledges(d, m) ==
    /\ m.port = "BOOTPS" /\ m.server = d.server
    /\ m.type \in {"ACK", "BOOTP"} /\ m.ip = d.offer
Refuses(d, m) == m.port = "BOOTPS" /\ m.server = d.server /\ m.type = "NAK"

UseProxy(d) == d.proxy_offer # NoPacket /\ ~d.no_pxedhcp

\* fail: the settings block whose registration fails, if any; the handler
\* returns at the first failure.
dhcp_request_rx(d, m, fail, xid) ==
    LET e == [d EXCEPT !.local = m.ip] IN
    IF Refuses(d, m) THEN dhcp_set_state([d EXCEPT !.xid = xid], "discover")
    ELSE IF ~Acknowledges(d, m) THEN d
    ELSE IF "dhcp" \in fail THEN dhcp_finished(e, "error")
    ELSE IF ~UseProxy(d) THEN dhcp_finished(e, "ok")
    ELSE IF ~d.proxy_offer.pxe THEN dhcp_set_state(e, "proxy")
    ELSE dhcp_finished(e, IF "proxydhcp" \in fail THEN "error" ELSE "ok")

FromProxy(d, m) ==
    /\ m.type \in {"OFFER", "ACK"}
    /\ m.server = NoAddr \/ d.proxy_server = NoAddr \/ m.server = d.proxy_server
dhcp_proxy_rx(d, m, fail) ==
    IF ~FromProxy(d, m) THEN d
    ELSE dhcp_finished(d, IF "proxydhcp" \in fail THEN "error" ELSE "ok")

dhcp_pxebs_accept(d, bs) == d.filter => bs \in d.accept

FromBootServer(d, m) ==
    /\ m.type = "ACK" /\ m.menu = d.pxe_type
    /\ dhcp_pxebs_accept(d, IF m.server # NoAddr THEN m.server ELSE m.src)
dhcp_pxebs_rx(d, m, fail) ==
    IF ~FromBootServer(d, m) THEN d
    ELSE dhcp_finished(d, IF "pxebs" \in fail THEN "error" ELSE "ok")

\* dhcp_deliver() drops packets of other transactions.
Matching_Any(d, m) == TRUE
Matching(d, m) == m.xid = d.xid
Rx(d, m, fail, xid) ==
    IF ~Matching(d, m) THEN d
    ELSE CASE d.state = "discover" -> dhcp_discovery_rx(d, m)
           [] d.state = "request" -> dhcp_request_rx(d, m, fail, xid)
           [] d.state = "proxy" -> dhcp_proxy_rx(d, m, fail)
           [] d.state = "pxebs" -> dhcp_pxebs_rx(d, m, fail)

\* The settings blocks that handling the packet registers
Registered(d, m, fail) ==
    LET proxied == UseProxy(d) /\ d.proxy_offer.pxe IN
    IF ~Matching(d, m) THEN settings
    ELSE [b \in DOMAIN settings |->
            CASE b \in fail -> settings[b]
              [] d.state = "request" /\ Acknowledges(d, m) /\ b = "dhcp" -> m
              [] d.state = "request" /\ Acknowledges(d, m) /\ b = "proxydhcp"
                 /\ proxied /\ "dhcp" \notin fail -> d.proxy_offer
              [] d.state = "proxy" /\ FromProxy(d, m) /\ b = "proxydhcp" -> m
              [] d.state = "pxebs" /\ FromBootServer(d, m) /\ b = "pxebs" -> m
              [] OTHER -> settings[b]]

-----------------------------------------------------------------------------
\* What servers may have sent in answer to a request they have seen

Reply(o, type, xid) ==
    [type |-> IF o.bootp THEN "BOOTP" ELSE type, xid |-> xid, server |-> o.server,
     src |-> o.server, port |-> "BOOTPS", ip |-> IF type = "NAK" THEN NoAddr ELSE o.ip,
     vci |-> o.vci, pxe |-> o.pxe, priority |-> o.priority, nopxe |-> o.nopxe, menu |-> 0]

ProxyReply(o, xid) ==
    [Reply(o, "ACK", xid) EXCEPT !.port = "PXE", !.pxe = TRUE]

\* A boot server need not send its server ID.
BootReply(b, id, menu, xid) ==
    [type |-> "ACK", xid |-> xid, server |-> id, src |-> b, port |-> "PXE", ip |-> NoAddr,
     vci |-> TRUE, pxe |-> TRUE, priority |-> 0, nopxe |-> FALSE, menu |-> menu]

\* NoPacket is none of them.
ASSUME NoPacketAssumption ==
    \A xid \in 1..Xids :
        /\ \A o \in Offers, type \in {"OFFER", "ACK", "NAK"} : Reply(o, type, xid) # NoPacket
        /\ \A b \in BootServers, id \in BootServers \cup {NoAddr} :
              BootReply(b, id, 1, xid) # NoPacket

OffersTo(r) == {Reply(o, "OFFER", r.xid) : o \in Offers}
AnswersTo(r) ==
    {Reply(o, type, r.xid) :
        o \in {p \in Offers : ~p.bootp /\ p.server = r.server /\ p.ip = r.ip},
        type \in {"ACK", "NAK"}}
ProxyAnswersTo(r) == {ProxyReply(o, r.xid) : o \in {p \in Offers : p.server = r.server}}
BootAnswersTo(r) ==
    {BootReply(b, id, 1, r.xid) :
        b \in {c \in BootServers : r.dest \in {c, Broadcast, Multicast}},
        id \in {NoAddr, r.dest} \ {Broadcast, Multicast}}

RepliesTo(r) ==
    CASE r.type = "discover" -> OffersTo(r)
      [] r.type = "request" -> AnswersTo(r)
      [] r.type = "proxy" -> ProxyAnswersTo(r)
      [] r.type = "pxebs" -> BootAnswersTo(r)

-----------------------------------------------------------------------------
Session ==
    [state |-> "none", xid |-> 1, offer |-> NoAddr, server |-> NoAddr, priority |-> 0,
     no_pxedhcp |-> FALSE, proxy_server |-> NoAddr, proxy_offer |-> NoPacket,
     proxy_priority |-> 0, local |-> NoAddr, pxe_type |-> 0, attempt |-> <<>>, filter |-> FALSE,
     accept |-> {}, timer |-> FALSE, started |-> 0, timeout |-> 0, elapsed |-> 0,
     rc |-> "open", tx |-> {}]

\* start_dhcp()
DhcpInit ==
    /\ dhcp = dhcp_set_state(Session, "discover") /\ dhcp_last_xid = 1
    /\ settings = [b \in {"dhcp", "proxydhcp", "pxebs"} |-> NoPacket]
    /\ seen = {} /\ replies = 0

DhcpStep(d) == dhcp' = [d EXCEPT !.tx = {}] /\ seen' = seen \cup d.tx

\* Time passes, up to the expiry of the timer and at most a tick beyond it.
TimerDue == dhcp.started + dhcp.timeout
TimePasses(now) ==
    /\ dhcp.timer /\ now > dhcp.elapsed /\ now <= TimerDue + 1
    /\ dhcp' = [dhcp EXCEPT !.elapsed = now]
    /\ UNCHANGED <<dhcp_last_xid, settings, seen, replies>>

dhcp_timer_expired ==
    /\ dhcp.timer /\ dhcp.elapsed >= TimerDue
    /\ DhcpStep(DhcpExpired(dhcp))
    /\ UNCHANGED <<dhcp_last_xid, settings, replies>>

\* random() is taken not to repeat a transaction ID.
dhcp_deliver(m, fail) ==
    /\ dhcp.rc = "open" /\ replies < MaxReplies /\ replies' = replies + 1
    /\ dhcp.state = "request" /\ Matching(dhcp, m) /\ Refuses(dhcp, m) => dhcp.xid < Xids
    /\ DhcpStep(Rx(dhcp, m, fail, dhcp.xid + 1))
    /\ settings' = Registered(dhcp, m, fail)
    /\ UNCHANGED dhcp_last_xid

\* The job is cancelled.
dhcp_job_close ==
    /\ dhcp.rc = "open" /\ DhcpStep(dhcp_finished(dhcp, "error"))
    /\ UNCHANGED <<dhcp_last_xid, settings, replies>>

\* The boot server lists that start_pxebs() makes of PXE_DISCOVERY_CONTROL
Attempts(control) ==
    (IF "NO_MULTICAST" \in control THEN <<>> ELSE <<Multicast>>) \o
    (IF "NO_BROADCAST" \in control THEN <<>> ELSE <<Broadcast>>) \o ServerList

\* opened: the socket could be opened
start_pxebs(control, opened) ==
    LET filter == "NO_UNKNOWN_SERVERS" \in control
        new == [Session EXCEPT !.xid = dhcp_last_xid, !.pxe_type = 1, !.local = dhcp.local,
                               !.attempt = Attempts(control), !.filter = filter,
                               !.accept = IF filter THEN Known ELSE {}]
    IN /\ dhcp.rc = "ok" /\ dhcp.state # "pxebs"
       /\ DhcpStep(IF new.attempt = <<>> \/ ~opened THEN dhcp_finished(new, "error")
                   ELSE dhcp_set_state(new, "pxebs"))
       /\ UNCHANGED <<dhcp_last_xid, settings, replies>>

DhcpNext ==
    \/ \E now \in {TimerDue, TimerDue + 1, Limit(dhcp.state) + 1} : TimePasses(now)
    \/ dhcp_timer_expired
    \/ \E r \in seen, fail \in {{}, {"dhcp"}, {"proxydhcp"}, {"pxebs"}} :
          \E m \in RepliesTo(r) : dhcp_deliver(m, fail)
    \/ dhcp_job_close
    \/ \E control \in SUBSET {"NO_MULTICAST", "NO_BROADCAST", "NO_UNKNOWN_SERVERS"},
          opened \in BOOLEAN : start_pxebs(control, opened)

\* Time passes and the timers are polled for ever.
DhcpFairness ==
    /\ WF_dhcpVars(dhcp.elapsed < TimerDue /\ TimePasses(TimerDue)) /\ WF_dhcpVars(dhcp_timer_expired)

DhcpSpec == DhcpInit /\ [][DhcpNext]_dhcpVars /\ DhcpFairness

-----------------------------------------------------------------------------
\* A DHCP session that ends with success has registered the answer of the
\* server it chose: an ACK in the session's own transaction, for the address
\* it asked that server for (or a BOOTP reply), however late the answers to
\* earlier transactions and of other servers came (dhcp_deliver(),
\* dhcp_request_rx()).
LeaseConfirmed ==
    dhcp.rc = "ok" /\ dhcp.state # "pxebs" =>
        LET lease == settings["dhcp"] IN
        /\ lease # NoPacket /\ lease.ip = dhcp.local /\ lease.ip # NoAddr
        /\ lease.xid = dhcp.xid
        /\ lease.type = "BOOTP" \/
           [type |-> "request", xid |-> dhcp.xid, server |-> lease.server, ip |-> lease.ip] \in seen

\* Backing off never fails a session that could go on: the timer reports
\* failure only in discovery without an offer and in the request state ("Give
\* up waiting for ProxyDHCP before we reach the failure point", "Give up
\* waiting before we reach the failure point", dhcp.c), with the timeouts of
\* dhcp.h, whenever offers come and however late the timer is polled.
GivesUpFirst ==
    dhcp.rc = "timedout" =>
        dhcp.state = "request" \/ (dhcp.state = "discover" /\ dhcp.offer = NoAddr)

\* Boot Server Discovery gives up only after it has asked every server of its
\* list ("fail over to the next server in the attempt list", dhcp.c), and
\* accepts only a boot server of the list if it is told to.
BootServersTried ==
    /\ dhcp.rc = "unserved" =>
          \A i \in DOMAIN ServerList :
              [type |-> "pxebs", xid |-> dhcp.xid, dest |-> ServerList[i]] \in seen
    /\ dhcp.state = "pxebs" /\ dhcp.rc = "ok" /\ dhcp.filter =>
          LET ack == settings["pxebs"] IN
          ack # NoPacket /\ ack.src \in Known /\ ack.menu = 1

\* When no more packets come every session ends.
SessionEnds == <>[](dhcp.rc # "open" /\ ~dhcp.timer)
=============================================================================
