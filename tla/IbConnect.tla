----------------------------- MODULE IbConnect -----------------------------
(***************************************************************************)
(* Infiniband connections on one device: management transactions           *)
(* (ib_mi.c), path lookups and the path cache (ib_pathrec.c), the          *)
(* communication manager (ib_cm.c), a communication-managed reliable       *)
(* connection with its deferred shutdown (ib_cmrc.c), and the device's     *)
(* open count (infiniband.c).  Management datagrams are lost, repeated and *)
(* delayed; memory may be short.                                           *)
(***************************************************************************)
EXTENDS Integers, FiniteSets

CONSTANTS
    Gids,                 \* destinations
    IB_NUM_CACHED_PATHS,
    MaxUsers              \* bound: other openings of the device

ASSUME IbAssumption ==
    IB_NUM_CACHED_PATHS \in Nat \ {0} /\ MaxUsers \in Nat /\ Gids # {}

VARIABLE ib               \* the device's state, a record

Slots == 0..(IB_NUM_CACHED_PATHS - 1)
NoPath == 0
Paths == 1..(IB_NUM_CACHED_PATHS + 1)   \* memory for the paths, used again when freed
dgid == CHOOSE g \in Gids : TRUE         \* the reliable connection's destination
NewPath == [live |-> FALSE, gid |-> dgid, lid |-> FALSE, madx |-> FALSE,
            slot |-> -1]

\* A transaction belongs to a path or to the connection, and gets its TID when
\* it is first sent.  TIDs count up, so "sent" is all that is kept of one: an
\* answer finds the transaction whose request it answers or none.
PathOwner(p) == [kind |-> "path", id |-> p]
ConnOwner == [kind |-> "conn", id |-> 0]

-----------------------------------------------------------------------------
\* Transactions and paths

ib_create_madx(s, owner) == [s EXCEPT !.madx = @ \cup {[owner |-> owner, sent |-> FALSE]}]
ib_destroy_madx(s, owner) == [s EXCEPT !.madx = {m \in @ : m.owner # owner}]

Free(s) == CHOOSE p \in Paths : ~s.path[p].live

\* slot is the cache slot that the path is for, -1 for the connection's path.
ib_create_path(s, gid, slot) ==
    ib_create_madx([s EXCEPT !.path[Free(s)] = [live |-> TRUE, gid |-> gid, lid |-> FALSE,
                                                madx |-> TRUE, slot |-> slot]],
                   PathOwner(Free(s)))

ib_destroy_path_KeepMadx(s, p) == [s EXCEPT !.path[p] = NewPath]
ib_destroy_path(s, p) ==
    LET t == IF s.path[p].madx THEN ib_destroy_madx(s, PathOwner(p)) ELSE s
    IN [t EXCEPT !.path[p] = NewPath]

\* The cache slot for a destination, if there is one
CachedAt(s, gid) == {i \in Slots : s.cache[i] # NoPath /\ s.path[s.cache[i]].gid = gid}

ib_cached_path_complete_Kept(s, p, ok) == s
ib_cached_path_complete_Dangling(s, p, ok) == IF ok THEN s ELSE ib_destroy_path(s, p)
ib_cached_path_complete(s, p, ok) ==
    IF ok THEN s ELSE [ib_destroy_path(s, p) EXCEPT !.cache[s.path[p].slot] = NoPath]

ib_resolve_path(s, gid, fault) ==
    LET slot == s.cache_idx % IB_NUM_CACHED_PATHS
        old  == s.cache[slot]
        t == [s EXCEPT !.cache_idx = (@ + 1) % IB_NUM_CACHED_PATHS, !.cache[slot] = NoPath]
        u == IF old = NoPath THEN t ELSE ib_destroy_path(t, old)
    IN IF CachedAt(s, gid) # {} THEN s
       ELSE IF fault = "nomem" THEN u
       ELSE [ib_create_path(u, gid, slot) EXCEPT !.cache[slot] = Free(u)]

-----------------------------------------------------------------------------
\* The reliable connection: "xfer" is open until it is closed; "posted" says
\* that receive buffers are posted on its queue pair.

ib_cmrc_close(s) == [s EXCEPT !.cmrc.xfer = FALSE, !.cmrc.shutdown = TRUE]

\* private: private data is passed up, which fails if the upper layer closes
\* or has closed its end.
ib_cmrc_changed(s, ok, private, fault) ==
    LET t == [s EXCEPT !.cmrc.connected = ok] IN
    IF private /\ (fault = "upper" \/ ~s.cmrc.xfer) THEN ib_cmrc_close(t)
    ELSE IF ok THEN t ELSE ib_cmrc_close(t)

\* The connection request cannot be created: the status reported is still that
\* of the path lookup, success.
ib_cm_path_complete(s, p, ok, fault) ==
    LET t == IF ~ok THEN ib_cmrc_changed(s, FALSE, FALSE, fault)
             ELSE IF fault = "nomem" THEN ib_cmrc_changed(s, TRUE, FALSE, fault)
             ELSE [ib_create_madx(s, ConnOwner) EXCEPT !.conn.madx = TRUE]
    IN [ib_destroy_path(t, p) EXCEPT !.conn.path = NoPath]

ib_path_complete(s, p, ok, fault) ==
    LET t == [ib_destroy_madx(s, PathOwner(p)) EXCEPT !.path[p].madx = FALSE,
                                                     !.path[p].lid = ok]
    IN IF s.path[p].slot # -1 THEN ib_cached_path_complete(t, p, ok)
       ELSE ib_cm_path_complete(t, p, ok, fault)

\* reply: "rep", "rej" (with private data or without), or "none" on failure
ib_cm_req_complete(s, reply, fault) ==
    LET ok == reply = "rep" /\ fault # "modify"
        t == [ib_destroy_madx(s, ConnOwner) EXCEPT !.conn.madx = FALSE,
                                                   !.conn.established = ok]
    IN ib_cmrc_changed(t, ok, reply \in {"rep", "consumer"}, fault)

\* madx->op->complete(); a reply other than "ok" and "rep" is a failure.
Complete(s, owner, reply, fault) ==
    IF owner = ConnOwner THEN ib_cm_req_complete(s, reply, fault)
    ELSE ib_path_complete(s, owner.id, reply = "ok", fault)

-----------------------------------------------------------------------------
\* The device

ib_open(s) == [s EXCEPT !.open_count = @ + 1]

\* ib_destroy_mi() completes every transaction with -ECANCELED.
Cancelled(s) == {p \in Paths : s.path[p].live /\ s.path[p].madx /\ s.path[p].slot # -1}
ib_destroy_mi(s) ==
    LET t == [s EXCEPT !.madx = {m \in @ : m.owner \notin {PathOwner(p) : p \in Cancelled(s)}},
                       !.path = [p \in Paths |->
                                    IF p \in Cancelled(s) THEN NewPath ELSE @[p]],
                       !.cache = [i \in Slots |-> IF @[i] \in Cancelled(s) THEN NoPath ELSE @[i]]]
    IN IF s.conn.live /\ s.conn.path # NoPath THEN Complete(t, PathOwner(s.conn.path), "none", "none")
       ELSE IF s.conn.live /\ s.conn.madx THEN Complete(t, ConnOwner, "none", "none")
       ELSE t

ib_close(s) ==
    LET t == [s EXCEPT !.open_count = @ - 1]
    IN IF t.open_count = 0 THEN ib_destroy_mi(t) ELSE t

NoConn == [live |-> FALSE, path |-> NoPath, madx |-> FALSE, asked |-> FALSE, established |-> FALSE]

ib_create_conn(s, gid) ==
    [ib_create_path(s, gid, -1) EXCEPT !.conn = [NoConn EXCEPT !.live = TRUE, !.path = Free(s)]]

ib_destroy_conn(s) ==
    LET t == IF s.conn.madx THEN ib_destroy_madx(s, ConnOwner) ELSE s
        u == IF s.conn.path # NoPath THEN ib_destroy_path(t, s.conn.path) ELSE t
    IN [u EXCEPT !.conn = NoConn]

\* The posted buffers complete with -ECANCELED, and ib_cmrc_complete_recv()
\* closes the connection.
ib_destroy_qp(s) == IF s.cmrc.posted THEN ib_cmrc_close(s) ELSE s

-----------------------------------------------------------------------------
\* Steps.  After an access to memory that is not there ("wild") nothing is
\* known of the system.

Do(s) == ~ib.wild /\ ib' = s

ib_cmrc_open ==
    /\ ib.cmrc.state = "none"
    /\ Do([ib_open(ib) EXCEPT !.cmrc.state = "up", !.cmrc.xfer = TRUE])

\* The first datagram starts the connection, others need it established.
ib_cmrc_xfer_deliver(fault) ==
    LET new == ~ib.cmrc.connected /\ ~ib.conn.live IN
    /\ ib.cmrc.xfer
    /\ Do(IF new /\ fault # "nomem" THEN ib_create_conn(ib, dgid)
          ELSE IF new \/ ~ib.cmrc.connected \/ fault = "send" THEN ib_cmrc_close(ib)
          ELSE ib)

\* The upper layer closes, or a send or receive fails.
CmrcClose == ib.cmrc.xfer /\ Do(ib_cmrc_close(ib))

\* ib_poll_cq() refills the receive queue.
ib_refill_recv ==
    /\ ib.cmrc.state = "up" /\ ~ib.cmrc.posted
    /\ Do([ib EXCEPT !.cmrc.posted = TRUE])

\* A process that runs once: step() has taken it off the run queue.
ib_cmrc_shutdown ==
    LET s == ib_destroy_qp(ib_destroy_conn([ib EXCEPT !.cmrc.shutdown = FALSE]))
    IN /\ ib.cmrc.shutdown
       /\ Do(IF ~ib.conn.live THEN [ib EXCEPT !.wild = TRUE]
             ELSE ib_close([s EXCEPT !.cmrc.state = "down"]))

ib_mi_timer_expired(m, fail) ==
    /\ m \in ib.madx
    /\ Do(IF fail THEN Complete(ib, m.owner, "none", "none")
          ELSE [ib EXCEPT !.madx = (@ \ {m}) \cup {[m EXCEPT !.sent = TRUE]},
                          !.conn.asked = @ \/ m.owner = ConnOwner])

\* An answer to a request.  Without its transaction it goes to the agents,
\* which answer a repeated REP with another RTU and ignore the rest.
Replies(m) == IF m.owner = ConnOwner THEN {"rep", "rej", "consumer", "none"} ELSE {"ok", "none"}
Faults(m) == {"none"} \cup IF m.owner = ConnOwner THEN {"upper", "modify"} ELSE {"nomem"}
ib_mi_handle(m, reply, fault) ==
    /\ m \in ib.madx /\ m.sent
    /\ Do(Complete(ib, m.owner, reply, fault))

\* A disconnection request from the peer; it carries private data.
ib_cm_recv_dreq(fault) ==
    /\ ib.conn.live /\ ib.conn.asked
    /\ Do(ib_cmrc_changed(ib, FALSE, TRUE, fault))

ResolvePath(gid, fault) ==
    /\ ib.open_count > 0
    /\ Do(ib_resolve_path(ib, gid, fault))

\* Other users of the device
UserOpens ==
    /\ ib.users < MaxUsers /\ Do([ib_open(ib) EXCEPT !.users = @ + 1])
UserCloses ==
    /\ ib.users > 0 /\ Do(ib_close([ib EXCEPT !.users = @ - 1]))

-----------------------------------------------------------------------------
IbInit ==
    ib = [open_count |-> 0, users |-> 0, madx |-> {},
             path |-> [p \in Paths |-> NewPath],
             cache |-> [i \in Slots |-> NoPath], cache_idx |-> 0, conn |-> NoConn,
             cmrc |-> [state |-> "none", xfer |-> FALSE, connected |-> FALSE, posted |-> FALSE,
                       shutdown |-> FALSE],
             wild |-> FALSE]

IbNext ==
    \/ ib_cmrc_open \/ CmrcClose \/ ib_refill_recv \/ ib_cmrc_shutdown
    \/ \E fault \in {"none", "nomem", "send"} : ib_cmrc_xfer_deliver(fault)
    \/ \E m \in ib.madx, fail \in BOOLEAN : ib_mi_timer_expired(m, fail)
    \/ \E m \in ib.madx : \E reply \in Replies(m), fault \in Faults(m) :
          ib_mi_handle(m, reply, fault)
    \/ \E fault \in {"none", "upper"} : ib_cm_recv_dreq(fault)
    \/ \E gid \in Gids, fault \in {"none", "nomem"} : ResolvePath(gid, fault)
    \/ UserOpens \/ UserCloses

\* Processes and timers are polled for ever; a timer that is restarted with a
\* backed-off delay reports failure in the end.
IbFairness ==
    /\ WF_ib(ib_cmrc_shutdown)
    /\ \A p \in Paths \cup {0} :
          LET owner == IF p = 0 THEN ConnOwner ELSE PathOwner(p)
          IN WF_ib(\E m \in ib.madx : m.owner = owner /\ ib_mi_timer_expired(m, TRUE))

IbSpec == IbInit /\ [][IbNext]_ib /\ IbFairness

-----------------------------------------------------------------------------
\* A transaction in the list belongs to a path or connection that exists and
\* points to it, and the other way round: whatever evicts a cache entry,
\* cancels a lookup, closes the connection or the device, no reply or timer
\* can reach an owner that is gone (ib_destroy_path(), ib_destroy_conn()).
\* None outlives the management interface it is on, which is there as long as
\* the device is held open, by the reliable connection or by others.
TransactionsOwned ==
    /\ \A m \in ib.madx :
          IF m.owner = ConnOwner THEN ib.conn.live /\ ib.conn.madx
          ELSE ib.path[m.owner.id].live /\ ib.path[m.owner.id].madx
    /\ \A p \in Paths :
          ib.path[p].madx => Cardinality({m \in ib.madx : m.owner = PathOwner(p)}) = 1
    /\ ib.conn.madx => Cardinality({m \in ib.madx : m.owner = ConnOwner}) = 1
    /\ ib.open_count = 0 => ib.madx = {}
    /\ ib.conn.live => ib.cmrc.state = "up"
    /\ ib.open_count = ib.users + (IF ib.cmrc.state = "up" THEN 1 ELSE 0)

\* A path exists exactly as long as a cache slot or the connection points to
\* it, and no destination has two cache slots: lookups that fail are erased
\* from the cache, and none is leaked or freed twice.
PathsOwned ==
    /\ \A p \in Paths :
          ib.path[p].live <=>
              Cardinality({i \in Slots : ib.cache[i] = p}) +
              (IF ib.conn.live /\ ib.conn.path = p THEN 1 ELSE 0) = 1
    /\ \A gid \in Gids : Cardinality(CachedAt(ib, gid)) <= 1

\* Both directions of ownership together: what a path, a connection, a
\* transaction, a cache slot and the open count say of one another agrees,
\* whatever ib_destroy_path(), ib_destroy_conn() or ib_close() takes away.
OwnersExact == TransactionsOwned /\ PathsOwned

\* No connection attempt goes on for ever: it is connected or its interface is
\* closed (ib_cmrc_changed()); and no lookup for the cache stays unanswered: it
\* is erased in the end, or ib_resolve_path() would report it "in progress" for
\* ever.
Connecting == ib.conn.live /\ ib.cmrc.xfer /\ ~ib.cmrc.connected
InProgress(i) == ib.cache[i] # NoPath /\ ~ib.path[ib.cache[i]].lid
AttemptsEnd ==
    /\ []<>(~Connecting \/ ib.wild)
    /\ \A i \in Slots : []<>(~InProgress(i) \/ ib.wild)

\* Once the shutdown process has run, its connection is down and nothing of it
\* is destroyed again ("will shut down the Infiniband interfaces cleanly",
\* ib_cmrc.c).
ShutdownClean == ib.cmrc.state = "down" => ~ib.wild
=============================================================================
