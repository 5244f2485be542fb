------------------------------ MODULE Download ------------------------------
(***************************************************************************)
(* Foreground downloads of tcp:// URIs (usr/imgmgmt.c, core/monojob.c),    *)
(* one after the other, from the request to the last object that is freed. *)
(* The objects of a download are plugged together like this:               *)
(*                                                                         *)
(*   monojob - job: downloader :xfer - xfer: named :resolv - parent: mux   *)
(*             mux :child - resolv: numeric                                *)
(*                    then  resolv: dns :socket - xfer: udp                *)
(*                                                                         *)
(* Once the name is resolved the named socket takes itself out of the      *)
(* chain and a TCP connection is plugged into the downloader instead.      *)
(*                                                                         *)
(* The program has one thread: a handler runs to its end, with the         *)
(* handlers it calls through interfaces.  What the handlers on the stack   *)
(* still have to do is the sequence todo of calls <<function, argument,    *)
(* argument>>; a handler is the sequence of the calls it makes, and each   *)
(* primitive call is an action.  Only with nothing left to do does the     *)
(* caller of step() get to another step.                                   *)
(***************************************************************************)
EXTENDS Objects

CONSTANT MaxJobs     \* bound: the downloads, one after the other

ASSUME JobsAssumption == MaxJobs \in Nat \ {0}
Jobs == 1..MaxJobs

\* Interfaces that have operations of their own, and those initialised with
\* null_intf_desc.
OwnPorts == {<<"downloader", "job">>, <<"downloader", "xfer">>, <<"named", "xfer">>,
             <<"named", "resolv">>, <<"mux", "child">>, <<"dns", "resolv">>,
             <<"dns", "socket">>, <<"udp", "xfer">>, <<"tcp", "xfer">>}
NullPorts == {<<"mux", "parent">>, <<"numeric", "resolv">>}
Monojob == <<"monojob", 0, "intf">>
Interfaces ==
    {NullIntf, Monojob} \cup {<<p[1], n, p[2]>> : p \in OwnPorts \cup NullPorts, n \in Jobs}

RESOLVERS == <<"numeric", "dns">>

VARIABLES
    sys,       \* the objects (see Objects) and, in the same record,
               \*   timers    the objects with a running retry timer
               \*   conns     the listed connections; for tcp, how far it is
               \*   resolver  the position of each mux in RESOLVERS
    todo,      \* the calls that remain to be made, innermost first
    rc,        \* monojob_rc
    job,       \* the download that monojob_wait() waits for, or 0
    result,    \* what each imgdownload() returned, or "none"
    complete   \* history: the downloads whose peer has sent its last byte

outcome == <<rc, job, result, complete>>
vars == <<sys, todo, rc, job, result, complete>>

-----------------------------------------------------------------------------
(* Constructors.  Each has a set of outcomes: the calls it makes, and what *)
(* it returns.  An object that was made is kept by what it is plugged into *)
(* ("mortalise self"), or by the list of connections.                      *)

Fails(calls) == [calls |-> calls, rc |-> "err"]
Returns(calls) == [calls |-> calls, rc |-> "ok"]

plug_plug(i, j) == <<<<"intf_plug", i, j>>, <<"intf_plug", j, i>>>>
Attach(i, parent) == plug_plug(i, parent) \o <<<<"ref_put", Obj(i)>>>>

\* A constructor that makes o, opens something below it and attaches o to its
\* parent; if that cannot be opened it only drops o.
Opening(o, opened, attach) ==
    {Fails(<<>>)} \cup
    {[calls |-> <<<<"new", o>>>> \o r.calls
                    \o (IF r.rc = "ok" THEN attach ELSE <<<<"ref_put", o>>>>),
      rc |-> r.rc] : r \in opened}

numeric_resolv(parent, n) ==
    {Fails(<<>>),
     Returns(<<<<"new", <<"numeric", n>>>>, <<"process_add", <<"numeric", n>>>>>>
                \o Attach(<<"numeric", n, "resolv">>, parent))}

udp_open(parent, n) ==
    {Fails(<<>>),
     Returns(<<<<"new", <<"udp", n>>>>>> \o plug_plug(<<"udp", n, "xfer">>, parent)
                \o <<<<"list_add", <<"udp", n>>, "open">>>>)}

tcp_open(parent, n) ==
    {Fails(<<>>),
     Returns(<<<<"new", <<"tcp", n>>>>>> \o plug_plug(<<"tcp", n, "xfer">>, parent)
                \o <<<<"list_add", <<"tcp", n>>, "SYN_SENT">>>>)}

dns_resolv(parent, n) ==
    Opening(<<"dns", n>>, udp_open(<<"dns", n, "socket">>, n),
            <<<<"start_timer", <<"dns", n>>>>>> \o Attach(<<"dns", n, "resolv">>, parent))

resmux_try(n, k) ==
    IF RESOLVERS[k] = "numeric" THEN numeric_resolv(<<"mux", n, "child">>, n)
    ELSE dns_resolv(<<"mux", n, "child">>, n)

resolv(parent, n) ==
    Opening(<<"mux", n>>, resmux_try(n, 1), Attach(<<"mux", n, "parent">>, parent))

xfer_open_named_socket(parent, n) ==
    Opening(<<"named", n>>, resolv(<<"named", n, "resolv">>, n),
            Attach(<<"named", n, "xfer">>, parent))

-----------------------------------------------------------------------------
(* Handlers, as the calls they make.                                       *)

downloader_finished(n, e) ==
    <<<<"intf_shutdown", <<"downloader", n, "xfer">>, e>>,
      <<"intf_shutdown", <<"downloader", n, "job">>, e>>>>

create_downloader(n) ==
    {Fails(<<>>)} \cup
    {[calls |-> <<<<"new", <<"downloader", n>>>>>> \o r.calls
                    \o (IF r.rc = "ok" THEN plug_plug(<<"downloader", n, "job">>, Monojob)
                        ELSE downloader_finished(n, "err"))
                    \o <<<<"ref_put", <<"downloader", n>>>>>>,
      rc |-> r.rc] : r \in xfer_open_named_socket(<<"downloader", n, "xfer">>, n)}

monojob_close(e) == <<<<"monojob_rc", e>>, <<"intf_restart", Monojob, e>>>>

named_close(n, e) ==
    <<<<"intf_shutdown", <<"named", n, "resolv">>, e>>,
      <<"intf_shutdown", <<"named", n, "xfer">>, e>>>>

named_resolv_done(n) ==
    <<<<"intf_nullify", <<"named", n, "xfer">>>>, <<"named_redirect", n>>>>

resmux_child_resolv_done(n) == <<<<"resolv_done", <<"mux", n, "parent">>>>>>

resmux_child_close(n, e) ==
    <<<<"intf_restart", <<"mux", n, "child">>, e>>, <<"resmux_closed", n, e>>>>

dns_done(n, e) ==
    <<<<"stop_timer", <<"dns", n>>>>, <<"intf_shutdown", <<"dns", n, "socket">>, e>>,
      <<"intf_shutdown", <<"dns", n, "resolv">>, e>>>>
dns_xfer_close(n, e) == dns_done(n, "err")
dns_resolved(n) == <<<<"resolv_done", <<"dns", n, "resolv">>>>>> \o dns_done(n, "ok")

udp_close(n, e) ==
    <<<<"intf_shutdown", <<"udp", n, "xfer">>, e>>, <<"list_del", <<"udp", n>>>>>>

tcp_close(n, e) ==
    <<<<"intf_shutdown", <<"tcp", n, "xfer">>, e>>, <<"tcp_closed", <<"tcp", n>>>>>>

\* The operations of an interface with operations of its own
CloseOp(i, e) ==
    CASE i[1] = "downloader" -> downloader_finished(i[2], e)
      [] i[1] = "monojob" -> monojob_close(e)
      [] i[1] = "named" -> named_close(i[2], e)
      [] i[1] = "mux" -> resmux_child_close(i[2], e)
      [] i[1] = "dns" -> IF i[3] = "socket" THEN dns_xfer_close(i[2], e) ELSE dns_done(i[2], e)
      [] i[1] = "udp" -> udp_close(i[2], e)
      [] i[1] = "tcp" -> tcp_close(i[2], e)

ResolvDoneOp(i) ==
    CASE i[1] = "mux" -> resmux_child_resolv_done(i[2])
      [] i[1] = "named" /\ i[3] = "resolv" -> named_resolv_done(i[2])
      [] OTHER -> <<>>

-----------------------------------------------------------------------------
(* Calls.                                                                  *)

Arg == todo[1][2]
Arg2 == todo[1][3]
Calling(name) == todo # <<>> /\ todo[1][1] = name

\* The objects become h, and the calls that are made come before what the
\* caller still has to do.
Made(h, calls) == sys' = h /\ todo' = calls \o Tail(todo) /\ UNCHANGED outcome

intf_shutdown ==
    /\ Calling("intf_shutdown")
    /\ Made(intf_nullify(sys, Arg),
            <<<<"intf_close", Arg, Arg2>>, <<"intf_plug", Arg, NullIntf>>>>)

\* The descriptor is restored only after the shutdown.
intf_restart ==
    /\ Calling("intf_restart")
    /\ Made(sys, <<<<"intf_shutdown", Arg, Arg2>>>>
                    \o IF Arg \in sys.ops THEN <<<<"restore_desc", Arg>>>> ELSE <<>>)

restore_desc ==
    /\ Calling("restore_desc")
    /\ Made([Touch(sys, Obj(Arg)) EXCEPT !.ops = @ \cup {Arg}], <<>>)

\* The destination's operation, if it has operations; the destination is held
\* while its handler runs.
Operation(dest, calls) ==
    Made(intf_get(Touch(sys, Obj(Arg)), dest),
         (IF dest \in sys.ops THEN calls ELSE <<>>) \o <<<<"ref_put", Obj(dest)>>>>)

intf_close ==
    /\ Calling("intf_close")
    /\ Operation(sys.dest[Arg], CloseOp(sys.dest[Arg], Arg2))

resolv_done ==
    /\ Calling("resolv_done")
    /\ Operation(sys.dest[Arg], ResolvDoneOp(sys.dest[Arg]))

Primitive ==
    \/ Calling("intf_plug") /\ Made(intf_plug(sys, Arg, Arg2), <<>>)
    \/ Calling("intf_nullify") /\ Made(intf_nullify(sys, Arg), <<>>)
    \/ Calling("ref_put") /\ Made(ref_put(sys, Arg), <<>>)
    \/ Calling("process_add") /\ Made(process_add(sys, Arg), <<>>)

\* zalloc(), ref_init() and the intf_init() calls of a constructor
new ==
    /\ Calling("new")
    /\ LET own == {<<Arg[1], Arg[2], p[2]>> : p \in {q \in OwnPorts : q[1] = Arg[1]}}
       IN Made([ref_init(sys, Arg) EXCEPT !.ops = @ \cup own], <<>>)

\* The list of timers holds a reference; the list of connections takes over
\* the constructor's.
start_timer ==
    /\ Calling("start_timer")
    /\ Made([ref_get(sys, Arg) EXCEPT !.timers = @ \cup {Arg}], <<>>)

stop_timer ==
    /\ Calling("stop_timer")
    /\ Made(IF Arg \in sys.timers THEN ref_put([sys EXCEPT !.timers = @ \ {Arg}], Arg)
            ELSE Touch(sys, Arg), <<>>)

list_add ==
    /\ Calling("list_add")
    /\ Made([Touch(sys, Arg) EXCEPT !.conns = (Arg :> Arg2) @@ @], <<>>)

list_del ==
    /\ Calling("list_del")
    /\ Made(ref_put([sys EXCEPT !.conns = Restrict(@, DOMAIN @ \ {Arg})], Arg), <<>>)

monojob_rc ==
    /\ Calling("monojob_rc")
    /\ rc' = Arg /\ todo' = Tail(todo)
    /\ UNCHANGED <<sys, job, result, complete>>

\* The rest of tcp_close(): a connection that has not received a SYN, or was
\* aborted, is deleted; another lives on to exchange FINs (see Tcp).
tcp_closed ==
    /\ Calling("tcp_closed")
    /\ LET h == Touch(sys, Arg) IN
       IF h.conns[Arg] \in {"SYN_SENT", "CLOSED"} THEN Made(h, <<<<"list_del", Arg>>>>)
       ELSE Made([h EXCEPT !.conns[Arg] = "closing"], <<>>)

\* The rest of resmux_child_close(): after success, or the last resolver, or
\* one that cannot start, the parent is told; else the next resolver runs.
resmux_finished_Quiet(n, r) == r.calls
resmux_finished(n, r) ==
    r.calls \o IF r.rc = "ok" THEN <<>> ELSE <<<<"intf_shutdown", <<"mux", n, "parent">>, r.rc>>>>

resmux_closed ==
    /\ Calling("resmux_closed")
    /\ LET h == Touch(sys, <<"mux", Arg>>)
           k == h.resolver[Arg] + 1
       IN IF Arg2 = "ok" \/ k > Len(RESOLVERS)
          THEN Made(h, <<<<"intf_shutdown", <<"mux", Arg, "parent">>, Arg2>>>>)
          ELSE \E r \in resmux_try(Arg, k) :
                  Made([h EXCEPT !.resolver[Arg] = k], resmux_finished(Arg, r))

\* xfer_redirect() as named_resolv_done() calls it, by the default operation
\* xfer_vreopen() of the destination, which is held, and held once more by a
\* temporary interface.  Only a named socket that could not be redirected
\* tells the downloader.
Redirected_StillPlugged(n, dest, r) ==
    <<<<"intf_restart", dest, "ok">>>> \o r.calls
        \o <<<<"ref_put", Obj(dest)>>, <<"ref_put", Obj(dest)>>>> \o named_close(n, r.rc)

Redirected(n, dest, r) ==
    <<<<"intf_restart", dest, "ok">>>> \o r.calls
        \o <<<<"ref_put", Obj(dest)>>, <<"ref_put", Obj(dest)>>>>
        \o (IF r.rc = "ok" THEN <<<<"intf_plug", <<"named", n, "xfer">>, NullIntf>>>> ELSE <<>>)
        \o named_close(n, r.rc)

named_redirect ==
    /\ Calling("named_redirect")
    /\ LET dest == sys.dest[<<"named", Arg, "xfer">>] IN
       \E r \in tcp_open(dest, Arg) :
          Made(intf_get(intf_get(Touch(sys, <<"named", Arg>>), dest), dest),
               Redirected(Arg, dest, r))

Execute ==
    \/ intf_shutdown \/ intf_restart \/ restore_desc \/ intf_close \/ resolv_done
    \/ Primitive \/ new \/ start_timer \/ stop_timer \/ list_add \/ list_del
    \/ monojob_rc \/ tcp_closed \/ resmux_closed \/ named_redirect

-----------------------------------------------------------------------------
(* Steps, when the caller of step() is back in control.                    *)

Running == todo = <<>> /\ (job # 0 => rc = "inprogress")
Step(h, calls) == Running /\ sys' = h /\ todo' = calls /\ UNCHANGED outcome

imgdownload(n) ==
    /\ todo = <<>> /\ job = 0
    /\ result[n] = "none" /\ \A m \in 1..(n - 1) : result[m] # "none"
    /\ \E r \in create_downloader(n) :
          IF r.rc = "ok"
          THEN /\ todo' = r.calls \o <<<<"monojob_rc", "inprogress">>>>
               /\ job' = n /\ UNCHANGED result
          ELSE /\ todo' = r.calls
               /\ result' = [result EXCEPT ![n] = "err"] /\ UNCHANGED job
    /\ UNCHANGED <<sys, rc, complete>>

\* The end of monojob_wait(): the job is done or, at any time, even if it has
\* just been done, Ctrl-C or the timeout.
monojob_wait_ends(e) ==
    /\ todo = <<>> /\ job # 0 /\ e \in {rc, "err"}
    /\ todo' = monojob_close(e)
    /\ result' = [result EXCEPT ![job] = e] /\ job' = 0
    /\ UNCHANGED <<sys, rc, complete>>

\* step() takes numeric_step() from the run queue and holds its object.  The
\* name was numeric or it was not.
StepBegin_NotHeld(h, o) == process_del(h, o)
StepBegin(h, o) == process_del(ref_get(h, o), o)
StepEnd(o) == <<<<"ref_put", o>>>>

numeric_step_NotClosed(n, e) ==
    LET i == <<"numeric", n, "resolv">> IN
    /\ sys.queue # <<>> /\ Head(sys.queue) = Obj(i)
    /\ Step(StepBegin(sys, Obj(i)),
            (IF e = "ok" THEN <<<<"resolv_done", i>>>> ELSE <<<<"intf_shutdown", i, e>>>>)
                \o StepEnd(Obj(i)))

numeric_step(n, e) ==
    LET i == <<"numeric", n, "resolv">> IN
    /\ sys.queue # <<>> /\ Head(sys.queue) = Obj(i)
    /\ Step(StepBegin(sys, Obj(i)),
            (IF e = "ok" THEN <<<<"resolv_done", i>>>> ELSE <<>>)
                \o <<<<"intf_shutdown", i, e>>>> \o StepEnd(Obj(i)))

\* The request is given up; the timer's reference is dropped after the
\* callback.  (A retransmission changes nothing here.)
dns_timer_expired(n) ==
    /\ <<"dns", n>> \in sys.timers
    /\ Step([sys EXCEPT !.timers = @ \ {<<"dns", n>>}],
            dns_done(n, "err") \o <<<<"ref_put", <<"dns", n>>>>>>)

\* xfer_deliver() from a connection: the destination is held.
Deliver(i, calls) ==
    /\ Obj(i) \in DOMAIN sys.conns /\ sys.dest[i] \in sys.ops
    /\ Step(intf_get(sys, sys.dest[i]), calls \o <<<<"ref_put", Obj(sys.dest[i])>>>>)

\* An answer that settles the request.  (The others leave the timer running,
\* or restart it for the next question.)
dns_xfer_deliver(n, e) ==
    Deliver(<<"udp", n, "xfer">>, IF e = "ok" THEN dns_resolved(n) ELSE dns_done(n, e))

Tcp(n, states) == <<"tcp", n>> \in DOMAIN sys.conns /\ sys.conns[<<"tcp", n>>] \in states

tcp_rx_syn(n) ==
    /\ Tcp(n, {"SYN_SENT"})
    /\ Step([sys EXCEPT !.conns[<<"tcp", n>>] = "ESTABLISHED"], <<>>)

\* Data for which downloader_ensure_size() finds no memory.  (Other data only
\* grows the image.)
downloader_xfer_deliver(n) ==
    /\ Tcp(n, {"ESTABLISHED"})
    /\ Deliver(<<"tcp", n, "xfer">>, downloader_finished(n, "err"))

tcp_rx_fin(n) ==
    /\ Tcp(n, {"ESTABLISHED"}) /\ Running
    /\ todo' = tcp_close(n, "ok") /\ complete' = complete \cup {n}
    /\ UNCHANGED <<sys, rc, job, result>>

\* A reset, the last retransmission timeout or the end of TIME_WAIT
tcp_abort(n, e) ==
    /\ Tcp(n, IF e = "ok" THEN {"closing"} ELSE {"SYN_SENT", "ESTABLISHED", "closing"})
    /\ Step([sys EXCEPT !.conns[<<"tcp", n>>] = "CLOSED"], tcp_close(n, e))

NoObjects ==
    [count |-> <<>>, dest |-> [i \in Interfaces |-> NullIntf], ops |-> {Monojob},
     queue |-> <<>>, stray |-> FALSE, timers |-> {}, conns |-> <<>>,
     resolver |-> [n \in Jobs |-> 1]]

Init ==
    /\ sys = NoObjects
    /\ todo = <<>> /\ rc = "ok" /\ job = 0
    /\ result = [n \in Jobs |-> "none"] /\ complete = {}

Next ==
    \/ Execute
    \/ \E e \in {"ok", "err"} : monojob_wait_ends(e)
    \/ \E n \in Jobs :
          \/ imgdownload(n) \/ dns_timer_expired(n) \/ tcp_rx_syn(n)
          \/ downloader_xfer_deliver(n) \/ tcp_rx_fin(n)
          \/ \E e \in {"ok", "err"} :
                numeric_step(n, e) \/ dns_xfer_deliver(n, e) \/ tcp_abort(n, e)

\* A handler runs to its end, the caller of step() keeps stepping, a process
\* at the head of the queue gets its turn, and a DNS request that is not
\* settled times out in the end (RetriesEnd in RetryTimer; it asks a bounded
\* number of questions).
Fairness ==
    /\ WF_vars(Execute)
    /\ WF_vars(monojob_wait_ends(rc))
    /\ \A n \in Jobs :
          /\ SF_vars(\E e \in {"ok", "err"} : numeric_step(n, e))
          /\ SF_vars(dns_timer_expired(n))

-----------------------------------------------------------------------------
(* Properties.                                                             *)

Pointers(o) == {i \in Interfaces : Live(sys, Obj(i)) /\ Obj(sys.dest[i]) = o}
Listings(o) ==
    Cardinality({o} \cap sys.timers) + Cardinality({o} \cap DOMAIN sys.conns)
        + Cardinality({o} \cap {sys.queue[k] : k \in DOMAIN sys.queue})
Held(o) ==
    Cardinality({k \in DOMAIN todo : todo[k][1] \in {"ref_put", "list_add"} /\ todo[k][2] = o})

\* Whatever closes, fails or is given up while handlers call each other: no
\* handler goes on to use an object that was freed under it, and every count
\* is the number of references that exist (interfaces plugged in, lists, and
\* the calls in progress that hold one), so that nothing is freed too early
\* and nothing is kept by a reference nobody has.
RefsExact ==
    /\ ~sys.stray
    /\ \A o \in DOMAIN sys.count :
          sys.count[o] + 1 = Cardinality(Pointers(o)) + Listings(o) + Held(o)

\* At the far end of a download there is a connection, or a resolver with a
\* scheduled step or a running timer.
HasSource(n) ==
    LET x == sys.dest[<<"downloader", n, "xfer">>]
        r == sys.dest[<<"mux", n, "child">>]
    IN \/ x = <<"tcp", n, "xfer">> /\ Tcp(n, {"SYN_SENT", "ESTABLISHED"})
       \/ /\ x = <<"named", n, "xfer">>
          /\ sys.dest[<<"mux", n, "parent">>] = <<"named", n, "resolv">>
          /\ \/ r = <<"numeric", n, "resolv">> /\ Contains(sys.queue, <<"numeric", n>>)
             \/ r = <<"dns", n, "resolv">> /\ <<"dns", n>> \in sys.timers

\* No wait for something that cannot come: while monojob_wait() steps, it is
\* plugged into the downloader, both listen, and the downloader has a source.
WaitHasSource ==
    Running /\ job # 0 =>
        LET d == <<"downloader", job, "job">> IN
        /\ sys.dest[Monojob] = d /\ sys.dest[d] = Monojob
        /\ {Monojob, d, <<"downloader", job, "xfer">>} \subseteq sys.ops
        /\ HasSource(job)

\* imgdownload() returns success, and the image is registered, only if the
\* peer closed this download's connection after its last byte: none of the
\* closes with status 0 on the way (the redirection, the resolvers that are
\* done, an earlier download's connection) is mistaken for the end.
SuccessMeansComplete == \A n \in Jobs : result[n] = "ok" => n \in complete

\* A resolver that answers after its download was given up opens no
\* connection: a connection is opened only for the download being waited for.
NoLateSocket ==
    [][\A n \in Jobs :
          <<"tcp", n>> \in DOMAIN sys'.conns \ DOMAIN sys.conns
              => job = n /\ rc = "inprogress"]_vars

\* Everything but the TCP connection, which has its own end to wait for, is
\* freed some time after a download is over.
CleanedUp ==
    []<>\A o \in DOMAIN sys.count : result[o[2]] # "none" => o[1] = "tcp"

\* A download that is over is over, also when monojob_wait() gave it up while a
\* name was being resolved: what it left running opens no connection for it
\* and is freed.
NothingLeft == NoLateSocket /\ CleanedUp
=============================================================================
