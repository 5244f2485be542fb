----------------------------- MODULE RetryTimer -----------------------------
(***************************************************************************)
(* The retry timers of net/retry.c: binary exponential back-off timers on  *)
(* one list, polled by one permanent process.  The program is a single     *)
(* thread of cooperating callbacks, so every exported function and every   *)
(* poll is one atomic step.                                                *)
(*                                                                         *)
(* Time is relative: "used" is the code's ( now - timer->start ), advanced *)
(* by Tick for the running timers, so that time never runs out and the     *)
(* liveness properties mean what they say.                                 *)
(***************************************************************************)
EXTENDS Integers, Sequences

CONSTANTS
    Timers,               \* the retry timers
    MIN_TIMEOUT,          \* 7 in the code
    DEFAULT_MIN_TIMEOUT,  \* used when min_timeout is 0
    DEFAULT_MAX_TIMEOUT,  \* used when max_timeout is 0
    MinTimeout,           \* [Timers -> Nat]: min_timeout set by the owner
    MaxTimeout,           \* [Timers -> Nat]: max_timeout set by the owner
    FixedTimeouts,        \* arguments owners give to start_timer_fixed()
    Spinners,             \* timers whose callback may call start_timer_nodelay()
    TickStep,             \* bound: ticks that pass between two observations
    MaxUsed,              \* bound: "used" saturates here
    MaxCount,             \* bound: "count" saturates here
    MaxCalls              \* bound: calls made from outside timer callbacks

ASSUME TimerConstants ==
    /\ MIN_TIMEOUT \in Nat /\ DEFAULT_MIN_TIMEOUT \in Nat \ {0}
    /\ DEFAULT_MAX_TIMEOUT \in Nat \ {0}
    /\ MinTimeout \in [Timers -> Nat] /\ MaxTimeout \in [Timers -> Nat]
    /\ FixedTimeouts \subseteq Nat
    /\ Spinners \subseteq Timers
    /\ TickStep \in Nat \ {0} /\ MaxUsed \in Nat
    /\ MaxCount \in Nat \ {0} /\ MaxCalls \in Nat

VARIABLES
    timer,   \* [Timers -> struct retry_timer]
    timers,  \* the list of running timers, first element first
    refcnt,  \* reference count of the object that contains each timer
    owned,   \* whether the owner still holds its reference
    calls    \* calls made so far from outside the callbacks

vars == <<timer, timers, refcnt, owned, calls>>

TimerRecord ==
    [running : BOOLEAN, timeout : Nat, min : Nat, max : Nat,
     used : Nat, count : Nat]

Saturate(n, cap) == IF n > cap THEN cap ELSE n
AtLeast(n, floor) == IF n < floor THEN floor ELSE n

-----------------------------------------------------------------------------
(* The four operations on one struct retry_timer.                          *)

EffectiveMin(r) ==
    AtLeast(IF r.min = 0 THEN DEFAULT_MIN_TIMEOUT ELSE r.min, MIN_TIMEOUT)

Started(r) ==
    [r EXCEPT !.running = TRUE, !.used = 0, !.min = EffectiveMin(r),
              !.timeout = AtLeast(@, EffectiveMin(r))]

StartedFixed(r, ticks) == [Started(r) EXCEPT !.timeout = ticks]

\* t := 7t/8 + r/2, in the code's integer arithmetic
Smoothed_RoundsUp(t, runtime) == t - (t + 7) \div 8 + runtime \div 2
Smoothed(t, runtime) == t - t \div 8 + runtime \div 2

\* A run that saw a retransmission (count > 0) is no round-trip sample.
CountAfterStop(r) == IF r.count > 0 THEN r.count - 1 ELSE r.count
TimeoutAfterStop(r) ==
    IF r.count > 0 THEN r.timeout ELSE Smoothed(r.timeout, r.used)

Stopped(r) ==
    IF ~r.running THEN r
    ELSE [r EXCEPT !.running = FALSE, !.used = 0,
                   !.count = CountAfterStop(r), !.timeout = TimeoutAfterStop(r)]

EffectiveMax(r) == IF r.max = 0 THEN DEFAULT_MAX_TIMEOUT ELSE r.max

Fail(r) == 2 * r.timeout > EffectiveMax(r)

BackedOff_Constant(r) == IF Fail(r) THEN EffectiveMax(r) ELSE r.timeout
BackedOff(r) == IF Fail(r) THEN EffectiveMax(r) ELSE 2 * r.timeout

Expired(r) ==
    [r EXCEPT !.running = FALSE, !.used = 0, !.max = EffectiveMax(r),
              !.count = Saturate(r.count + 1, MaxCount), !.timeout = BackedOff(r)]

Due(t) == timer[t].running /\ timer[t].used >= timer[t].timeout

-----------------------------------------------------------------------------
Init ==
    /\ timer = [t \in Timers |->
                  [running |-> FALSE, timeout |-> 0, min |-> MinTimeout[t],
                   max |-> MaxTimeout[t], used |-> 0, count |-> 0]]
    /\ timers = <<>>
    /\ refcnt = [t \in Timers |-> 0]
    /\ owned = [t \in Timers |-> TRUE]
    /\ calls = 0

Call == calls < MaxCalls /\ calls' = calls + 1

OnList(list, t) == \E i \in 1..Len(list) : list[i] = t

\* list_add() puts a timer at the head; a running timer keeps its place.
ListAdd_Unchecked(list, t) == <<t>> \o list
ListAdd(list, t) == IF OnList(list, t) THEN list ELSE <<t>> \o list

\* list_del() of the timers of S that are on the list.
ListDel(list, S) ==
    LET F[i \in 0..Len(list)] ==
          IF i = 0 THEN <<>>
          ELSE IF list[i] \in S THEN F[i - 1] ELSE Append(F[i - 1], list[i])
    IN F[Len(list)]

Refs(t, n) == [refcnt EXCEPT ![t] = @ + n]

start_timer(t) ==
    /\ Call /\ owned[t]
    /\ timer' = [timer EXCEPT ![t] = Started(@)]
    /\ timers' = ListAdd(timers, t)
    /\ refcnt' = IF timer[t].running THEN refcnt ELSE Refs(t, 1)
    /\ UNCHANGED owned

start_timer_fixed(t, ticks) ==
    /\ Call /\ owned[t]
    /\ timer' = [timer EXCEPT ![t] = StartedFixed(@, ticks)]
    /\ timers' = ListAdd(timers, t)
    /\ refcnt' = IF timer[t].running THEN refcnt ELSE Refs(t, 1)
    /\ UNCHANGED owned

stop_timer_NoPut(t) ==
    /\ Call /\ owned[t]
    /\ timer' = [timer EXCEPT ![t] = Stopped(@)]
    /\ timers' = ListDel(timers, {t})
    /\ UNCHANGED <<refcnt, owned>>

stop_timer(t) ==
    /\ Call /\ owned[t]
    /\ timer' = [timer EXCEPT ![t] = Stopped(@)]
    /\ timers' = ListDel(timers, {t})
    /\ refcnt' = IF timer[t].running THEN Refs(t, -1) ELSE refcnt
    /\ UNCHANGED owned

\* The owner drops its reference; a running timer keeps the object alive.
owner_put(t) ==
    /\ Call /\ owned[t]
    /\ owned' = [owned EXCEPT ![t] = FALSE]
    /\ refcnt' = Refs(t, -1)
    /\ UNCHANGED <<timer, timers>>

-----------------------------------------------------------------------------
(* retry_poll() handles the first due timer of the list, and at most one.  *)
(* The callback of timer t is one of those found in the program:           *)
(*   Rearm    restart with the backed-off timeout (tcp, arp, dns, dhcp...) *)
(*   Spin     restart with no delay (tftp while its window is zero)        *)
(*   GiveUp   finish: the owner's reference goes, and finishing may stop   *)
(*            the timers of other objects (tftp_done closes a dns request) *)
(* Every callback that retries gives up when it is told "fail"; a spinning *)
(* timer has timeout 0 and is never told so.                               *)

FirstDue(t) ==
    /\ Due(t)
    /\ \A i, j \in 1..Len(timers) :
          timers[j] = t /\ i < j => ~Due(timers[i])

Rearm(t) ==
    /\ FirstDue(t) /\ ~Fail(timer[t])
    /\ timer' = [timer EXCEPT ![t] = Started(Expired(@))]
    /\ timers' = ListAdd(ListDel(timers, {t}), t)
    /\ UNCHANGED <<refcnt, owned, calls>>

Spin(t) ==
    /\ FirstDue(t) /\ ~Fail(timer[t]) /\ t \in Spinners
    /\ timer' = [timer EXCEPT ![t] = StartedFixed(Expired(@), 0)]
    /\ timers' = ListAdd(ListDel(timers, {t}), t)
    /\ UNCHANGED <<refcnt, owned, calls>>

GiveUp(t, others) ==
    /\ FirstDue(t)
    /\ timer' = [u \in Timers |-> IF u = t THEN Expired(timer[u])
                                  ELSE IF u \in others THEN Stopped(timer[u])
                                  ELSE timer[u]]
    /\ timers' = ListDel(timers, others \cup {t})
    /\ refcnt' = [u \in Timers |->
                    IF u = t THEN refcnt[u] - 1 - (IF owned[u] THEN 1 ELSE 0)
                    ELSE IF u \in others /\ timer[u].running THEN refcnt[u] - 1
                    ELSE refcnt[u]]
    /\ owned' = [owned EXCEPT ![t] = FALSE]
    /\ UNCHANGED calls

retry_poll ==
    \E t \in Timers :
        \/ Rearm(t)
        \/ Spin(t)
        \/ \E others \in SUBSET {u \in Timers \ {t} : owned[u]} : GiveUp(t, others)

\* The passing of time.
Tick ==
    /\ \E t \in Timers : timer[t].running /\ timer[t].used < MaxUsed
    /\ timer' = [t \in Timers |->
                   IF timer[t].running
                   THEN [timer[t] EXCEPT !.used = Saturate(@ + TickStep, MaxUsed)]
                   ELSE timer[t]]
    /\ UNCHANGED <<timers, refcnt, owned, calls>>

Next ==
    \/ \E t \in Timers :
          \/ start_timer(t)
          \/ \E ticks \in FixedTimeouts : start_timer_fixed(t, ticks)
          \/ stop_timer(t)
          \/ owner_put(t)
    \/ retry_poll
    \/ Tick

Spec == Init /\ [][Next]_vars

\* The retry process is a permanent process of the round-robin run queue
\* (core/process.c), and the clock does not stop.
FairSpec == Spec /\ WF_vars(retry_poll) /\ WF_vars(Tick)

\* A callback restarts its timer with no delay only while something else is
\* not ready (tftp_send_packet() while xfer_window() is zero, udp/tftp.c:465),
\* not for ever: retry_poll() would never get past that timer.
PatientSpec == FairSpec /\ <>[][\A t \in Timers : ~Spin(t)]_vars

-----------------------------------------------------------------------------
(* Properties.                                                             *)

TypeOK ==
    /\ timer \in [Timers -> TimerRecord]
    /\ timers \in Seq(Timers)
    /\ refcnt \in [Timers -> Int]
    /\ owned \in [Timers -> BOOLEAN]
    /\ calls \in 0..MaxCalls

\* The list of running timers (retry.c:49) holds exactly the timers whose
\* "running" flag is set, each of them once: starting a running timer,
\* stopping a stopped one, or a callback that restarts its own timer and
\* stops others, never links a timer twice or leaves a stopped one linked.
ListExact ==
    /\ TypeOK
    /\ \A t \in Timers : timer[t].running <=> OnList(timers, t)
    /\ \A i, j \in 1..Len(timers) : timers[i] = timers[j] => i = j

\* A running timer holds one reference to its object (ref_get in
\* start_timer, ref_put in stop_timer and after the callback), so the object
\* is freed (count below zero) exactly when its owner has let go and its
\* timer is stopped: never under a running timer, never twice, never leaked.
RefsExact ==
    \A t \in Timers :
        refcnt[t] = (IF owned[t] THEN 1 ELSE 0)
                    + (IF timer[t].running THEN 1 ELSE 0) - 1

\* The comment on MIN_TIMEOUT (retry.c:42): the smoothing in stop_timer()
\* cannot bring a timeout that is at least seven ticks below seven, and the
\* back-off in timer_expired() does not lower it either.
FloorKept ==
    [][\A t \in Timers :
         timer[t].running /\ ~timer'[t].running /\ timer[t].timeout >= MIN_TIMEOUT
            => timer'[t].timeout >= MIN_TIMEOUT]_vars

\* Every timer comes to rest again and again.  No due timer waits for ever
\* behind others ("If stop_timer() is not called before the timer expires, the
\* timer will be stopped and the timer's callback function will be called",
\* retry.c:56), and the exponential back-off ends every retry loop: a timer
\* that its callback restarts each time is told "fail" after finitely many
\* expiries.
RetriesEnd == \A t \in Timers : []<>(~timer[t].running)
=============================================================================
