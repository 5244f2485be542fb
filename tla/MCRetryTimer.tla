---------------------------- MODULE MCRetryTimer ----------------------------
(* Instances of RetryTimer for TLC: two timers, the second of which has its *)
(* own limits; time passes in steps of more than twice MIN_TIMEOUT.         *)
EXTENDS RetryTimer, TLC

CONSTANTS a, b

MCTimers == {a, b}
MCMinTimeout == (a :> 0) @@ (b :> 3)
MCMaxTimeout == (a :> 0) @@ (b :> 20)
SpinnerA == {a}
=============================================================================
