---------------------------- MODULE TimedProofs ----------------------------
(***************************************************************************)
(* Proofs about the retry timers, for any set of timers and any limits,    *)
(* and about two protocols that run on them: DHCP, for every number of     *)
(* ticks per second and every set of offers and boot servers, and the      *)
(* reassembly of fragments, for any number of sources, identifiers and     *)
(* buffers and any length of a datagram.                                   *)
(***************************************************************************)
EXTENDS RetryTimer, Dhcp, Fragment, WellFoundedInduction, TLAPS

\* The provers tried, in this order, where a step names none
USE SMT, Zenon, SMTT(90), ZenonT(60)

-----------------------------------------------------------------------------
(* Retry timers.                                                           *)

\* The part of TypeOK that the proofs below need: the order of the list of
\* running timers plays no role in them.
Typed ==
    /\ timer \in [Timers -> TimerRecord]
    /\ refcnt \in [Timers -> Int]
    /\ owned \in [Timers -> BOOLEAN]

\* Smoothing (stop_timer, retry.c:135) maps natural numbers to natural
\* numbers.
LEMMA SmoothedNat ==
    ASSUME NEW t \in Nat, NEW r \in Nat
    PROVE  Smoothed(t, r) \in Nat
  BY DEF Smoothed

\* The comment at retry.c:42: seven ticks is the least value that the
\* smoothing of stop_timer() can bring a timeout down to.
THEOREM SmoothingFloor ==
    ASSUME NEW t \in Nat, NEW r \in Nat, t >= 7
    PROVE  Smoothed(t, r) >= 7
  BY DEF Smoothed

\* Each operation on a struct retry_timer yields one again, and sets or
\* clears "running" as its name says.
LEMMA OperationTypes ==
    ASSUME NEW r \in TimerRecord
    PROVE  /\ Started(r) \in TimerRecord /\ Started(r).running
           /\ \A ticks \in Nat : /\ StartedFixed(r, ticks) \in TimerRecord
                                 /\ StartedFixed(r, ticks).running
           /\ Stopped(r) \in TimerRecord /\ ~Stopped(r).running
           /\ Expired(r) \in TimerRecord /\ ~Expired(r).running
  <1>1. EffectiveMin(r) \in Nat
    BY TimerConstants DEF EffectiveMin, AtLeast, TimerRecord
  <1>2. EffectiveMax(r) \in Nat
    BY TimerConstants DEF EffectiveMax, TimerRecord
  <1>3. Started(r) \in TimerRecord /\ Started(r).running
    BY Zenon, <1>1 DEF Started, AtLeast, TimerRecord
  <1>4. \A ticks \in Nat : /\ StartedFixed(r, ticks) \in TimerRecord
                           /\ StartedFixed(r, ticks).running
    BY <1>3 DEF StartedFixed, TimerRecord
  <1>5. Stopped(r) \in TimerRecord /\ ~Stopped(r).running
    <2>1. Smoothed(r.timeout, r.used) \in Nat
      BY SmoothedNat DEF TimerRecord
    <2>2. CountAfterStop(r) \in Nat /\ TimeoutAfterStop(r) \in Nat
      BY <2>1 DEF CountAfterStop, TimeoutAfterStop, TimerRecord
    <2>3. CASE r.running
      BY Zenon, <2>2, <2>3 DEF Stopped, TimerRecord
    <2>4. CASE ~r.running
      BY <2>4 DEF Stopped
    <2>5. QED
      BY <2>3, <2>4
  <1>6. Expired(r) \in TimerRecord /\ ~Expired(r).running
    <2>1. Saturate(r.count + 1, MaxCount) \in Nat /\ BackedOff(r) \in Nat
      BY <1>2, TimerConstants DEF Saturate, BackedOff, TimerRecord
    <2>2. QED
      BY Zenon, <1>2, <2>1 DEF Expired, TimerRecord
  <1>7. QED
    BY <1>3, <1>4, <1>5, <1>6

-----------------------------------------------------------------------------
(* The list of running timers.                                             *)

\* Two sequences joined.
LEMMA SeqJoin ==
    ASSUME NEW S, NEW p \in Seq(S), NEW q \in Seq(S)
    PROVE  /\ p \o q \in Seq(S) /\ Len(p \o q) = Len(p) + Len(q)
           /\ \A k \in 1..(Len(p) + Len(q)) :
                 (p \o q)[k] = IF k <= Len(p) THEN p[k] ELSE q[k - Len(p)]
  OBVIOUS

\* A sequence is a function on its places.
LEMMA SeqLen ==
    ASSUME NEW S, NEW p \in Seq(S)
    PROVE  Len(p) \in Nat /\ DOMAIN p = 1..Len(p) /\ p \in [1..Len(p) -> S]
  OBVIOUS

\* A function on the places up to n is a sequence.
LEMMA SeqOf ==
    ASSUME NEW S, NEW n \in Nat, NEW p \in [1..n -> S]
    PROVE  p \in Seq(S)
  OBVIOUS

\* Sequences of one length with the same elements are the same.
LEMMA SeqSame ==
    ASSUME NEW S, NEW p \in Seq(S), NEW q \in Seq(S),
           Len(p) = Len(q), \A k \in 1..Len(p) : p[k] = q[k]
    PROVE  p = q
  OBVIOUS

\* An element of a sequence over S is in S.
LEMMA SeqAt ==
    ASSUME NEW S, NEW p \in Seq(S), NEW k \in 1..Len(p)
    PROVE  p[k] \in S
  OBVIOUS

\* A sequence with one element replaced.
LEMMA SeqSet ==
    ASSUME NEW S, NEW p \in Seq(S), NEW k \in 1..Len(p), NEW x \in S
    PROVE  /\ [p EXCEPT ![k] = x] \in Seq(S) /\ Len([p EXCEPT ![k] = x]) = Len(p)
           /\ \A j \in 1..Len(p) : [p EXCEPT ![k] = x][j] = IF j = k THEN x ELSE p[j]
  OBVIOUS

\* A set of natural numbers that is not empty has a least element.
LEMMA LeastNat ==
    ASSUME NEW S, S \subseteq Nat, S # {}
    PROVE  \E n \in S : \A m \in S : n <= m
  <1> DEFINE R == OpToRel(<, Nat)
  <1>1. \A x, y \in Nat : <<y, x>> \in R <=> y < x
    BY Zenon DEF OpToRel
  <1>2. IsWellFoundedOn(R, Nat)
    BY Zenon, NatLessThanWellFounded
  <1> HIDE DEF R
  <1>3. \E x \in S : \A y \in S : ~(<<y, x>> \in R)
    BY Zenon, <1>2, WFMin
  <1>4. \E x \in S : \A y \in S : ~(y < x)
    BY Zenon, <1>1, <1>3
  <1>5. QED
    BY <1>4

\* The function that list_del() is defined by, on the first m places.
Walk(g, ts, S, m) ==
    g = [i \in 0..m |-> IF i = 0 THEN <<>>
                        ELSE IF ts[i] \in S THEN g[i - 1] ELSE Append(g[i - 1], ts[i])]

\* It exists: it can be continued by one place.
LEMMA WalkExists ==
    ASSUME NEW ts, NEW S, NEW n \in Nat
    PROVE  \E g : Walk(g, ts, S, n)
  <1> DEFINE Bad == {m \in Nat : ~\E g : Walk(g, ts, S, m)}
  <1> SUFFICES ASSUME Bad # {} PROVE FALSE
    OBVIOUS
  <1>1. PICK m \in Bad : \A k \in Bad : m <= k
    BY Zenon, LeastNat
  <1>2. CASE m = 0
    <2> DEFINE g == [i \in 0..0 |-> <<>>]
    <2>1. Walk(g, ts, S, 0)
      BY DEF Walk
    <2>2. QED
      BY <1>1, <1>2, <2>1
  <1>3. CASE m # 0
    <2>1. m \in Nat /\ m - 1 \in Nat /\ m - 1 \notin Bad
      BY <1>1, <1>3
    <2>2. PICK g : Walk(g, ts, S, m - 1)
      BY <2>1
    <2> DEFINE next == IF ts[m] \in S THEN g[m - 1] ELSE Append(g[m - 1], ts[m])
               h == [i \in 0..m |-> IF i = m THEN next ELSE g[i]]
               val(f, i) == IF i = 0 THEN <<>>
                            ELSE IF ts[i] \in S THEN f[i - 1] ELSE Append(f[i - 1], ts[i])
    <2>3. \A i \in 0..(m - 1) : g[i] = val(g, i)
      BY Zenon, <2>2 DEF Walk
    <2>4. \A i \in 0..m : h[i] = val(h, i)
      <3> SUFFICES ASSUME NEW i \in 0..m PROVE h[i] = val(h, i)
        BY Zenon
      <3>1. CASE i = m
        <4>1. h[i] = next /\ h[i - 1] = g[i - 1]
          BY <2>1, <3>1, <1>3
        <4>2. QED
          BY <1>3, <3>1, <4>1
      <3>2. CASE i # m
        <4>1. i \in 0..(m - 1) /\ h[i] = g[i]
          BY <2>1, <3>2
        <4>2. i # 0 => h[i - 1] = g[i - 1]
          BY <2>1, <4>1
        <4>3. QED
          BY <2>3, <4>1, <4>2
      <3>3. QED
        BY <3>1, <3>2
    <2>5. h = [i \in 0..m |-> h[i]]
      OBVIOUS
    <2> HIDE DEF h, next
    <2>6. Walk(h, ts, S, m)
      BY Zenon, <2>4, <2>5 DEF Walk
    <2>7. QED
      BY <1>1, <2>6
  <1>4. QED
    BY <1>2, <1>3

\* Its values.
Values(g, ts, S, n) ==
    /\ g[0] = <<>>
    /\ \A i \in 1..n : g[i] = IF ts[i] \in S THEN g[i - 1] ELSE Append(g[i - 1], ts[i])

\* The walk takes these values.
LEMMA WalkValues ==
    ASSUME NEW g, NEW ts, NEW S, NEW n \in Nat, Walk(g, ts, S, n)
    PROVE  Values(g, ts, S, n)
  <1> DEFINE val(i) == IF i = 0 THEN <<>>
                       ELSE IF ts[i] \in S THEN g[i - 1] ELSE Append(g[i - 1], ts[i])
  <1>1. \A i \in 0..n : g[i] = val(i)
    BY DEF Walk
  <1>2. 0 \in 0..n /\ \A i \in 1..n : i \in 0..n /\ i # 0
    OBVIOUS
  <1>3. QED
    BY <1>1, <1>2 DEF Values

\* No timer is on the list twice.
Distinct(s) == \A i, j \in 1..Len(s) : s[i] = s[j] => i = j

\* What w holds of the first i places of a list without the timers of S.
Kept(w, ts, S, i) ==
    /\ w \in Seq(Timers)
    /\ \A k \in 1..Len(w) : \E j \in 1..i : w[k] = ts[j] /\ ts[j] \notin S
    /\ \A j \in 1..i : ts[j] \notin S => \E k \in 1..Len(w) : w[k] = ts[j]
    /\ Distinct(ts) => Distinct(w)

\* list_del() leaves the other timers, each as often as it was there.
LEMMA ListDelEffect ==
    ASSUME NEW ts \in Seq(Timers), NEW S
    PROVE  /\ ListDel(ts, S) \in Seq(Timers)
           /\ \A u : OnList(ListDel(ts, S), u) <=> OnList(ts, u) /\ u \notin S
           /\ Distinct(ts) => Distinct(ListDel(ts, S))
  <1> DEFINE n == Len(ts)
             G == CHOOSE g : Walk(g, ts, S, n)
  <1>1. n \in Nat /\ \A i \in 1..n : ts[i] \in Timers
    OBVIOUS
  <1>2. Walk(G, ts, S, n)
    BY <1>1, WalkExists
  <1>3. ListDel(ts, S) = G[n]
    BY DEF ListDel, Walk
  <1> HIDE DEF G, n
  <1>a. /\ G[0] = <<>>
        /\ \A i \in 1..n : G[i] = IF ts[i] \in S THEN G[i - 1] ELSE Append(G[i - 1], ts[i])
    <2>1. Values(G, ts, S, n)
      BY Zenon, <1>1, <1>2, WalkValues
    <2>2. QED
      BY <2>1 DEF Values
  <1> DEFINE Bad == {i \in 0..n : ~Kept(G[i], ts, S, i)}
  <1>4. ASSUME Bad # {} PROVE FALSE
    <2>0. Bad \subseteq Nat
      BY <1>1
    <2>1. PICK m \in Bad : \A k \in Bad : m <= k
      BY Zenon, <1>4, <2>0, LeastNat
    <2>2. CASE m = 0
      <3>1. G[m] = <<>>
        BY <1>a, <2>2
      <3>2. Kept(<<>>, ts, S, 0)
        BY DEF Kept, Distinct
      <3>3. QED
        BY <2>1, <2>2, <3>1, <3>2
    <2>3. CASE m # 0
      <3> DEFINE k == m - 1
                 old == G[k]
      <3>1. m \in 1..n /\ k \in 0..n /\ k \notin Bad /\ m = k + 1
        BY <1>1, <2>1, <2>3
      <3>2. Kept(old, ts, S, k)
        BY <3>1
      <3>3. G[m] = IF ts[m] \in S THEN old ELSE Append(old, ts[m])
        BY <1>a, <3>1
      <3>4. ts[m] \in Timers
        BY <1>1, <3>1
      <3> HIDE DEF k
      <3>5. CASE ts[m] \in S
        <4>1. G[m] = old
          BY <3>3, <3>5
        <4> HIDE DEF old
        <4>2. \A i \in 1..Len(old) : \E j \in 1..m : old[i] = ts[j] /\ ts[j] \notin S
          BY <3>1, <3>2 DEF Kept
        <4>3. \A j \in 1..m : ts[j] \notin S => \E i \in 1..Len(old) : old[i] = ts[j]
          BY <3>1, <3>2, <3>5 DEF Kept
        <4>4. Kept(old, ts, S, m)
          BY Zenon, <3>2, <4>2, <4>3 DEF Kept
        <4>5. QED
          BY <2>1, <4>1, <4>4
      <3>6. CASE ts[m] \notin S
        <4> DEFINE l == Len(old)
                   new == G[m]
        <4>1. /\ new \in Seq(Timers) /\ Len(new) = l + 1 /\ l \in Nat /\ new[l + 1] = ts[m]
              /\ \A i \in 1..l : new[i] = old[i]
          BY <3>2, <3>3, <3>4, <3>6 DEF Kept
        <4>2. \A i \in 1..l : \E j \in 1..k : old[i] = ts[j] /\ ts[j] \notin S
          BY <3>2 DEF Kept
        <4>3. \A j \in 1..k : ts[j] \notin S => \E i \in 1..l : old[i] = ts[j]
          BY <3>2 DEF Kept
        <4>4. Distinct(ts) => Distinct(old)
          BY <3>2 DEF Kept
        <4> HIDE DEF l, new, Bad, old
        <4>5. \A i \in 1..Len(new) : \E j \in 1..m : new[i] = ts[j] /\ ts[j] \notin S
          BY <3>1, <3>6, <4>1, <4>2
        <4>6. \A j \in 1..m : ts[j] \notin S => \E i \in 1..Len(new) : new[i] = ts[j]
          BY <3>1, <4>1, <4>3
        <4>7. ASSUME Distinct(ts) PROVE Distinct(new)
          <5>1. \A i \in 1..l : old[i] # ts[m]
            BY <1>1, <3>1, <4>2, <4>7 DEF Distinct, n
          <5>2. \A i, j \in 1..l : old[i] = old[j] => i = j
            BY <4>4, <4>7 DEF Distinct, l
          <5>3. QED
            BY <4>1, <5>1, <5>2 DEF Distinct
        <4>8. Kept(new, ts, S, m)
          BY Zenon, <4>1, <4>5, <4>6, <4>7 DEF Kept
        <4>9. QED
          BY <2>1, <4>8 DEF Bad, new
      <3>7. QED
        BY <3>5, <3>6
    <2>4. QED
      BY <2>2, <2>3
  <1>5. Kept(G[n], ts, S, n)
    BY <1>1, <1>4
  <1> DEFINE W == G[n]
  <1>6. /\ W \in Seq(Timers)
        /\ \A k \in 1..Len(W) : \E j \in 1..n : W[k] = ts[j] /\ ts[j] \notin S
        /\ \A j \in 1..n : ts[j] \notin S => \E k \in 1..Len(W) : W[k] = ts[j]
        /\ Distinct(ts) => Distinct(W)
    BY <1>5 DEF Kept
  <1> HIDE DEF W
  <1>7. \A u : OnList(W, u) <=> OnList(ts, u) /\ u \notin S
    BY Zenon, <1>6 DEF OnList, n
  <1>8. QED
    BY <1>3, <1>6, <1>7 DEF W

\* list_add() of a timer that is not on the list puts it there once.
LEMMA ListAddEffect ==
    ASSUME NEW ts \in Seq(Timers), NEW t \in Timers
    PROVE  /\ ListAdd(ts, t) \in Seq(Timers)
           /\ \A u : OnList(ListAdd(ts, t), u) <=> OnList(ts, u) \/ u = t
           /\ Distinct(ts) => Distinct(ListAdd(ts, t))
  <1>1. CASE OnList(ts, t)
    BY <1>1 DEF ListAdd
  <1>2. CASE ~OnList(ts, t)
    <2> DEFINE new == ListAdd(ts, t)
               n == Len(ts)
    <2>1. /\ new \in Seq(Timers) /\ Len(new) = n + 1 /\ n \in Nat /\ new[1] = t
          /\ \A i \in 2..(n + 1) : new[i] = ts[i - 1]
      BY <1>2 DEF ListAdd
    <2>2. \A i \in 1..n : ts[i] = new[i + 1] /\ ts[i] # t
      BY <1>2, <2>1 DEF OnList
    <2> HIDE DEF new
    <2>3. \A u : OnList(new, u) <=> OnList(ts, u) \/ u = t
      <3> SUFFICES ASSUME NEW u PROVE OnList(new, u) <=> OnList(ts, u) \/ u = t
        OBVIOUS
      <3>1. ASSUME NEW i \in 1..Len(new), new[i] = u PROVE OnList(ts, u) \/ u = t
        <4>1. i = 1 \/ (i \in 2..(n + 1) /\ i - 1 \in 1..n)
          BY <2>1
        <4>2. QED
          BY <2>1, <3>1, <4>1 DEF OnList
      <3>2. ASSUME NEW i \in 1..n, ts[i] = u PROVE OnList(new, u)
        <4>1. i + 1 \in 1..Len(new) /\ new[i + 1] = u
          BY <2>1, <2>2, <3>2
        <4>2. QED
          BY <4>1 DEF OnList
      <3>3. u = t => OnList(new, u)
        BY <2>1 DEF OnList
      <3>4. QED
        BY <3>1, <3>2, <3>3 DEF OnList
    <2>4. ASSUME Distinct(ts) PROVE Distinct(new)
      <3>1. \A i, j \in 1..n : ts[i] = ts[j] => i = j
        BY <2>4 DEF Distinct
      <3> SUFFICES ASSUME NEW i \in 1..Len(new), NEW j \in 1..Len(new), new[i] = new[j]
                   PROVE  i = j
        BY DEF Distinct
      <3>2. (i = 1 \/ i - 1 \in 1..n) /\ (j = 1 \/ j - 1 \in 1..n) /\ i \in Nat /\ j \in Nat
        BY <2>1
      <3>3. /\ i # 1 => new[i] = ts[i - 1] /\ ts[i - 1] # t
            /\ j # 1 => new[j] = ts[j - 1] /\ ts[j - 1] # t
        BY <2>1, <2>2, <3>2
      <3>4. CASE i = 1 \/ j = 1
        BY <2>1, <3>3, <3>4
      <3>5. CASE i # 1 /\ j # 1
        <4>1. i - 1 = j - 1
          BY <3>1, <3>2, <3>3, <3>5
        <4>2. QED
          BY <3>2, <4>1
      <3>6. QED
        BY <3>4, <3>5
    <2>5. QED
      BY <2>1, <2>3, <2>4 DEF new
  <1>3. QED
    BY <1>1, <1>2

-----------------------------------------------------------------------------
(* References.                                                             *)

\* What every step preserves: the types, and the account of references.
RefsInv == Typed /\ RefsExact

\* The invariant holds at first: stopped timers, owned once.
LEMMA RefsInit == Init => RefsInv
  BY TimerConstants DEF Init, RefsInv, Typed, RefsExact, TimerRecord

\* Every step keeps it: a reference comes and goes with "running".
LEMMA RefsStep == RefsInv /\ [Next]_vars => RefsInv'
  <1> SUFFICES ASSUME RefsInv, [Next]_vars PROVE RefsInv'
    OBVIOUS
  <1> USE DEF RefsInv, Typed, RefsExact
  <1>1. ASSUME NEW t \in Timers, start_timer(t) PROVE RefsInv'
    BY <1>1, OperationTypes DEF start_timer, Refs
  <1>2. ASSUME NEW t \in Timers, NEW ticks \in FixedTimeouts,
               start_timer_fixed(t, ticks)
        PROVE RefsInv'
    <2>1. /\ StartedFixed(timer[t], ticks) \in TimerRecord
          /\ StartedFixed(timer[t], ticks).running
      BY Zenon, OperationTypes, TimerConstants
    <2>2. QED
      BY <1>2, <2>1 DEF start_timer_fixed, Refs
  <1>3. ASSUME NEW t \in Timers, stop_timer(t) PROVE RefsInv'
    BY <1>3, OperationTypes DEF stop_timer, Refs
  <1>4. ASSUME NEW t \in Timers, owner_put(t) PROVE RefsInv'
    BY <1>4 DEF owner_put, Refs
  <1>5. ASSUME NEW t \in Timers, Rearm(t) PROVE RefsInv'
    <2>1. /\ Started(Expired(timer[t])) \in TimerRecord
          /\ Started(Expired(timer[t])).running
      BY OperationTypes
    <2>2. QED
      BY <1>5, <2>1 DEF Rearm, FirstDue, Due
  <1>6. ASSUME NEW t \in Timers, Spin(t) PROVE RefsInv'
    <2>1. /\ StartedFixed(Expired(timer[t]), 0) \in TimerRecord
          /\ StartedFixed(Expired(timer[t]), 0).running
      BY Zenon, OperationTypes
    <2>2. QED
      BY <1>6, <2>1 DEF Spin, FirstDue, Due
  <1>7. ASSUME NEW t \in Timers,
               NEW others \in SUBSET {u \in Timers \ {t} : owned[u]},
               GiveUp(t, others)
        PROVE RefsInv'
    <2>1. \A u \in Timers : /\ timer'[u] \in TimerRecord
                            /\ u = t => ~timer'[u].running
                            /\ u \in others => ~timer'[u].running
                            /\ u # t /\ u \notin others => timer'[u] = timer[u]
      BY <1>7, OperationTypes DEF GiveUp
    <2>2. \A u \in Timers : u \in others /\ ~timer[u].running
                              => ~timer'[u].running
      BY <2>1
    <2>3. Typed'
      BY <1>7, <2>1 DEF GiveUp
    <2>4. RefsExact'
      BY <1>7, <2>1 DEF GiveUp, FirstDue, Due
    <2>5. QED
      BY <2>3, <2>4
  <1>8. ASSUME Tick PROVE RefsInv'
    <2>1. \A t \in Timers : /\ timer'[t] \in TimerRecord
                            /\ timer'[t].running = timer[t].running
      BY <1>8, TimerConstants DEF Tick, Saturate, TimerRecord
    <2>2. QED
      BY <1>8, <2>1 DEF Tick
  <1>9. ASSUME UNCHANGED vars PROVE RefsInv'
    BY <1>9 DEF vars
  <1>10. QED
    BY Zenon, <1>1, <1>2, <1>3, <1>4, <1>5, <1>6, <1>7, <1>8, <1>9
    DEF Next, retry_poll

\* For any number of timers: an object is freed exactly when its owner has
\* let go of it and its timer is stopped, whatever the callbacks do.
THEOREM RefsCorrect == Spec => []RefsExact
  <1>1. RefsInv => RefsExact
    BY DEF RefsInv
  <1>2. QED
    BY RefsInit, RefsStep, <1>1, PTL DEF Spec

-----------------------------------------------------------------------------
(* The list of running timers.                                             *)

\* The inductive invariant: the list and the "running" flags agree.
ListInv ==
    /\ Typed /\ calls \in 0..MaxCalls
    /\ timers \in Seq(Timers) /\ Distinct(timers)
    /\ \A t \in Timers : timer[t].running <=> OnList(timers, t)

\* One timer is linked, or stays linked, and runs.
LEMMA Linked ==
    ASSUME ListInv, NEW t \in Timers, NEW r, r.running,
           timer' = [timer EXCEPT ![t] = r],
           timers' = ListAdd(timers, t) \/ timers' = ListAdd(ListDel(timers, {t}), t)
    PROVE  /\ timers' \in Seq(Timers) /\ Distinct(timers')
           /\ \A u \in Timers : timer'[u].running <=> OnList(timers', u)
  <1> DEFINE cut == ListDel(timers, {t})
  <1>1. /\ cut \in Seq(Timers) /\ Distinct(cut)
        /\ \A u : OnList(cut, u) <=> OnList(timers, u) /\ u \notin {t}
    BY Zenon, ListDelEffect DEF ListInv
  <1> HIDE DEF cut
  <1>2. /\ timers' \in Seq(Timers) /\ Distinct(timers')
        /\ \A u : OnList(timers', u) <=> OnList(timers, u) \/ u = t
    <2>1. CASE timers' = ListAdd(timers, t)
      BY Zenon, <2>1, ListAddEffect DEF ListInv
    <2>2. CASE timers' = ListAdd(cut, t)
      <3>1. /\ ListAdd(cut, t) \in Seq(Timers) /\ Distinct(ListAdd(cut, t))
            /\ \A u : OnList(ListAdd(cut, t), u) <=> OnList(cut, u) \/ u = t
        BY Zenon, <1>1, ListAddEffect
      <3>2. QED
        BY <1>1, <2>2, <3>1
    <2>3. QED
      BY <2>1, <2>2 DEF cut
  <1>3. \A u \in Timers : timer'[u] = IF u = t THEN r ELSE timer[u]
    BY DEF ListInv, Typed
  <1>4. QED
    BY <1>2, <1>3 DEF ListInv

\* Timers are unlinked and stop running.
LEMMA Unlinked ==
    ASSUME ListInv, NEW S, timers' = ListDel(timers, S),
           \A u \in Timers : IF u \in S THEN ~timer'[u].running ELSE timer'[u] = timer[u]
    PROVE  /\ timers' \in Seq(Timers) /\ Distinct(timers')
           /\ \A u \in Timers : timer'[u].running <=> OnList(timers', u)
  <1>1. /\ timers' \in Seq(Timers) /\ Distinct(timers')
        /\ \A u : OnList(timers', u) <=> OnList(timers, u) /\ u \notin S
    BY Zenon, ListDelEffect DEF ListInv
  <1>2. QED
    BY <1>1 DEF ListInv

\* The invariant holds at first: nothing is linked.
LEMMA ListInit == Init => ListInv
  <1> SUFFICES ASSUME Init PROVE ListInv
    OBVIOUS
  <1>1. Typed /\ calls \in 0..MaxCalls
    BY RefsInit, TimerConstants DEF RefsInv, Init
  <1>2. timers = <<>> /\ \A t \in Timers : ~timer[t].running
    BY DEF Init
  <1>3. QED
    BY <1>1, <1>2 DEF ListInv, Distinct, OnList

\* Every step keeps it: linking and unlinking go with "running".
LEMMA ListStep == ListInv /\ RefsInv /\ [Next]_vars => ListInv'
  <1> SUFFICES ASSUME ListInv, RefsInv, [Next]_vars PROVE ListInv'
    OBVIOUS
  <1> DEFINE Good == /\ timers' \in Seq(Timers) /\ Distinct(timers')
                     /\ \A u \in Timers : timer'[u].running <=> OnList(timers', u)
  <1>0. Typed' /\ Typed /\ \A t \in Timers : timer[t] \in TimerRecord
    BY RefsStep DEF RefsInv, Typed
  <1>c. calls' \in 0..MaxCalls
    <2>1. Call \/ calls' = calls
      BY Zenon DEF Next, start_timer, start_timer_fixed, stop_timer, owner_put, retry_poll,
         Rearm, Spin, GiveUp, Tick, vars
    <2>2. MaxCalls \in Nat /\ calls \in 0..MaxCalls
      BY TimerConstants DEF ListInv
    <2>3. QED
      BY <2>1, <2>2 DEF Call
  <1>1. ASSUME NEW t \in Timers, start_timer(t) PROVE Good
    <2>1. Started(timer[t]).running
      BY <1>0, OperationTypes
    <2>2. timer' = [timer EXCEPT ![t] = Started(timer[t])] /\ timers' = ListAdd(timers, t)
      BY <1>1 DEF start_timer
    <2>3. QED
      BY Zenon, <2>1, <2>2, Linked
  <1>2. ASSUME NEW t \in Timers, NEW ticks \in FixedTimeouts, start_timer_fixed(t, ticks)
        PROVE  Good
    <2>1. StartedFixed(timer[t], ticks).running
      BY Zenon, <1>0, OperationTypes, TimerConstants
    <2>2. /\ timer' = [timer EXCEPT ![t] = StartedFixed(timer[t], ticks)]
          /\ timers' = ListAdd(timers, t)
      BY <1>2 DEF start_timer_fixed
    <2>3. QED
      BY Zenon, <2>1, <2>2, Linked
  <1>3. ASSUME NEW t \in Timers, stop_timer(t) PROVE Good
    <2>1. timers' = ListDel(timers, {t})
      BY <1>3 DEF stop_timer
    <2>2. \A u \in Timers : IF u \in {t} THEN ~timer'[u].running ELSE timer'[u] = timer[u]
      BY ZenonT(60), <1>0, <1>3, OperationTypes DEF stop_timer, Typed
    <2>3. QED
      BY ZenonT(60), <2>1, <2>2, Unlinked
  <1>4. ASSUME NEW t \in Timers, owner_put(t) PROVE Good
    BY <1>4 DEF owner_put, ListInv
  <1>5. ASSUME NEW t \in Timers, Rearm(t) PROVE Good
    <2>1. Started(Expired(timer[t])).running
      BY <1>0, OperationTypes
    <2>2. /\ timer' = [timer EXCEPT ![t] = Started(Expired(timer[t]))]
          /\ timers' = ListAdd(ListDel(timers, {t}), t)
      BY <1>5 DEF Rearm
    <2>3. QED
      BY ZenonT(60), <2>1, <2>2, Linked
  <1>6. ASSUME NEW t \in Timers, Spin(t) PROVE Good
    <2>1. StartedFixed(Expired(timer[t]), 0).running
      BY <1>0, OperationTypes
    <2>2. /\ timer' = [timer EXCEPT ![t] = StartedFixed(Expired(timer[t]), 0)]
          /\ timers' = ListAdd(ListDel(timers, {t}), t)
      BY <1>6 DEF Spin
    <2>3. QED
      BY ZenonT(60), <2>1, <2>2, Linked
  <1>7. ASSUME NEW t \in Timers, NEW others \in SUBSET {u \in Timers \ {t} : owned[u]},
               GiveUp(t, others)
        PROVE  Good
    <2> DEFINE S == others \cup {t}
    <2>1. timers' = ListDel(timers, S)
      BY ZenonT(90), <1>7 DEF GiveUp
    <2>2. \A u \in Timers : IF u \in S THEN ~timer'[u].running ELSE timer'[u] = timer[u]
      BY <1>0, <1>7, OperationTypes DEF GiveUp
    <2> HIDE DEF S
    <2>3. QED
      BY ZenonT(60), <2>1, <2>2, Unlinked
  <1>8. ASSUME Tick PROVE Good
    <2>1. \A t \in Timers : timer'[t].running = timer[t].running
      BY <1>0, <1>8 DEF Tick, TimerRecord
    <2>2. timers' = timers
      BY <1>8 DEF Tick
    <2>3. QED
      BY <2>1, <2>2 DEF ListInv
  <1>9. ASSUME UNCHANGED vars PROVE Good
    BY <1>9 DEF vars, ListInv
  <1>10. Good
    BY Zenon, <1>1, <1>2, <1>3, <1>4, <1>5, <1>6, <1>7, <1>8, <1>9 DEF Next, retry_poll
  <1>11. QED
    BY Zenon, <1>0, <1>c, <1>10 DEF ListInv

\* For any number of timers: the list holds exactly the running timers, each
\* once, whatever the callbacks restart and stop.
THEOREM ListCorrect == Spec => []ListExact
  <1>1. ListInv => ListExact
    BY DEF ListInv, Typed, ListExact, TypeOK, Distinct
  <1>2. QED
    BY RefsInit, RefsStep, ListInit, ListStep, <1>1, PTL DEF Spec

-----------------------------------------------------------------------------
(* The floor.                                                              *)

\* No owner asks for a maximum below the floor (in this program they are
\* multiples of TICKS_PER_SEC); "0" stands for the default.
MaximaAboveFloor ==
    /\ DEFAULT_MAX_TIMEOUT >= MIN_TIMEOUT
    /\ \A t \in Timers : MaxTimeout[t] = 0 \/ MaxTimeout[t] >= MIN_TIMEOUT

MaxKept == \A t \in Timers : timer[t].max = 0 \/ timer[t].max >= MIN_TIMEOUT

\* What one operation does to the maximum and, when the timer stops, to the
\* timeout.
LEMMA OperationFloor ==
    ASSUME MIN_TIMEOUT <= 7, DEFAULT_MAX_TIMEOUT >= MIN_TIMEOUT,
           NEW r \in TimerRecord, r.max = 0 \/ r.max >= MIN_TIMEOUT
    PROVE  /\ Started(r).max = r.max /\ \A ticks : StartedFixed(r, ticks).max = r.max
           /\ Stopped(r).max = r.max /\ Expired(r).max >= MIN_TIMEOUT
           /\ r.timeout >= MIN_TIMEOUT => /\ Stopped(r).timeout >= MIN_TIMEOUT
                                          /\ Expired(r).timeout >= MIN_TIMEOUT
  <1>1. Started(r).max = r.max /\ \A ticks : StartedFixed(r, ticks).max = r.max
    BY DEF Started, StartedFixed, TimerRecord
  <1>2. Stopped(r).max = r.max
    BY DEF Stopped, TimerRecord
  <1>3. EffectiveMax(r) \in Nat /\ EffectiveMax(r) >= MIN_TIMEOUT /\ MIN_TIMEOUT \in Nat
    BY TimerConstants DEF EffectiveMax, TimerRecord
  <1>4. Expired(r).max = EffectiveMax(r) /\ Expired(r).timeout = BackedOff(r)
    BY DEF Expired, TimerRecord
  <1>5. ASSUME r.timeout >= MIN_TIMEOUT
        PROVE  Stopped(r).timeout >= MIN_TIMEOUT /\ Expired(r).timeout >= MIN_TIMEOUT
    <2> DEFINE x == r.timeout
               y == r.used
    <2>1. x \in Nat /\ y \in Nat /\ x >= MIN_TIMEOUT
      BY <1>5 DEF TimerRecord
    <2> HIDE DEF x, y
    <2>2. Smoothed(x, y) >= MIN_TIMEOUT
      BY <1>3, <2>1 DEF Smoothed
    <2>3. Stopped(r).timeout >= MIN_TIMEOUT
      <3>1. Stopped(r).timeout \in {r.timeout, TimeoutAfterStop(r)}
        BY DEF Stopped, TimerRecord
      <3>2. QED
        BY <1>5, <2>2, <3>1 DEF TimeoutAfterStop, x, y
    <2>4. BackedOff(r) >= MIN_TIMEOUT
      BY <1>3, <2>1 DEF BackedOff, x
    <2>5. QED
      BY <1>4, <2>3, <2>4
  <1>6. QED
    BY <1>1, <1>2, <1>3, <1>4, <1>5

\* One step, for each timer.
LEMMA FloorStep ==
    ASSUME MIN_TIMEOUT <= 7, MaximaAboveFloor, Typed, MaxKept, [Next]_vars
    PROVE  \A t \in Timers :
             /\ timer'[t].max = 0 \/ timer'[t].max >= MIN_TIMEOUT
             /\ timer[t].running /\ ~timer'[t].running /\ timer[t].timeout >= MIN_TIMEOUT
                  => timer'[t].timeout >= MIN_TIMEOUT
  <1> SUFFICES ASSUME NEW t \in Timers
               PROVE  /\ timer'[t].max = 0 \/ timer'[t].max >= MIN_TIMEOUT
                      /\ timer[t].running /\ ~timer'[t].running
                           /\ timer[t].timeout >= MIN_TIMEOUT
                           => timer'[t].timeout >= MIN_TIMEOUT
    OBVIOUS
  <1> DEFINE r == timer[t]
  <1>1. r \in TimerRecord /\ (r.max = 0 \/ r.max >= MIN_TIMEOUT)
    BY DEF Typed, MaxKept
  <1>2. \/ timer'[t] = r
        \/ timer'[t] = Started(r)
        \/ \E ticks \in FixedTimeouts : timer'[t] = StartedFixed(r, ticks)
        \/ timer'[t] = Stopped(r)
        \/ timer'[t] = Started(Expired(r))
        \/ timer'[t] = StartedFixed(Expired(r), 0)
        \/ timer'[t] = Expired(r)
        \/ \E n : timer'[t] = [r EXCEPT !.used = n]
    <2> USE DEF Typed
    <2>1. ASSUME NEW u \in Timers, start_timer(u)
          PROVE  timer'[t] \in {r, Started(r)}
      BY <2>1 DEF start_timer
    <2>2. ASSUME NEW u \in Timers, NEW ticks \in FixedTimeouts, start_timer_fixed(u, ticks)
          PROVE  timer'[t] \in {r, StartedFixed(r, ticks)}
      BY <2>2 DEF start_timer_fixed
    <2>3. ASSUME NEW u \in Timers, stop_timer(u)
          PROVE  timer'[t] \in {r, Stopped(r)}
      BY <2>3 DEF stop_timer
    <2>4. ASSUME NEW u \in Timers, owner_put(u)
          PROVE  timer'[t] = r
      BY <2>4 DEF owner_put
    <2>5. ASSUME NEW u \in Timers, Rearm(u)
          PROVE  timer'[t] \in {r, Started(Expired(r))}
      BY <2>5 DEF Rearm
    <2>6. ASSUME NEW u \in Timers, Spin(u)
          PROVE  timer'[t] \in {r, StartedFixed(Expired(r), 0)}
      BY <2>6 DEF Spin
    <2>7. ASSUME NEW u \in Timers, NEW others, GiveUp(u, others)
          PROVE  timer'[t] \in {r, Expired(r), Stopped(r)}
      BY <2>7 DEF GiveUp
    <2>8. ASSUME Tick
          PROVE  timer'[t] = r \/ \E n : timer'[t] = [r EXCEPT !.used = n]
      <3>1. CASE r.running
        <4>1. timer'[t] = [r EXCEPT !.used = Saturate(r.used + TickStep, MaxUsed)]
          BY <2>8, <3>1 DEF Tick
        <4>2. QED
          BY Zenon, <4>1
      <3>2. CASE ~r.running
        BY <2>8, <3>2 DEF Tick
      <3>3. QED
        BY Zenon, <3>1, <3>2
    <2>9. ASSUME UNCHANGED vars PROVE timer'[t] = r
      BY <2>9 DEF vars
    <2> HIDE DEF r
    <2>10. QED
      BY Zenon, <2>1, <2>2, <2>3, <2>4, <2>5, <2>6, <2>7, <2>8, <2>9 DEF Next, retry_poll
  <1> HIDE DEF r
  <1>3. /\ Started(r).max = r.max /\ \A ticks : StartedFixed(r, ticks).max = r.max
        /\ Stopped(r).max = r.max /\ Expired(r).max >= MIN_TIMEOUT
        /\ r.timeout >= MIN_TIMEOUT => /\ Stopped(r).timeout >= MIN_TIMEOUT
                                       /\ Expired(r).timeout >= MIN_TIMEOUT
    BY <1>1, OperationFloor DEF MaximaAboveFloor
  <1>4. /\ Started(r).running /\ \A ticks \in FixedTimeouts : StartedFixed(r, ticks).running
        /\ Expired(r) \in TimerRecord
    BY Zenon, <1>1, OperationTypes, TimerConstants
  <1>5. /\ Started(Expired(r)).running /\ StartedFixed(Expired(r), 0).running
        /\ Started(Expired(r)).max = Expired(r).max
        /\ StartedFixed(Expired(r), 0).max = Expired(r).max
    <2>1. Started(Expired(r)).running /\ StartedFixed(Expired(r), 0).running
      BY <1>4, OperationTypes
    <2>2. QED
      BY <1>3, <1>4, <2>1, OperationFloor DEF MaximaAboveFloor
  <1>6. \A n : /\ [r EXCEPT !.used = n].max = r.max
               /\ [r EXCEPT !.used = n].running = r.running
    BY <1>1 DEF TimerRecord
  <1> DEFINE Good(s) == /\ s.max = 0 \/ s.max >= MIN_TIMEOUT
                        /\ r.running /\ ~s.running /\ r.timeout >= MIN_TIMEOUT
                             => s.timeout >= MIN_TIMEOUT
  <1>7. /\ Good(r) /\ Good(Started(r)) /\ \A ticks \in FixedTimeouts : Good(StartedFixed(r, ticks))
        /\ Good(Stopped(r)) /\ Good(Expired(r))
    BY Zenon, <1>1, <1>3, <1>4
  <1>8. Good(Started(Expired(r))) /\ Good(StartedFixed(Expired(r), 0))
    BY Zenon, <1>3, <1>5
  <1>9. \A n : Good([r EXCEPT !.used = n])
    BY Zenon, <1>1, <1>6
  <1> HIDE DEF Good
  <1>10. Good(timer'[t])
    BY Zenon, <1>2, <1>7, <1>8, <1>9
  <1>11. QED
    BY Zenon, <1>10 DEF Good, r

\* The comment on MIN_TIMEOUT (retry.c:42), for any number of timers and any
\* history: neither smoothing nor back-off brings a timeout from seven ticks or
\* more to below seven.
THEOREM FloorHolds ==
    ASSUME MIN_TIMEOUT <= 7, MaximaAboveFloor
    PROVE  Spec => FloorKept
  <1>1. Init => MaxKept
    <2> SUFFICES ASSUME Init, NEW t \in Timers
                 PROVE  timer[t].max = 0 \/ timer[t].max >= MIN_TIMEOUT
      BY Zenon DEF MaxKept
    <2>1. timer[t] = [running |-> FALSE, timeout |-> 0, min |-> MinTimeout[t],
                      max |-> MaxTimeout[t], used |-> 0, count |-> 0]
      BY Zenon DEF Init
    <2>2. timer[t].max = MaxTimeout[t]
      BY <2>1
    <2>3. QED
      BY Zenon, <2>2 DEF MaximaAboveFloor
  <1>2. RefsInv /\ MaxKept /\ [Next]_vars => MaxKept'
    BY FloorStep DEF RefsInv, MaxKept
  <1>3. RefsInv /\ MaxKept /\ [Next]_vars
          => [\A t \in Timers :
                timer[t].running /\ ~timer'[t].running /\ timer[t].timeout >= MIN_TIMEOUT
                  => timer'[t].timeout >= MIN_TIMEOUT]_vars
    BY FloorStep DEF RefsInv
  <1>4. QED
    BY RefsInit, RefsStep, <1>1, <1>2, <1>3, PTL DEF Spec, FloorKept

-----------------------------------------------------------------------------
(* DHCP.                                                                   *)

Fields ==
    {"state", "xid", "offer", "server", "priority", "no_pxedhcp", "proxy_server",
     "proxy_offer", "proxy_priority", "local", "pxe_type", "attempt", "filter", "accept",
     "timer", "started", "timeout", "elapsed", "rc", "tx"}

IsSession(d) == d = [f \in Fields |-> d[f]]

\* The states in which dhcp.c gives up before the timer reports failure
GivesUp(d) == ~(d.state = "request" \/ (d.state = "discover" /\ d.offer = NoAddr))

\* The timeout doubles with the elapsed time, and a state that gives up
\* restarts the timer only until its limit.
DhcpBackedOff(d) ==
    /\ d.started <= d.elapsed
    /\ d.timeout <= d.started + StateTimeout(d.state)
    /\ GivesUp(d) => d.started <= Limit(d.state)

Timed(d) ==
    /\ IsSession(d)
    /\ d.state \in {"none", "discover", "request", "proxy", "pxebs"}
    /\ d.started \in Nat /\ d.timeout \in Nat /\ d.elapsed \in Nat
    /\ d.timer => d.rc = "open" /\ DhcpBackedOff(d)
    /\ d.rc = "open" => d.state # "none"
    /\ d.rc = "timedout" => ~GivesUp(d)

-----------------------------------------------------------------------------
\* The minimum timeouts are natural numbers, and twice the longest timeout
\* that a state which gives up can reach is within DHCP_MAX_TIMEOUT.
LEMMA Timeouts ==
    /\ \A state : StateTimeout(state) \in Nat
    /\ \A state : Limit(state) \in Nat
    /\ \A state : 2 * (Limit(state) + StateTimeout(state)) <= DHCP_MAX_TIMEOUT
    /\ DHCP_MAX_TIMEOUT \in Nat
<1>1. TICKS_PER_SEC \in Nat /\ TICKS_PER_SEC >= 1
  BY DhcpAssumption
<1>2. TICKS_PER_SEC \div 4 \in Nat /\ TICKS_PER_SEC \div 4 <= TICKS_PER_SEC
  BY <1>1
<1>3. /\ StateTimeout("discover") = Least(DHCP_DISCOVER_MIN_TIMEOUT)
      /\ StateTimeout("pxebs") = Least(DHCP_MIN_TIMEOUT)
      /\ \A state : state \notin {"discover", "pxebs"} =>
            StateTimeout(state) = Least(TICKS_PER_SEC \div 4)
  BY Zenon DEF StateTimeout
<1>. QED
  BY <1>1, <1>2, <1>3 DEF Least, Limit, DHCP_DISCOVER_MIN_TIMEOUT, DHCP_MIN_TIMEOUT,
     DHCP_MAX_TIMEOUT, PROXYDHCP_MAX_TIMEOUT, PXEBS_MAX_TIMEOUT

\* Entering a state starts the timer with no delay (dhcp_set_state()).
LEMMA SetStateTimed ==
    ASSUME NEW d, IsSession(d), d.rc = "open",
           NEW state \in {"discover", "request", "proxy", "pxebs"}
    PROVE  Timed(dhcp_set_state(d, state))
<1>. DEFINE e == dhcp_set_state(d, state)
<1>1. IsSession(e)
  BY ZenonT(90) DEF dhcp_set_state, IsSession, Fields
<1>2. /\ e.state = state /\ e.rc = "open"
      /\ e.started = 0 /\ e.timeout = 0 /\ e.elapsed = 0
  BY Zenon DEF dhcp_set_state, IsSession, Fields
<1>. HIDE DEF e
<1>3. DhcpBackedOff(e)
  BY <1>2, Timeouts DEF DhcpBackedOff
<1>4. Timed(e)
  BY <1>1, <1>2, <1>3 DEF Timed
<1>. QED
  BY <1>4 DEF e

\* A session that ends has its timer stopped (dhcp_finished()).
LEMMA FinishedTimed ==
    ASSUME NEW d, Timed(d), NEW rc, rc = "timedout" => ~GivesUp(d)
    PROVE  Timed(dhcp_finished(d, rc))
<1>. DEFINE e == dhcp_finished(d, rc)
<1>1. IsSession(e)
  BY ZenonT(90) DEF dhcp_finished, IsSession, Fields, Timed
<1>2. /\ e.state = d.state /\ e.offer = d.offer /\ e.timer = FALSE
      /\ e.rc = IF d.rc = "open" THEN rc ELSE d.rc
      /\ e.started = d.started /\ e.timeout = d.timeout /\ e.elapsed = d.elapsed
  BY Zenon DEF dhcp_finished, IsSession, Fields, Timed
<1>. QED
  BY Zenon, <1>1, <1>2 DEF Timed, GivesUp

\* A field of the session that the timing does not depend on may change.
LEMMA OtherFields ==
    ASSUME NEW d, Timed(d), NEW e, IsSession(e),
           e.state = d.state, e.timer = d.timer, e.rc = d.rc,
           e.started = d.started, e.timeout = d.timeout, e.elapsed = d.elapsed,
           GivesUp(e) => GivesUp(d)
    PROVE  Timed(e)
BY DEF Timed, DhcpBackedOff

\* Transmitting restarts the timer (dhcp_tx()): the timeout, already doubled,
\* is no longer than the elapsed time and the minimum together.
LEMMA TxTimed ==
    ASSUME NEW d, IsSession(d), d.rc = "open",
           d.state \in {"discover", "request", "proxy", "pxebs"},
           d.timeout \in Nat, d.elapsed \in Nat,
           d.timeout <= d.elapsed + StateTimeout(d.state),
           GivesUp(d) => d.elapsed <= Limit(d.state)
    PROVE  Timed(dhcp_tx(d))
<1>. DEFINE e == dhcp_tx(d)
<1>1. IsSession(e)
  BY ZenonT(90) DEF dhcp_tx, IsSession, Fields
<1>2. /\ e.state = d.state /\ e.offer = d.offer /\ e.rc = d.rc
      /\ e.started = d.elapsed /\ e.elapsed = d.elapsed
      /\ e.timeout = IF d.timeout < StateTimeout(d.state) THEN StateTimeout(d.state) ELSE d.timeout
  BY Zenon DEF dhcp_tx, IsSession, Fields
<1>. HIDE DEF e
<1>3. e.timeout \in Nat /\ DhcpBackedOff(e)
  BY <1>2, Timeouts DEF DhcpBackedOff, GivesUp
<1>4. Timed(e)
  BY <1>1, <1>2, <1>3 DEF Timed
<1>. QED
  BY <1>4 DEF e

\* The timer's expiry (timer_expired() and dhcp_timer_expired()): in a state
\* that gives up twice the timeout is within DHCP_MAX_TIMEOUT.
LEMMA ExpiredTimed ==
    ASSUME NEW d, Timed(d), d.timer, d.elapsed >= d.started + d.timeout
    PROVE  Timed(DhcpExpired(d))
<1>. DEFINE fail == 2 * d.timeout > DHCP_MAX_TIMEOUT
            late == [d EXCEPT !.timer = FALSE,
                              !.timeout = IF fail THEN DHCP_MAX_TIMEOUT ELSE 2 * @]
<1>1. IsSession(late)
  BY ZenonT(60) DEF Timed, IsSession, Fields
<1>2. /\ late.state = d.state /\ late.offer = d.offer /\ late.rc = d.rc /\ late.timer = FALSE
      /\ late.started = d.started /\ late.elapsed = d.elapsed
      /\ late.timeout = IF fail THEN DHCP_MAX_TIMEOUT ELSE 2 * d.timeout
  BY Zenon DEF Timed, IsSession, Fields
<1>3. /\ fail => DhcpExpired(d) = dhcp_finished(late, "timedout")
      /\ ~fail /\ d.state = "discover" => DhcpExpired(d) = dhcp_discovery_expired(late)
      /\ ~fail /\ d.state = "request" => DhcpExpired(d) = dhcp_tx(late)
      /\ ~fail /\ d.state = "proxy" => DhcpExpired(d) = dhcp_proxy_expired(late)
      /\ ~fail /\ d.state = "pxebs" => DhcpExpired(d) = dhcp_pxebs_expired(late)
  BY Zenon DEF DhcpExpired
<1>. HIDE DEF late
<1>4. d.rc = "open" /\ d.state \in {"discover", "request", "proxy", "pxebs"}
  BY DEF Timed
<1>5. fail => ~GivesUp(d)
  BY Timeouts DEF Timed, DhcpBackedOff
<1>6. GivesUp(late) <=> GivesUp(d)
  BY <1>2 DEF GivesUp
<1>7. Timed(late)
  BY <1>1, <1>2, <1>4, Timeouts DEF Timed
<1>8. CASE fail
  BY <1>3, <1>5, <1>6, <1>7, <1>8, FinishedTimed
<1>9. CASE ~fail
  <2>1. ASSUME GivesUp(late) => late.elapsed <= Limit(late.state)
        PROVE  Timed(dhcp_tx(late))
    <3>1. late.timeout <= late.elapsed + StateTimeout(late.state)
      BY <1>2, <1>9, Timeouts DEF Timed, DhcpBackedOff
    <3>. QED
      BY ZenonT(90), <1>1, <1>2, <1>4, <1>7, <2>1, <3>1, TxTimed DEF Timed
  <2>2. CASE d.state = "discover"
    <3>1. CASE late.offer # NoAddr /\ late.elapsed > PROXYDHCP_MAX_TIMEOUT
      BY ZenonT(90), <1>1, <1>2, <1>3, <1>4, <1>9, <2>2, <3>1, SetStateTimed DEF dhcp_discovery_expired
    <3>2. CASE ~(late.offer # NoAddr /\ late.elapsed > PROXYDHCP_MAX_TIMEOUT)
      <4>1. GivesUp(late) => late.elapsed <= Limit(late.state)
        BY <1>2, <1>7, <2>2, <3>2, DhcpAssumption DEF GivesUp, Limit, Timed, PROXYDHCP_MAX_TIMEOUT
      <4>. QED
        BY <1>3, <1>9, <2>1, <2>2, <3>2, <4>1 DEF dhcp_discovery_expired
    <3>. QED
      BY <3>1, <3>2
  <2>3. CASE d.state = "request"
    BY Zenon, <1>2, <1>3, <1>9, <2>1, <2>3 DEF GivesUp
  <2>4. CASE d.state = "proxy"
    <3>1. CASE late.elapsed > PROXYDHCP_MAX_TIMEOUT
      BY <1>3, <1>7, <1>9, <2>4, <3>1, FinishedTimed DEF dhcp_proxy_expired
    <3>2. CASE ~(late.elapsed > PROXYDHCP_MAX_TIMEOUT)
      <4>1. late.elapsed <= Limit(late.state)
        BY <1>2, <1>7, <2>4, <3>2, DhcpAssumption DEF Limit, Timed, PROXYDHCP_MAX_TIMEOUT
      <4>. QED
        BY <1>3, <1>9, <2>1, <2>4, <3>2, <4>1 DEF dhcp_proxy_expired
    <3>. QED
      BY <3>1, <3>2
  <2>5. CASE d.state = "pxebs"
    <3>. DEFINE next == [late EXCEPT !.attempt = Tail(@)]
    <3>1. /\ IsSession(next) /\ next.state = late.state /\ next.offer = late.offer
          /\ next.timer = late.timer /\ next.rc = late.rc /\ next.started = late.started
          /\ next.timeout = late.timeout /\ next.elapsed = late.elapsed
      BY <1>1, Zenon DEF IsSession, Fields
    <3>2. dhcp_pxebs_expired(late) =
            IF late.elapsed <= PXEBS_MAX_TIMEOUT THEN dhcp_tx(late)
            ELSE IF next.attempt # <<>> THEN dhcp_set_state(next, "pxebs")
            ELSE dhcp_finished(next, "unserved")
      BY Zenon DEF dhcp_pxebs_expired
    <3>. HIDE DEF next
    <3>3. Timed(next)
      BY <1>7, <3>1, OtherFields DEF GivesUp
    <3>4. CASE late.elapsed <= PXEBS_MAX_TIMEOUT
      BY <1>2, <1>3, <1>9, <2>1, <2>5, <3>2, <3>4 DEF Limit
    <3>5. CASE ~(late.elapsed <= PXEBS_MAX_TIMEOUT) /\ next.attempt # <<>>
      BY ZenonT(90), <1>2, <1>3, <1>4, <1>9, <2>5, <3>1, <3>2, <3>5, SetStateTimed
    <3>6. CASE ~(late.elapsed <= PXEBS_MAX_TIMEOUT) /\ next.attempt = <<>>
      BY <1>3, <1>9, <2>5, <3>2, <3>3, <3>6, FinishedTimed
    <3>. QED
      BY <3>4, <3>5, <3>6
  <2>. QED
    BY <1>4, <2>2, <2>3, <2>4, <2>5
<1>. QED
  BY <1>8, <1>9

\* A packet received in discovery: an offer taken after the limit moves on to
\* the request, so that a session that waits for a ProxyDHCP offer has
\* restarted its timer before it (dhcp_discovery_rx()).
LEMMA DiscoveryRxTimed ==
    ASSUME NEW d, Timed(d), d.rc = "open", d.state = "discover", NEW m
    PROVE  Timed(dhcp_discovery_rx(d, m))
<1>. DEFINE c == Selected(d, m)
            e == ProxySelected(c, m)
<1>1. IsSession(c)
  BY ZenonT(90) DEF Selected, Timed, IsSession, Fields
<1>2. /\ c.state = d.state /\ c.timer = d.timer /\ c.rc = d.rc
      /\ c.started = d.started /\ c.timeout = d.timeout /\ c.elapsed = d.elapsed
  BY Zenon DEF Selected, Timed, IsSession, Fields
<1>. HIDE DEF c
<1>3. IsSession(e)
  BY <1>1, Zenon DEF ProxySelected, IsSession, Fields
<1>4. /\ e.state = c.state /\ e.timer = c.timer /\ e.rc = c.rc
      /\ e.started = c.started /\ e.timeout = c.timeout /\ e.elapsed = c.elapsed
  BY <1>1, Zenon DEF ProxySelected, IsSession, Fields
<1>5. dhcp_discovery_rx(d, m) \in {d, e, dhcp_set_state(e, "request")}
  BY Zenon DEF dhcp_discovery_rx, c
<1>6. dhcp_discovery_rx(d, m) # d /\ dhcp_discovery_rx(d, m) # dhcp_set_state(e, "request")
         => ~(e.offer # NoAddr /\ e.elapsed > PROXYDHCP_MAX_TIMEOUT)
  BY Zenon DEF dhcp_discovery_rx, c
<1>. HIDE DEF e
<1>7. Timed(dhcp_set_state(e, "request"))
  BY <1>2, <1>3, <1>4, SetStateTimed
<1>8. ASSUME ~(e.offer # NoAddr /\ e.elapsed > PROXYDHCP_MAX_TIMEOUT) PROVE Timed(e)
  <2>1. d.timer => DhcpBackedOff(e)
    BY <1>2, <1>4, <1>8, DhcpAssumption
       DEF Timed, DhcpBackedOff, GivesUp, Limit, PROXYDHCP_MAX_TIMEOUT
  <2>. QED
    BY ZenonT(90), <1>2, <1>3, <1>4, <2>1 DEF Timed
<1>. QED
  BY <1>5, <1>6, <1>7, <1>8

\* A packet received in any state (dhcp_deliver())
LEMMA RxTimed ==
    ASSUME NEW d, Timed(d), d.rc = "open", NEW m, NEW fail, NEW xid
    PROVE  Timed(Rx(d, m, fail, xid))
<1>1. CASE ~Matching(d, m)
  BY <1>1 DEF Rx
<1>2. CASE Matching(d, m)
  <2>1. /\ d.state = "discover" => Rx(d, m, fail, xid) = dhcp_discovery_rx(d, m)
        /\ d.state = "request" => Rx(d, m, fail, xid) = dhcp_request_rx(d, m, fail, xid)
        /\ d.state = "proxy" => Rx(d, m, fail, xid) = dhcp_proxy_rx(d, m, fail)
        /\ d.state = "pxebs" => Rx(d, m, fail, xid) = dhcp_pxebs_rx(d, m, fail)
    BY <1>2, Zenon DEF Rx
  <2>2. \A rc \in {"ok", "error"} : Timed(dhcp_finished(d, rc))
    BY FinishedTimed
  <2>3. CASE d.state = "discover"
    BY <2>1, <2>3, DiscoveryRxTimed
  <2>4. CASE d.state = "request"
    <3>. DEFINE e == [d EXCEPT !.local = m.ip]
                n == [d EXCEPT !.xid = xid]
    <3>1. /\ IsSession(e) /\ e.state = d.state /\ e.offer = d.offer /\ e.timer = d.timer
          /\ e.rc = d.rc /\ e.started = d.started /\ e.timeout = d.timeout
          /\ e.elapsed = d.elapsed
      BY Zenon DEF Timed, IsSession, Fields
    <3>2. IsSession(n) /\ n.rc = "open"
      BY Zenon DEF Timed, IsSession, Fields
    <3>3. dhcp_request_rx(d, m, fail, xid) \in
            {d, dhcp_set_state(n, "discover"), dhcp_set_state(e, "proxy"),
             dhcp_finished(e, "ok"), dhcp_finished(e, "error")}
      BY Zenon DEF dhcp_request_rx
    <3>. HIDE DEF e, n
    <3>4. Timed(e)
      BY <3>1, OtherFields DEF GivesUp
    <3>5. Timed(dhcp_finished(e, "ok")) /\ Timed(dhcp_finished(e, "error"))
      BY <3>4, FinishedTimed
    <3>6. Timed(dhcp_set_state(n, "discover")) /\ Timed(dhcp_set_state(e, "proxy"))
      BY <3>1, <3>2, SetStateTimed
    <3>. QED
      BY <2>1, <2>4, <3>3, <3>5, <3>6
  <2>5. CASE d.state = "proxy"
    BY <2>1, <2>2, <2>5 DEF dhcp_proxy_rx
  <2>6. CASE d.state = "pxebs"
    BY <2>1, <2>2, <2>6 DEF dhcp_pxebs_rx
  <2>. QED
    BY Zenon, <2>3, <2>4, <2>5, <2>6 DEF Timed
<1>. QED
  BY <1>1, <1>2

-----------------------------------------------------------------------------
\* The session before its first state
LEMMA SessionFields ==
    /\ IsSession(Session) /\ Session.state = "none" /\ Session.rc = "open"
    /\ Session.started = 0 /\ Session.timeout = 0 /\ Session.elapsed = 0
BY Zenon DEF Session, IsSession, Fields

\* start_dhcp() leaves the timer about to expire.
LEMMA TimedInit == DhcpInit => Timed(dhcp)
BY SessionFields, SetStateTimed DEF DhcpInit

\* Sending what is to be sent changes nothing else (DhcpStep).
LEMMA StepTimed ==
    ASSUME NEW d, Timed(d), DhcpStep(d)
    PROVE  Timed(dhcp')
<1>1. /\ IsSession(dhcp') /\ dhcp'.state = d.state /\ dhcp'.offer = d.offer
      /\ dhcp'.timer = d.timer /\ dhcp'.rc = d.rc /\ dhcp'.started = d.started
      /\ dhcp'.timeout = d.timeout /\ dhcp'.elapsed = d.elapsed
  BY Zenon DEF DhcpStep, Timed, IsSession, Fields
<1>. QED
  BY <1>1, OtherFields DEF GivesUp

\* Time passes: only the elapsed time changes.
LEMMA TickTimed ==
    ASSUME Timed(dhcp), NEW now \in {TimerDue, TimerDue + 1, Limit(dhcp.state) + 1}, TimePasses(now)
    PROVE  Timed(dhcp')
<1>1. now \in Nat /\ now > dhcp.elapsed
  BY Timeouts DEF Timed, TimePasses, TimerDue
<1>2. /\ IsSession(dhcp') /\ dhcp'.state = dhcp.state /\ dhcp'.offer = dhcp.offer
      /\ dhcp'.timer = dhcp.timer /\ dhcp'.rc = dhcp.rc /\ dhcp'.started = dhcp.started
      /\ dhcp'.timeout = dhcp.timeout /\ dhcp'.elapsed = now
  BY Zenon DEF TimePasses, Timed, IsSession, Fields
<1>3. dhcp.timer => DhcpBackedOff(dhcp')
  BY <1>1, <1>2 DEF Timed, DhcpBackedOff, GivesUp
<1>. QED
  BY <1>1, <1>2, <1>3 DEF Timed, GivesUp

\* Boot Server Discovery starts with a session of its own, which may fail at
\* once (start_pxebs()).
LEMMA StartTimed ==
    ASSUME NEW control, NEW opened, start_pxebs(control, opened)
    PROVE  Timed(dhcp')
<1>. DEFINE filter == "NO_UNKNOWN_SERVERS" \in control
            new == [Session EXCEPT !.xid = dhcp_last_xid, !.pxe_type = 1, !.local = dhcp.local,
                                   !.attempt = Attempts(control), !.filter = filter,
                                   !.accept = IF filter THEN Known ELSE {}]
            failed == dhcp_finished(new, "error")
<1>1. /\ IsSession(new) /\ new.state = "none" /\ new.rc = "open" /\ new.started = 0
      /\ new.timeout = 0 /\ new.elapsed = 0
  BY SessionFields, ZenonT(90) DEF IsSession, Fields
<1>2. \E d \in {failed, dhcp_set_state(new, "pxebs")} : DhcpStep(d)
  BY Zenon DEF start_pxebs
<1>. HIDE DEF new
<1>3. Timed(dhcp_set_state(new, "pxebs"))
  BY <1>1, SetStateTimed
<1>4. /\ IsSession(failed) /\ failed.state = "none" /\ failed.rc = "error"
      /\ failed.timer = FALSE /\ failed.started = 0 /\ failed.timeout = 0 /\ failed.elapsed = 0
  BY <1>1, Zenon DEF dhcp_finished, IsSession, Fields
<1>. HIDE DEF failed
<1>5. Timed(failed)
  BY <1>4 DEF Timed
<1>. QED
  BY <1>2, <1>3, <1>5, StepTimed

\* Every step keeps the session's timing.
LEMMA TimedNext == Timed(dhcp) /\ [DhcpNext]_dhcpVars => Timed(dhcp')
<1>. SUFFICES ASSUME Timed(dhcp), [DhcpNext]_dhcpVars PROVE Timed(dhcp')
  OBVIOUS
<1>1. ASSUME NEW now \in {TimerDue, TimerDue + 1, Limit(dhcp.state) + 1}, TimePasses(now) PROVE Timed(dhcp')
  BY <1>1, TickTimed
<1>2. CASE dhcp_timer_expired
  BY <1>2, ExpiredTimed, StepTimed DEF dhcp_timer_expired, TimerDue
<1>3. ASSUME NEW m, NEW fail, dhcp_deliver(m, fail) PROVE Timed(dhcp')
  BY <1>3, RxTimed, StepTimed DEF dhcp_deliver
<1>4. CASE dhcp_job_close
  BY <1>4, FinishedTimed, StepTimed DEF dhcp_job_close
<1>5. ASSUME NEW control, NEW opened, start_pxebs(control, opened) PROVE Timed(dhcp')
  BY <1>5, StartTimed
<1>6. CASE UNCHANGED dhcpVars
  BY <1>6 DEF dhcpVars
<1>. QED
  BY <1>1, <1>2, <1>3, <1>4, <1>5, <1>6 DEF DhcpNext

\* Whatever the ticks per second and the offers, and however late the timer
\* is polled, no DHCP session that could go on is failed by its retry timer:
\* each state with a limit of its own gives up before the doubled timeout
\* passes DHCP_MAX_TIMEOUT.
THEOREM NeverFailsEarly == DhcpSpec => []GivesUpFirst
<1>. DEFINE Inv == Timed(dhcp)
<1>1. Inv => GivesUpFirst
  BY DEF Timed, GivesUp, GivesUpFirst
<1>2. DhcpInit => Inv
  BY TimedInit
<1>3. Inv /\ [DhcpNext]_dhcpVars => Inv'
  BY TimedNext
<1>. HIDE DEF Inv
<1>. QED
  BY <1>1, <1>2, <1>3, PTL DEF DhcpSpec

-----------------------------------------------------------------------------
\* The lease: what servers have seen are requests, an ACK answers a request
\* that was sent, and the lease that a session registered stays in place.

IsRequest(r) ==
    /\ r.type \in {"discover", "request", "proxy", "pxebs"}
    /\ r.type = "request" =>
          r = [type |-> "request", xid |-> r.xid, server |-> r.server, ip |-> r.ip]

Leased(xid, local) ==
    LET lease == settings["dhcp"] IN
    /\ lease # NoPacket /\ lease.ip = local /\ lease.ip # NoAddr
    /\ lease.xid = xid
    /\ lease.type = "BOOTP" \/
       [type |-> "request", xid |-> xid, server |-> lease.server, ip |-> lease.ip] \in seen

\* The session has an acknowledged lease.
HasLease(d) == d.state = "proxy" \/ (d.rc = "ok" /\ d.state # "pxebs")

LeaseInv ==
    /\ Timed(dhcp) /\ dhcp.tx = {}
    /\ dhcp_last_xid = 1 /\ dhcp.xid \in 1..Xids
    /\ settings = [b \in {"dhcp", "proxydhcp", "pxebs"} |-> settings[b]]
    /\ \A r \in seen : IsRequest(r)
    /\ dhcp.state = "request" => dhcp.offer # NoAddr
    /\ HasLease(dhcp) => Leased(dhcp.xid, dhcp.local)

\* What dhcp_set_state(), dhcp_finished() and dhcp_tx() do to the fields that
\* the lease depends on
Moved(d, state, e) ==
    /\ IsSession(e) /\ e.state = state /\ e.rc = d.rc /\ e.xid = d.xid
    /\ e.offer = d.offer /\ e.local = d.local /\ e.tx = d.tx

Ended(d, rc, e) ==
    /\ IsSession(e) /\ e.state = d.state /\ e.xid = d.xid
    /\ d.rc = "open" => e.rc = rc
    /\ e.offer = d.offer /\ e.local = d.local /\ e.tx = d.tx

LEMMA SetStateFields ==
    ASSUME NEW d, IsSession(d), NEW state
    PROVE  Moved(d, state, dhcp_set_state(d, state))
BY ZenonT(90) DEF dhcp_set_state, IsSession, Fields, Moved

LEMMA FinishedFields ==
    ASSUME NEW d, IsSession(d), NEW rc
    PROVE  Ended(d, rc, dhcp_finished(d, rc))
BY ZenonT(60) DEF dhcp_finished, IsSession, Fields, Ended

LEMMA TxFields ==
    ASSUME NEW d, IsSession(d), d.state \in {"discover", "request", "proxy", "pxebs"},
           NEW e, e = dhcp_tx(d)
    PROVE  /\ IsSession(e) /\ e.state = d.state /\ e.rc = d.rc /\ e.xid = d.xid
           /\ e.offer = d.offer /\ e.local = d.local /\ \A r \in e.tx : IsRequest(r)
<1>1. /\ IsSession(e) /\ e.state = d.state /\ e.rc = d.rc /\ e.xid = d.xid
      /\ e.offer = d.offer /\ e.local = d.local
  BY ZenonT(90) DEF dhcp_tx, IsSession, Fields
<1>2. e.tx \in {{dhcp_discovery_tx(d)}, {dhcp_request_tx(d)}, {dhcp_proxy_tx(d)}, {dhcp_pxebs_tx(d)}}
  <2>1. e.tx = CASE d.state = "discover" -> {dhcp_discovery_tx(d)}
                 [] d.state = "request" -> {dhcp_request_tx(d)}
                 [] d.state = "proxy" -> {dhcp_proxy_tx(d)}
                 [] d.state = "pxebs" -> {dhcp_pxebs_tx(d)}
    BY Zenon DEF dhcp_tx, IsSession, Fields
  <2>. QED
    BY <2>1, Zenon
<1>3. /\ IsRequest(dhcp_discovery_tx(d)) /\ IsRequest(dhcp_request_tx(d))
      /\ IsRequest(dhcp_proxy_tx(d)) /\ IsRequest(dhcp_pxebs_tx(d))
  BY ZenonT(60) DEF IsRequest, dhcp_discovery_tx, dhcp_request_tx, dhcp_proxy_tx, dhcp_pxebs_tx
<1>. QED
  BY Zenon, <1>1, <1>2, <1>3

\* The expiry of the timer sends requests, moves on from discovery only with
\* an offer, and ends a session with success only in the proxy state.
LEMMA ExpiredFields ==
    ASSUME NEW d, IsSession(d), d.rc = "open", d.tx = {},
           d.state \in {"discover", "request", "proxy", "pxebs"},
           NEW e, e = DhcpExpired(d)
    PROVE  /\ IsSession(e) /\ e.xid = d.xid /\ e.offer = d.offer /\ e.local = d.local
           /\ \/ e.state = d.state
              \/ d.state = "discover" /\ e.state = "request" /\ d.offer # NoAddr
           /\ e.rc = "ok" => d.state = "proxy"
           /\ e.rc = "unserved" => d.state = "pxebs"
           /\ \A r \in e.tx : IsRequest(r)
<1>. DEFINE fail == 2 * d.timeout > DHCP_MAX_TIMEOUT
            late == [d EXCEPT !.timer = FALSE,
                              !.timeout = IF fail THEN DHCP_MAX_TIMEOUT ELSE 2 * @]
            next == [late EXCEPT !.attempt = Tail(@)]
<1>1. /\ IsSession(late) /\ late.state = d.state /\ late.offer = d.offer /\ late.rc = d.rc
      /\ late.xid = d.xid /\ late.local = d.local /\ late.tx = d.tx
  BY Zenon DEF IsSession, Fields
<1>2. e = IF fail THEN dhcp_finished(late, "timedout")
          ELSE CASE d.state = "discover" -> dhcp_discovery_expired(late)
                 [] d.state = "request" -> dhcp_tx(late)
                 [] d.state = "proxy" -> dhcp_proxy_expired(late)
                 [] d.state = "pxebs" -> dhcp_pxebs_expired(late)
  BY Zenon DEF DhcpExpired
<1>. HIDE DEF late
<1>3. /\ IsSession(next) /\ next.state = d.state /\ next.offer = d.offer /\ next.rc = d.rc
      /\ next.xid = d.xid /\ next.local = d.local /\ next.tx = d.tx
  BY <1>1, Zenon DEF IsSession, Fields
<1>4. \/ e = dhcp_finished(late, "timedout")
      \/ e = dhcp_tx(late)
      \/ e = dhcp_set_state(late, "request") /\ d.state = "discover" /\ d.offer # NoAddr
      \/ e = dhcp_finished(late, "ok") /\ d.state = "proxy"
      \/ e = dhcp_set_state(next, "pxebs") /\ d.state = "pxebs"
      \/ e = dhcp_finished(next, "unserved") /\ d.state = "pxebs"
  BY <1>1, <1>2, Zenon
     DEF dhcp_discovery_expired, dhcp_proxy_expired, dhcp_pxebs_expired
<1>. HIDE DEF next
<1>s. IsSession(late) /\ IsSession(next)
  BY Zenon, <1>1, <1>3
<1>f. \A c, rc : IsSession(c) => Ended(c, rc, dhcp_finished(c, rc))
  BY Zenon, FinishedFields
<1>m. \A c, st : IsSession(c) => Moved(c, st, dhcp_set_state(c, st))
  BY Zenon, SetStateFields
<1>5. CASE e = dhcp_finished(late, "timedout")
  <2>1. Ended(late, "timedout", e)
    BY ZenonT(60), <1>f, <1>s, <1>5
  <2>2. /\ IsSession(e) /\ e.xid = d.xid /\ e.offer = d.offer /\ e.local = d.local
        /\ e.state = d.state /\ e.rc = "timedout" /\ e.tx = {}
    BY <1>1, <2>1 DEF Ended
  <2>. QED
    BY Zenon, <2>2
<1>6. CASE e = dhcp_tx(late)
  BY <1>1, <1>6, TxFields
<1>7. CASE e = dhcp_set_state(late, "request") /\ d.state = "discover" /\ d.offer # NoAddr
  <2>1. Moved(late, "request", e)
    BY ZenonT(60), <1>m, <1>s, <1>7
  <2>2. /\ IsSession(e) /\ e.xid = d.xid /\ e.offer = d.offer /\ e.local = d.local
        /\ e.state = "request" /\ e.rc = "open" /\ e.tx = {}
    BY <1>1, <2>1 DEF Moved
  <2>. QED
    BY Zenon, <1>7, <2>2
<1>8. CASE e = dhcp_finished(late, "ok") /\ d.state = "proxy"
  <2>1. Ended(late, "ok", e)
    BY ZenonT(60), <1>f, <1>s, <1>8
  <2>2. /\ IsSession(e) /\ e.xid = d.xid /\ e.offer = d.offer /\ e.local = d.local
        /\ e.state = d.state /\ e.rc = "ok" /\ e.tx = {}
    BY <1>1, <2>1 DEF Ended
  <2>. QED
    BY Zenon, <1>8, <2>2
<1>9. CASE e = dhcp_set_state(next, "pxebs") /\ d.state = "pxebs"
  <2>1. Moved(next, "pxebs", e)
    BY Zenon, <1>m, <1>s, <1>9
  <2>2. /\ IsSession(e) /\ e.xid = d.xid /\ e.offer = d.offer /\ e.local = d.local
        /\ e.state = "pxebs" /\ e.rc = "open" /\ e.tx = {}
    BY <1>3, <2>1 DEF Moved
  <2>. QED
    BY Zenon, <1>9, <2>2
<1>10. CASE e = dhcp_finished(next, "unserved") /\ d.state = "pxebs"
  <2>1. Ended(next, "unserved", e)
    BY Zenon, <1>f, <1>s, <1>10
  <2>2. /\ IsSession(e) /\ e.xid = d.xid /\ e.offer = d.offer /\ e.local = d.local
        /\ e.state = d.state /\ e.rc = "unserved" /\ e.tx = {}
    BY <1>3, <2>1 DEF Ended
  <2>. QED
    BY Zenon, <1>10, <2>2
<1>. QED
  BY Zenon, <1>4, <1>5, <1>6, <1>7, <1>8, <1>9, <1>10

\* A packet gives a session its lease only where the packet acknowledges the
\* request; it moves on from discovery only with an offer.
RxGave(d, m, fail, xid, e) ==
    /\ IsSession(e) /\ e.tx = {} /\ e.rc \in {"open", "ok", "error"}
    /\ e.state = "pxebs" => d.state = "pxebs"
    /\ \/ e.xid = d.xid
       \/ e.xid = xid /\ d.state = "request" /\ Matching(d, m) /\ Refuses(d, m)
    /\ e.state = "request" => e.offer # NoAddr
    /\ HasLease(e) =>
         /\ e.xid = d.xid
         /\ \/ d.state = "proxy" /\ e.local = d.local
            \/ /\ d.state = "request" /\ Matching(d, m) /\ Acknowledges(d, m)
               /\ "dhcp" \notin fail /\ e.local = m.ip

LEMMA RxFields ==
    ASSUME NEW d, Timed(d), d.rc = "open", d.tx = {}, d.state = "request" => d.offer # NoAddr,
           NEW m, NEW fail, NEW xid
    PROVE  RxGave(d, m, fail, xid, Rx(d, m, fail, xid))
<1>. DEFINE e == Rx(d, m, fail, xid)
<1>e. e = Rx(d, m, fail, xid)
  OBVIOUS
<1>. HIDE DEF e
<1>. SUFFICES RxGave(d, m, fail, xid, e)
  BY Zenon, <1>e
<1>. USE DEF RxGave
<1>0. IsSession(d) /\ d.state \in {"discover", "request", "proxy", "pxebs"}
  BY Zenon DEF Timed
<1>1. CASE ~Matching(d, m)
  BY <1>e, <1>0, <1>1 DEF Rx, HasLease
<1>2. CASE Matching(d, m) /\ d.state = "discover"
  <2>. DEFINE b == Selected(d, m)
              c == ProxySelected(b, m)
  <2>1. /\ IsSession(b) /\ b.state = d.state /\ b.rc = d.rc /\ b.xid = d.xid
        /\ b.local = d.local /\ b.tx = d.tx
    BY <1>0, ZenonT(90) DEF Selected, IsSession, Fields
  <2>2. \/ e = d
        \/ e = c
        \/ c.offer # NoAddr /\ e = dhcp_set_state(c, "request")
    BY <1>e, <1>2, Zenon DEF Rx, dhcp_discovery_rx
  <2>. HIDE DEF b
  <2>3. /\ IsSession(c) /\ c.state = b.state /\ c.rc = b.rc /\ c.xid = b.xid
        /\ c.local = b.local /\ c.tx = b.tx
    BY <2>1, ZenonT(60) DEF ProxySelected, IsSession, Fields
  <2>. HIDE DEF c
  <2>4. CASE c.offer # NoAddr /\ e = dhcp_set_state(c, "request")
    <3>1. Moved(c, "request", e)
      BY Zenon, <2>3, <2>4, SetStateFields
    <3>. QED
      BY ZenonT(90), <2>1, <2>3, <2>4, <3>1 DEF HasLease, Moved
  <2>. QED
    BY Zenon, <1>0, <1>2, <2>1, <2>2, <2>3, <2>4 DEF HasLease
<1>3. CASE Matching(d, m) /\ d.state = "request"
  <2>. DEFINE c == [d EXCEPT !.local = m.ip]
              n == [d EXCEPT !.xid = xid]
  <2>1. /\ IsSession(c) /\ c.state = d.state /\ c.rc = d.rc /\ c.xid = d.xid
        /\ c.local = m.ip /\ c.tx = d.tx /\ c.offer = d.offer
    BY <1>0, Zenon DEF IsSession, Fields
  <2>2. /\ IsSession(n) /\ n.rc = d.rc /\ n.xid = xid /\ n.tx = d.tx
    BY <1>0, Zenon DEF IsSession, Fields
  <2>3. \/ e = d
        \/ Refuses(d, m) /\ e = dhcp_set_state(n, "discover")
        \/ e = dhcp_finished(c, "error")
        \/ /\ Acknowledges(d, m) /\ "dhcp" \notin fail
           /\ e \in {dhcp_finished(c, "ok"), dhcp_set_state(c, "proxy")}
    BY <1>e, <1>3, ZenonT(60) DEF Rx, dhcp_request_rx
  <2>. HIDE DEF c, n
  <2>4. CASE e = d
    BY ZenonT(60), <1>0, <1>3, <2>4 DEF HasLease
  <2>5. CASE Refuses(d, m) /\ e = dhcp_set_state(n, "discover")
    <3>1. IsSession(e) /\ e.state = "discover" /\ e.rc = "open" /\ e.xid = xid /\ e.tx = {}
      <4>1. Moved(n, "discover", e)
        BY Zenon, <2>2, <2>5, SetStateFields
      <4>. QED
        BY Zenon, <2>2, <4>1 DEF Moved
    <3>. QED
      BY ZenonT(90), <1>3, <2>5, <3>1 DEF HasLease
  <2>6. ASSUME NEW rc, e = dhcp_finished(c, rc)
        PROVE  /\ IsSession(e) /\ e.state = "request" /\ e.rc = rc /\ e.xid = d.xid
               /\ e.tx = {} /\ e.offer = d.offer /\ e.local = m.ip
    <3>1. Ended(c, rc, e)
      BY Zenon, <2>1, <2>6, FinishedFields
    <3>. QED
      BY Zenon, <1>3, <2>1, <3>1 DEF Ended
  <2>7. CASE e = dhcp_finished(c, "error")
    BY ZenonT(60), <1>3, <2>6, <2>7 DEF HasLease
  <2>8. CASE Acknowledges(d, m) /\ "dhcp" \notin fail /\ e = dhcp_finished(c, "ok")
    BY ZenonT(60), <1>3, <2>6, <2>8 DEF HasLease
  <2>9. CASE Acknowledges(d, m) /\ "dhcp" \notin fail /\ e = dhcp_set_state(c, "proxy")
    <3>1. /\ IsSession(e) /\ e.state = "proxy" /\ e.rc = "open" /\ e.xid = d.xid
          /\ e.tx = {} /\ e.local = m.ip
      <4>1. Moved(c, "proxy", e)
        BY Zenon, <2>1, <2>9, SetStateFields
      <4>. QED
        BY Zenon, <2>1, <4>1 DEF Moved
    <3>. QED
      BY ZenonT(60), <1>3, <2>9, <3>1 DEF HasLease
  <2>. QED
    BY Zenon, <2>3, <2>4, <2>5, <2>7, <2>8, <2>9
<1>4. CASE Matching(d, m) /\ d.state \in {"proxy", "pxebs"}
  <2>1. \/ e = d
        \/ \E rc \in {"ok", "error"} : e = dhcp_finished(d, rc)
    <3>1. d.state = "proxy" => e = dhcp_proxy_rx(d, m, fail)
      BY <1>e, <1>4, Zenon DEF Rx
    <3>2. d.state = "pxebs" => e = dhcp_pxebs_rx(d, m, fail)
      BY <1>e, <1>4, ZenonT(60) DEF Rx
    <3>. QED
      BY Zenon, <1>4, <3>1, <3>2 DEF dhcp_proxy_rx, dhcp_pxebs_rx
  <2>2. ASSUME NEW rc, e = dhcp_finished(d, rc)
        PROVE  /\ IsSession(e) /\ e.state = d.state /\ e.xid = d.xid /\ e.tx = {}
               /\ e.local = d.local /\ e.rc = rc
    <3>1. Ended(d, rc, e)
      BY Zenon, <1>0, <2>2, FinishedFields
    <3>. QED
      BY Zenon, <3>1 DEF Ended
  <2>3. CASE e = d
    BY Zenon, <1>0, <1>4, <2>3 DEF HasLease
  <2>4. ASSUME NEW rc \in {"ok", "error"}, e = dhcp_finished(d, rc)
        PROVE  RxGave(d, m, fail, xid, e)
    BY Zenon, <1>4, <2>2, <2>4 DEF HasLease
  <2>. QED
    BY Zenon, <2>1, <2>3, <2>4
<1>. QED
  BY ZenonT(90), <1>0, <1>1, <1>2, <1>3, <1>4

\* A packet from the BOOTP server port that acknowledges a request is the
\* answer to a request that asked that server for that address.
LEMMA AckAnswersRequest ==
    ASSUME NEW r, IsRequest(r), NEW m \in RepliesTo(r), m.port = "BOOTPS", m.xid \in 1..Xids
    PROVE  /\ m # NoPacket
           /\ m.type = "ACK" =>
                r = [type |-> "request", xid |-> m.xid, server |-> m.server, ip |-> m.ip]
<1>1. /\ r.type = "discover" => RepliesTo(r) = OffersTo(r)
      /\ r.type = "request" => RepliesTo(r) = AnswersTo(r)
      /\ r.type = "proxy" => RepliesTo(r) = ProxyAnswersTo(r)
      /\ r.type = "pxebs" => RepliesTo(r) = BootAnswersTo(r)
  BY ZenonT(60) DEF RepliesTo
<1>2. CASE r.type = "discover"
  <2>1. PICK o \in Offers : m = Reply(o, "OFFER", r.xid)
    BY <1>1, <1>2 DEF OffersTo
  <2>2. m.xid = r.xid /\ m.type # "ACK"
    BY ZenonT(60), <2>1 DEF Reply
  <2>. QED
    BY ZenonT(60), <2>1, <2>2, NoPacketAssumption
<1>3. CASE r.type = "request"
  <2>1. PICK o \in Offers, type \in {"ACK", "NAK"} :
          m = Reply(o, type, r.xid) /\ o.server = r.server /\ o.ip = r.ip /\ ~o.bootp
    BY <1>1, <1>3 DEF AnswersTo
  <2>2. m.xid = r.xid /\ m.server = r.server /\ (m.type = "ACK" => m.ip = r.ip)
    BY Zenon, <2>1 DEF Reply
  <2>. QED
    BY <1>3, <2>1, <2>2, NoPacketAssumption DEF IsRequest
<1>4. CASE r.type = "proxy"
  <2>1. PICK o \in Offers : m = ProxyReply(o, r.xid)
    BY ZenonT(60), <1>1, <1>4 DEF ProxyAnswersTo
  <2>. QED
    BY <2>1 DEF ProxyReply, Reply
<1>5. CASE r.type = "pxebs"
  <2>1. PICK b \in BootServers, id \in {NoAddr, r.dest} : m = BootReply(b, id, 1, r.xid)
    BY <1>1, <1>5 DEF BootAnswersTo
  <2>. QED
    BY ZenonT(60), <2>1 DEF BootReply
<1>. QED
  BY Zenon, <1>2, <1>3, <1>4, <1>5 DEF IsRequest

\* A lease in place stays in place while its settings block is kept.
LEMMA LeaseKept ==
    ASSUME NEW xid, NEW local, Leased(xid, local),
           settings'["dhcp"] = settings["dhcp"], seen \subseteq seen'
    PROVE  Leased(xid, local)'
BY ZenonT(60) DEF Leased

\* A step that sends requests and leaves the settings alone
LEMMA StepLease ==
    ASSUME LeaseInv, NEW e, Timed(e), DhcpStep(e), \A r \in e.tx : IsRequest(r),
           UNCHANGED <<dhcp_last_xid, settings>>, e.xid \in 1..Xids,
           e.state = "request" => e.offer # NoAddr,
           HasLease(e) => HasLease(dhcp) /\ e.xid = dhcp.xid /\ e.local = dhcp.local
    PROVE  LeaseInv'
<1>1. /\ dhcp'.tx = {} /\ dhcp'.state = e.state /\ dhcp'.rc = e.rc /\ dhcp'.xid = e.xid
      /\ dhcp'.offer = e.offer /\ dhcp'.local = e.local
  BY ZenonT(60) DEF DhcpStep, Timed, IsSession, Fields
<1>2. Timed(dhcp)'
  BY Zenon, StepTimed
<1>3. /\ seen \subseteq seen' /\ \A r \in seen' : IsRequest(r)
  BY DEF DhcpStep, LeaseInv
<1>4. HasLease(dhcp)' => Leased(dhcp.xid, dhcp.local)'
  <2>1. SUFFICES ASSUME HasLease(dhcp)' PROVE Leased(dhcp.xid, dhcp.local)'
    BY Zenon
  <2>2. HasLease(e)
    BY ZenonT(60), <1>1, <2>1 DEF HasLease
  <2>. QED
    BY ZenonT(90), <1>1, <1>3, <2>2, LeaseKept DEF LeaseInv, Leased
<1>5. /\ dhcp_last_xid' = 1 /\ dhcp'.xid \in 1..Xids
      /\ settings' = [b \in {"dhcp", "proxydhcp", "pxebs"} |-> settings'[b]]
      /\ dhcp'.state = "request" => dhcp'.offer # NoAddr
  BY ZenonT(60), <1>1 DEF LeaseInv
<1>. QED
  BY Zenon, <1>1, <1>2, <1>3, <1>4, <1>5 DEF LeaseInv

\* A packet (dhcp_deliver()): the lease registered is the packet, which
\* acknowledges the session's request.
LEMMA DeliverLease ==
    ASSUME LeaseInv, NEW r \in seen, NEW m \in RepliesTo(r), NEW fail, dhcp_deliver(m, fail)
    PROVE  LeaseInv'
<1>. DEFINE e == Rx(dhcp, m, fail, dhcp.xid + 1)
<1>0. /\ Timed(dhcp) /\ dhcp.rc = "open" /\ dhcp.tx = {} /\ DhcpStep(e)
      /\ dhcp.state = "request" => dhcp.offer # NoAddr
  BY DEF dhcp_deliver, LeaseInv
<1>e. e = Rx(dhcp, m, fail, dhcp.xid + 1)
  OBVIOUS
<1>1. Timed(e)
  BY ZenonT(90), <1>0, RxTimed
<1>. HIDE DEF e
<1>r. RxGave(dhcp, m, fail, dhcp.xid + 1, e)
  BY Zenon, <1>0, <1>e, RxFields
<1>2. /\ e.tx = {}
      /\ \/ e.xid = dhcp.xid
         \/ /\ e.xid = dhcp.xid + 1 /\ dhcp.state = "request" /\ Matching(dhcp, m)
            /\ Refuses(dhcp, m)
      /\ e.state = "request" => e.offer # NoAddr
      /\ HasLease(e) =>
            /\ e.xid = dhcp.xid
            /\ \/ dhcp.state = "proxy" /\ e.local = dhcp.local
               \/ /\ dhcp.state = "request" /\ Matching(dhcp, m) /\ Acknowledges(dhcp, m)
                  /\ "dhcp" \notin fail /\ e.local = m.ip
  BY Zenon, <1>r DEF RxGave
<1>3. /\ dhcp'.tx = {} /\ dhcp'.state = e.state /\ dhcp'.rc = e.rc /\ dhcp'.xid = e.xid
      /\ dhcp'.offer = e.offer /\ dhcp'.local = e.local
  BY <1>0, <1>1, Zenon DEF DhcpStep, Timed, IsSession, Fields
<1>4. Timed(dhcp)' /\ seen' = seen
  BY <1>0, <1>1, <1>2, StepTimed DEF DhcpStep
<1>5. dhcp'.xid \in 1..Xids
  BY <1>2, <1>3, DhcpAssumption DEF dhcp_deliver, LeaseInv
<1>6. /\ settings' = [b \in {"dhcp", "proxydhcp", "pxebs"} |-> settings'[b]]
      /\ dhcp.state = "proxy" => settings'["dhcp"] = settings["dhcp"]
      /\ dhcp.state = "request" /\ Matching(dhcp, m) /\ Acknowledges(dhcp, m)
         /\ "dhcp" \notin fail => settings'["dhcp"] = m
  <2>1. DOMAIN settings = {"dhcp", "proxydhcp", "pxebs"}
    BY DEF LeaseInv
  <2>2. CASE ~Matching(dhcp, m)
    BY <2>2, ZenonT(60) DEF dhcp_deliver, LeaseInv, Registered
  <2>3. CASE Matching(dhcp, m)
    <3>. DEFINE Block(b) ==
           CASE b \in fail -> settings[b]
             [] dhcp.state = "request" /\ Acknowledges(dhcp, m) /\ b = "dhcp" -> m
             [] dhcp.state = "request" /\ Acknowledges(dhcp, m) /\ b = "proxydhcp"
                /\ (UseProxy(dhcp) /\ dhcp.proxy_offer.pxe) /\ "dhcp" \notin fail
                -> dhcp.proxy_offer
             [] dhcp.state = "proxy" /\ FromProxy(dhcp, m) /\ b = "proxydhcp" -> m
             [] dhcp.state = "pxebs" /\ FromBootServer(dhcp, m) /\ b = "pxebs" -> m
             [] OTHER -> settings[b]
    <3>1. settings' = [b \in {"dhcp", "proxydhcp", "pxebs"} |-> Block(b)]
      BY <2>1, <2>3, Zenon DEF dhcp_deliver, Registered
    <3>2. dhcp.state = "proxy" => Block("dhcp") = settings["dhcp"]
      BY Zenon
    <3>3. dhcp.state = "request" /\ Acknowledges(dhcp, m) /\ "dhcp" \notin fail => Block("dhcp") = m
      BY ZenonT(60)
    <3>. HIDE DEF Block
    <3>. QED
      BY Zenon, <3>1, <3>2, <3>3
  <2>. QED
    BY <2>2, <2>3
<1>7. HasLease(dhcp)' => Leased(dhcp.xid, dhcp.local)'
  <2>1. SUFFICES ASSUME HasLease(e) PROVE Leased(dhcp.xid, dhcp.local)'
    BY ZenonT(60), <1>3 DEF HasLease
  <2>2. CASE dhcp.state = "proxy" /\ e.local = dhcp.local
    BY ZenonT(90), <1>2, <1>3, <1>4, <1>6, <2>1, <2>2 DEF LeaseInv, HasLease, Leased
  <2>3. CASE /\ dhcp.state = "request" /\ Matching(dhcp, m) /\ Acknowledges(dhcp, m)
             /\ "dhcp" \notin fail /\ e.local = m.ip
    <3>1. /\ m.port = "BOOTPS" /\ m.xid = dhcp.xid /\ m.ip = dhcp.offer
          /\ m.type \in {"ACK", "BOOTP"} /\ m.xid \in 1..Xids
      BY <2>3 DEF Matching, Acknowledges, LeaseInv
    <3>2. IsRequest(r)
      BY DEF LeaseInv
    <3>3. /\ m # NoPacket
          /\ m.type = "ACK" =>
                [type |-> "request", xid |-> m.xid, server |-> m.server, ip |-> m.ip] \in seen
      BY ZenonT(60), <3>1, <3>2, AckAnswersRequest
    <3>4. m.ip # NoAddr
      BY ZenonT(60), <1>0, <2>3, <3>1
    <3>. QED
      BY ZenonT(60), <1>2, <1>3, <1>4, <1>6, <2>1, <2>3, <3>1, <3>3, <3>4 DEF Leased
  <2>. QED
    BY ZenonT(60), <1>2, <2>1, <2>2, <2>3
<1>8. dhcp_last_xid' = 1 /\ (\A q \in seen' : IsRequest(q))
  BY <1>4 DEF dhcp_deliver, LeaseInv
<1>. QED
  BY ZenonT(60), <1>2, <1>3, <1>4, <1>5, <1>6, <1>7, <1>8 DEF LeaseInv

\* start_dhcp() begins without a lease.
LEMMA LeaseInit == DhcpInit => LeaseInv
<1>. SUFFICES ASSUME DhcpInit PROVE LeaseInv
  OBVIOUS
<1>1. /\ dhcp.state = "discover" /\ dhcp.rc = "open" /\ dhcp.xid = Session.xid
      /\ dhcp.tx = Session.tx
  <2>1. Moved(Session, "discover", dhcp)
    BY Zenon, SessionFields, SetStateFields DEF DhcpInit
  <2>. QED
    BY Zenon, SessionFields, <2>1 DEF Moved
<1>2. Session.xid = 1 /\ Session.tx = {}
  BY Zenon DEF Session
<1>3. 1 \in 1..Xids
  BY DhcpAssumption
<1>4. settings = [b \in {"dhcp", "proxydhcp", "pxebs"} |-> settings[b]]
  BY DEF DhcpInit
<1>. QED
  BY ZenonT(90), <1>1, <1>2, <1>3, <1>4, TimedInit DEF DhcpInit, LeaseInv, HasLease

\* Every step keeps a lease that is in place, and puts one in place only for
\* an acknowledged request.
LEMMA LeaseNext == LeaseInv /\ [DhcpNext]_dhcpVars => LeaseInv'
<1>. SUFFICES ASSUME LeaseInv, [DhcpNext]_dhcpVars PROVE LeaseInv'
  OBVIOUS
<1>0. Timed(dhcp) /\ IsSession(dhcp) /\ dhcp.tx = {} /\ dhcp.xid \in 1..Xids
  BY DEF LeaseInv, Timed
<1>1. ASSUME NEW now \in {TimerDue, TimerDue + 1, Limit(dhcp.state) + 1}, TimePasses(now) PROVE LeaseInv'
  <2>1. Timed(dhcp)'
    BY <1>0, <1>1, TickTimed
  <2>2. /\ dhcp'.tx = dhcp.tx /\ dhcp'.state = dhcp.state /\ dhcp'.rc = dhcp.rc
        /\ dhcp'.xid = dhcp.xid /\ dhcp'.offer = dhcp.offer /\ dhcp'.local = dhcp.local
    BY <1>0, <1>1, Zenon DEF TimePasses, IsSession, Fields
  <2>3. UNCHANGED <<dhcp_last_xid, settings, seen>>
    BY <1>1 DEF TimePasses
  <2>. QED
    BY ZenonT(60), <2>1, <2>2, <2>3 DEF LeaseInv, HasLease, Leased
<1>2. CASE dhcp_timer_expired
  <2>. DEFINE e == DhcpExpired(dhcp)
  <2>1. DhcpStep(e) /\ UNCHANGED <<dhcp_last_xid, settings>> /\ dhcp.timer /\ dhcp.elapsed >= TimerDue
    BY <1>2 DEF dhcp_timer_expired
  <2>2. Timed(e)
    BY <1>0, <2>1, ExpiredTimed DEF TimerDue
  <2>3. dhcp.rc = "open" /\ dhcp.state \in {"discover", "request", "proxy", "pxebs"}
    BY ZenonT(60), <1>0, <2>1 DEF Timed
  <2>4. /\ e.xid = dhcp.xid /\ e.offer = dhcp.offer /\ e.local = dhcp.local
        /\ \/ e.state = dhcp.state
           \/ dhcp.state = "discover" /\ e.state = "request" /\ dhcp.offer # NoAddr
        /\ e.rc = "ok" => dhcp.state = "proxy"
        /\ \A r \in e.tx : IsRequest(r)
    BY Zenon, <1>0, <2>3, ExpiredFields
  <2>. HIDE DEF e
  <2>5. HasLease(e) => HasLease(dhcp)
    BY <2>4 DEF HasLease
  <2>6. e.state = "request" => e.offer # NoAddr
    BY <2>4 DEF LeaseInv
  <2>. QED
    BY ZenonT(60), <1>0, <2>1, <2>2, <2>4, <2>5, <2>6, StepLease
<1>3. ASSUME NEW r \in seen, NEW fail, NEW m \in RepliesTo(r), dhcp_deliver(m, fail)
      PROVE  LeaseInv'
  BY <1>3, DeliverLease
<1>4. CASE dhcp_job_close
  <2>. DEFINE e == dhcp_finished(dhcp, "error")
  <2>1. DhcpStep(e) /\ UNCHANGED <<dhcp_last_xid, settings>> /\ dhcp.rc = "open"
    BY <1>4 DEF dhcp_job_close
  <2>2. Timed(e)
    BY <1>0, FinishedTimed
  <2>3. /\ e.state = dhcp.state /\ e.xid = dhcp.xid /\ e.rc = "error"
        /\ e.offer = dhcp.offer /\ e.local = dhcp.local /\ e.tx = dhcp.tx
    <3>1. Ended(dhcp, "error", e)
      BY Zenon, <1>0, FinishedFields
    <3>. QED
      BY Zenon, <2>1, <3>1 DEF Ended
  <2>. HIDE DEF e
  <2>4. HasLease(e) => HasLease(dhcp)
    BY <2>3 DEF HasLease
  <2>5. e.state = "request" => e.offer # NoAddr
    BY <2>3 DEF LeaseInv
  <2>. QED
    BY ZenonT(60), <1>0, <2>1, <2>2, <2>3, <2>4, <2>5, StepLease
<1>5. ASSUME NEW control, NEW opened, start_pxebs(control, opened) PROVE LeaseInv'
  <2>. DEFINE filter == "NO_UNKNOWN_SERVERS" \in control
              new == [Session EXCEPT !.xid = dhcp_last_xid, !.pxe_type = 1,
                                     !.local = dhcp.local, !.attempt = Attempts(control),
                                     !.filter = filter,
                                     !.accept = IF filter THEN Known ELSE {}]
  <2>1. IsSession(new) /\ new.state = "none" /\ new.rc = "open" /\ new.xid = dhcp_last_xid
        /\ new.tx = Session.tx
    BY SessionFields, ZenonT(90) DEF IsSession, Fields
  <2>2. PICK e \in {dhcp_finished(new, "error"), dhcp_set_state(new, "pxebs")} : DhcpStep(e)
    BY <1>5, Zenon DEF start_pxebs
  <2>. HIDE DEF new
  <2>3. /\ IsSession(e) /\ e.xid = new.xid /\ e.tx = new.tx
        /\ e.state = "pxebs" \/ (e.state = "none" /\ e.rc = "error")
    <3>1. CASE e = dhcp_finished(new, "error")
      <4>1. Ended(new, "error", e)
        BY Zenon, <2>1, <3>1, FinishedFields
      <4>. QED
        BY Zenon, <2>1, <4>1 DEF Ended
    <3>2. CASE e = dhcp_set_state(new, "pxebs")
      <4>1. Moved(new, "pxebs", e)
        BY Zenon, <2>1, <3>2, SetStateFields
      <4>. QED
        BY Zenon, <4>1 DEF Moved
    <3>. QED
      BY Zenon, <2>2, <3>1, <3>2
  <2>4. Session.tx = {}
    BY Zenon DEF Session
  <2>5. /\ dhcp'.tx = {} /\ dhcp'.state = e.state /\ dhcp'.rc = e.rc /\ dhcp'.xid = e.xid
    BY <2>2, <2>3, Zenon DEF DhcpStep, IsSession, Fields
  <2>6. Timed(dhcp)'
    BY <1>5, StartTimed
  <2>7. seen' = seen /\ UNCHANGED <<dhcp_last_xid, settings>>
    BY <1>5, <2>1, <2>2, <2>3, <2>4 DEF DhcpStep, start_pxebs
  <2>8. dhcp'.xid \in 1..Xids
    BY <2>1, <2>3, <2>5, DhcpAssumption DEF LeaseInv
  <2>. QED
    BY Zenon, <2>3, <2>5, <2>6, <2>7, <2>8 DEF LeaseInv, HasLease
<1>6. CASE UNCHANGED dhcpVars
  BY Zenon, <1>6 DEF dhcpVars, LeaseInv, HasLease, Leased
<1>. QED
  BY <1>1, <1>2, <1>3, <1>4, <1>5, <1>6 DEF DhcpNext

\* Whatever servers offer and however their answers are lost, late or
\* repeated, a DHCP session that succeeds has registered the acknowledgement
\* of the request it sent to the server it chose.
THEOREM SuccessMeansLeased == DhcpSpec => []LeaseConfirmed
<1>1. LeaseInv => LeaseConfirmed
  BY ZenonT(90) DEF LeaseInv, HasLease, Leased, LeaseConfirmed
<1>. QED
  BY <1>1, LeaseInit, LeaseNext, PTL DEF DhcpSpec

-----------------------------------------------------------------------------
\* Boot Server Discovery: a server of the list has been asked or is still in
\* the list of attempts, and the first attempt is not given up before it has
\* been made.

Dest == BootServers \cup {Broadcast, Multicast}

Asked(d, b, sent) == [type |-> "pxebs", xid |-> d.xid, dest |-> b] \in sent

Ahead(l, b) == \E j \in 1..Len(l) : l[j] = b

\* The state was entered and its timer, of no delay, has not expired yet.
Unasked(d) == d.timeout = 0 /\ d.started = 0 /\ d.elapsed <= 1

Tried(d, sent) ==
    d.state = "pxebs" =>
        /\ d.attempt \in Seq(Dest) /\ d.pxe_type = 1 /\ (d.filter => d.accept = Known)
        /\ \A i \in DOMAIN ServerList :
              Asked(d, ServerList[i], sent) \/ Ahead(d.attempt, ServerList[i])
        /\ d.rc = "open" => d.attempt # <<>> /\ (Asked(d, d.attempt[1], sent) \/ Unasked(d))
        /\ d.rc = "unserved" => d.attempt = <<>>

\* The answer that a filtered discovery has registered
AckListed ==
    LET ack == settings["pxebs"] IN
    ack # NoPacket /\ ack.src \in Known /\ ack.menu = 1

BootInv ==
    /\ Tried(dhcp, seen)
    /\ dhcp.rc = "unserved" => dhcp.state = "pxebs"
    /\ dhcp.state = "pxebs" /\ dhcp.rc = "ok" /\ dhcp.filter => AckListed

\* What Boot Server Discovery remembers
SameBoot(d, e) ==
    /\ e.xid = d.xid /\ e.pxe_type = d.pxe_type /\ e.attempt = d.attempt
    /\ e.filter = d.filter /\ e.accept = d.accept

SetBoot(d, state, e) ==
    /\ SameBoot(d, e) /\ e.state = state /\ e.rc = d.rc /\ e.tx = d.tx
    /\ e.timeout = 0 /\ e.started = 0 /\ e.elapsed = 0

EndBoot(d, rc, e) ==
    SameBoot(d, e) /\ e.state = d.state /\ e.tx = d.tx /\ (d.rc = "open" => e.rc = rc)

\* dhcp_set_state() and dhcp_finished() leave that alone.
LEMMA SetStateBoot ==
    ASSUME NEW d, IsSession(d), NEW state
    PROVE  SetBoot(d, state, dhcp_set_state(d, state))
BY ZenonT(60) DEF dhcp_set_state, IsSession, Fields, SetBoot, SameBoot

LEMMA FinishedBoot ==
    ASSUME NEW d, IsSession(d), NEW rc
    PROVE  EndBoot(d, rc, dhcp_finished(d, rc))
BY ZenonT(60) DEF dhcp_finished, IsSession, Fields, EndBoot, SameBoot

\* A session that does not go on, or goes on as it was, has tried as much.
LEMMA TriedKept ==
    ASSUME NEW d, NEW sent, Tried(d, sent), NEW e, NEW more, sent \subseteq more,
           SameBoot(d, e), e.state = d.state,
           e.rc = "open" => d.rc = "open" /\ (Unasked(d) => Unasked(e)),
           e.rc = "unserved" => d.rc = "unserved"
    PROVE  Tried(e, more)
<1>1. \A b : Asked(d, b, sent) => Asked(e, b, more)
  BY Zenon DEF Asked, SameBoot
<1>. QED
  BY Zenon, <1>1 DEF Tried, SameBoot

\* The first attempt, once made, is dropped without loss (the failover in
\* dhcp_pxebs_expired()).
LEMMA TriedNext ==
    ASSUME NEW d, NEW sent, Tried(d, sent), d.state = "pxebs", d.rc = "open",
           Asked(d, d.attempt[1], sent)
    PROVE  /\ Tail(d.attempt) \in Seq(Dest)
           /\ \A i \in DOMAIN ServerList :
                 Asked(d, ServerList[i], sent) \/ Ahead(Tail(d.attempt), ServerList[i])
<1>1. d.attempt \in Seq(Dest) /\ d.attempt # <<>>
  BY Zenon DEF Tried
<1>. DEFINE l == d.attempt
<1>2. ASSUME NEW b, Ahead(l, b), b # l[1]
      PROVE  Ahead(Tail(l), b)
  <2>1. PICK j \in 1..Len(l) : l[j] = b
    BY Zenon, <1>2 DEF Ahead
  <2>. HIDE DEF l
  <2>2. j - 1 \in 1..Len(Tail(l)) /\ Tail(l)[j - 1] = b
    BY <1>1, <1>2, <2>1 DEF l
  <2>. QED
    BY Zenon, <2>2 DEF Ahead
<1>3. Tail(l) \in Seq(Dest)
  BY <1>1
<1>4. ASSUME NEW i \in DOMAIN ServerList
      PROVE  Asked(d, ServerList[i], sent) \/ Ahead(Tail(l), ServerList[i])
  <2>1. Asked(d, ServerList[i], sent) \/ Ahead(l, ServerList[i])
    BY Zenon DEF Tried
  <2>. QED
    BY Zenon, <1>2, <2>1
<1>. QED
  BY Zenon, <1>3, <1>4

\* Sending changes nothing of this (DhcpStep).
LEMMA StepBoot ==
    ASSUME NEW e, IsSession(e), DhcpStep(e), Tried(e, seen \cup e.tx)
    PROVE  /\ Tried(dhcp, seen)' /\ dhcp'.state = e.state /\ dhcp'.rc = e.rc
           /\ dhcp'.filter = e.filter
<1>1. /\ SameBoot(e, dhcp') /\ dhcp'.state = e.state /\ dhcp'.rc = e.rc
      /\ dhcp'.timeout = e.timeout /\ dhcp'.started = e.started /\ dhcp'.elapsed = e.elapsed
  BY ZenonT(60) DEF DhcpStep, IsSession, Fields, SameBoot
<1>2. seen' = seen \cup e.tx
  BY Zenon DEF DhcpStep
<1>3. Tried(dhcp', seen')
  BY Zenon, <1>1, <1>2, TriedKept DEF Unasked
<1>. QED
  BY Zenon, <1>1, <1>3 DEF SameBoot

\* The expiry of the timer in Boot Server Discovery (dhcp_pxebs_expired()):
\* asks the first server of the list, or goes on to the next one after the
\* first has been asked.
LEMMA ExpiredTried ==
    ASSUME NEW d, Timed(d), d.rc = "open", d.tx = {}, d.state = "pxebs",
           NEW sent, Tried(d, sent), NEW e, e = DhcpExpired(d)
    PROVE  Tried(e, sent \cup e.tx)
<1>. DEFINE fail == 2 * d.timeout > DHCP_MAX_TIMEOUT
            late == [d EXCEPT !.timer = FALSE,
                              !.timeout = IF fail THEN DHCP_MAX_TIMEOUT ELSE 2 * @]
            next == [late EXCEPT !.attempt = Tail(@)]
<1>0. IsSession(d)
  BY Zenon DEF Timed
<1>1. /\ IsSession(late) /\ SameBoot(d, late) /\ late.state = d.state /\ late.rc = d.rc
      /\ late.tx = d.tx /\ late.elapsed = d.elapsed
  BY Zenon, <1>0 DEF IsSession, Fields, SameBoot
<1>2. e = IF fail THEN dhcp_finished(late, "timedout") ELSE dhcp_pxebs_expired(late)
  BY Zenon DEF DhcpExpired
<1>3. dhcp_pxebs_expired(late) =
        IF late.elapsed <= PXEBS_MAX_TIMEOUT THEN dhcp_tx(late)
        ELSE IF next.attempt # <<>> THEN dhcp_set_state(next, "pxebs")
        ELSE dhcp_finished(next, "unserved")
  BY Zenon DEF dhcp_pxebs_expired
<1>. HIDE DEF late
<1>4. /\ IsSession(next) /\ next.xid = d.xid /\ next.pxe_type = d.pxe_type
      /\ next.filter = d.filter /\ next.accept = d.accept /\ next.attempt = Tail(d.attempt)
      /\ next.state = d.state /\ next.rc = d.rc /\ next.tx = d.tx
  BY Zenon, <1>1 DEF IsSession, Fields, SameBoot
<1>. HIDE DEF next, fail
<1>5. CASE e = dhcp_finished(late, "timedout")
  <2>1. EndBoot(late, "timedout", e)
    BY Zenon, <1>1, <1>5, FinishedBoot
  <2>2. SameBoot(d, e) /\ e.state = d.state /\ e.rc = "timedout"
    BY Zenon, <1>1, <2>1 DEF EndBoot, SameBoot
  <2>. QED
    BY Zenon, <2>2, TriedKept
<1>6. CASE e = dhcp_tx(late)
  <2>1. SameBoot(late, e) /\ e.state = late.state /\ e.rc = late.rc /\ e.tx = {dhcp_pxebs_tx(late)}
    BY ZenonT(60), <1>1, <1>6 DEF dhcp_tx, IsSession, Fields, SameBoot
  <2>2. SameBoot(d, e) /\ e.state = d.state /\ e.rc = d.rc
    BY Zenon, <1>1, <2>1 DEF SameBoot
  <2>3. Asked(e, e.attempt[1], sent \cup e.tx)
    BY Zenon, <2>1 DEF Asked, dhcp_pxebs_tx, SameBoot
  <2>4. \A b : Asked(d, b, sent) => Asked(e, b, sent \cup e.tx)
    BY Zenon, <2>2 DEF Asked, SameBoot
  <2>. QED
    BY Zenon, <2>2, <2>3, <2>4 DEF Tried, SameBoot
<1>7. ASSUME ~(late.elapsed <= PXEBS_MAX_TIMEOUT)
      PROVE  /\ Tail(d.attempt) \in Seq(Dest)
             /\ \A i \in DOMAIN ServerList :
                   Asked(d, ServerList[i], sent) \/ Ahead(Tail(d.attempt), ServerList[i])
  <2>1. PXEBS_MAX_TIMEOUT \in Nat /\ PXEBS_MAX_TIMEOUT >= 3
    BY DhcpAssumption DEF PXEBS_MAX_TIMEOUT
  <2>2. ~(d.elapsed <= 1)
    BY <1>1, <1>7, <2>1 DEF Timed
  <2>3. Asked(d, d.attempt[1], sent)
    BY Zenon, <2>2 DEF Tried, Unasked
  <2>. QED
    BY Zenon, <2>3, TriedNext
<1>8. ASSUME ~(late.elapsed <= PXEBS_MAX_TIMEOUT), e.xid = d.xid, e.attempt = Tail(d.attempt)
      PROVE  /\ e.attempt \in Seq(Dest)
             /\ \A i \in DOMAIN ServerList :
                   Asked(e, ServerList[i], sent \cup e.tx) \/ Ahead(e.attempt, ServerList[i])
  BY Zenon, <1>7, <1>8 DEF Asked
<1>9. d.pxe_type = 1 /\ (d.filter => d.accept = Known)
  BY Zenon DEF Tried
<1>10. CASE /\ ~(late.elapsed <= PXEBS_MAX_TIMEOUT) /\ next.attempt # <<>>
            /\ e = dhcp_set_state(next, "pxebs")
  <2>1. SetBoot(next, "pxebs", e)
    BY Zenon, <1>4, <1>10, SetStateBoot
  <2>2. /\ e.xid = d.xid /\ e.attempt = Tail(d.attempt) /\ e.attempt # <<>> /\ e.pxe_type = 1
        /\ e.filter => e.accept = Known
        /\ e.rc = "open"
    BY Zenon, <1>4, <1>9, <1>10, <2>1 DEF SetBoot, SameBoot
  <2>3. Unasked(e)
    BY <2>1 DEF SetBoot, Unasked
  <2>4. e.rc # "unserved"
    BY <2>2
  <2>. QED
    BY Zenon, <1>8, <1>10, <2>2, <2>3, <2>4 DEF Tried
<1>11. CASE /\ ~(late.elapsed <= PXEBS_MAX_TIMEOUT) /\ next.attempt = <<>>
            /\ e = dhcp_finished(next, "unserved")
  <2>1. EndBoot(next, "unserved", e)
    BY Zenon, <1>4, <1>11, FinishedBoot
  <2>2. /\ e.xid = d.xid /\ e.attempt = Tail(d.attempt) /\ e.attempt = <<>> /\ e.pxe_type = 1
        /\ e.filter => e.accept = Known
        /\ e.rc = "unserved"
    BY Zenon, <1>4, <1>9, <1>11, <2>1 DEF EndBoot, SameBoot
  <2>3. e.rc # "open"
    BY <2>2
  <2>. QED
    BY Zenon, <1>8, <1>11, <2>2, <2>3 DEF Tried
<1>. QED
  BY Zenon, <1>2, <1>3, <1>5, <1>6, <1>10, <1>11

\* What answers Boot Server Discovery comes from a boot server, which names
\* itself if it names one: a filtered answer is from a server of the list.
LEMMA AnswerListed ==
    ASSUME NEW r, IsRequest(r), NEW m \in RepliesTo(r), NEW d, d.xid \in 1..Xids,
           Matching(d, m), FromBootServer(d, m), d.pxe_type = 1, d.filter, d.accept = Known
    PROVE  m # NoPacket /\ m.src \in Known /\ m.menu = 1
<1>1. /\ r.type = "discover" => RepliesTo(r) = OffersTo(r)
      /\ r.type = "request" => RepliesTo(r) = AnswersTo(r)
      /\ r.type = "proxy" => RepliesTo(r) = ProxyAnswersTo(r)
      /\ r.type = "pxebs" => RepliesTo(r) = BootAnswersTo(r)
  BY ZenonT(60) DEF RepliesTo
<1>2. m.menu = 1 /\ (IF m.server # NoAddr THEN m.server ELSE m.src) \in Known
  BY Zenon DEF FromBootServer, dhcp_pxebs_accept
<1>3. r.type = "pxebs"
  <2>1. \A o, type, xid : Reply(o, type, xid).menu = 0 /\ ProxyReply(o, xid).menu = 0
    BY DEF Reply, ProxyReply
  <2>2. r.type \in {"discover", "request", "proxy"} =>
           \E o, type, xid : m = Reply(o, type, xid) \/ m = ProxyReply(o, xid)
    <3>1. CASE r.type = "discover"
      BY <1>1, <3>1 DEF OffersTo
    <3>2. CASE r.type = "request"
      BY <1>1, <3>2 DEF AnswersTo
    <3>3. CASE r.type = "proxy"
      BY ZenonT(60), <1>1, <3>3 DEF ProxyAnswersTo
    <3>. QED
      BY Zenon, <3>1, <3>2, <3>3
  <2>3. m.menu # 0
    BY <1>2
  <2>. QED
    BY Zenon, <2>1, <2>2, <2>3 DEF IsRequest
<1>4. PICK b \in BootServers, id \in {NoAddr, r.dest} \ {Broadcast, Multicast} :
         m = BootReply(b, id, 1, r.xid) /\ r.dest \in {b, Broadcast, Multicast}
  BY <1>1, <1>3 DEF BootAnswersTo
<1>5. id \in {NoAddr, b}
  BY Zenon, <1>4
<1>6. m.server = id /\ m.src = b /\ m.xid = r.xid
  BY <1>4 DEF BootReply
<1>7. m.src \in Known
  BY Zenon, <1>2, <1>5, <1>6
<1>8. r.xid \in 1..Xids
  BY Zenon, <1>6 DEF Matching
<1>9. m # NoPacket
  BY Zenon, <1>4, <1>5, <1>8, NoPacketAssumption
<1>. QED
  BY Zenon, <1>2, <1>7, <1>9

\* A packet (dhcp_deliver()): Boot Server Discovery goes on as it was, or ends
\* with the answer registered.
LEMMA DeliverBoot ==
    ASSUME LeaseInv, BootInv, NEW r \in seen, NEW m \in RepliesTo(r), NEW fail,
           dhcp_deliver(m, fail)
    PROVE  BootInv'
<1>. DEFINE e == Rx(dhcp, m, fail, dhcp.xid + 1)
<1>0. /\ Timed(dhcp) /\ IsSession(dhcp) /\ dhcp.rc = "open" /\ dhcp.tx = {} /\ DhcpStep(e)
      /\ dhcp.state = "request" => dhcp.offer # NoAddr
  BY DEF dhcp_deliver, LeaseInv, Timed
<1>e. e = Rx(dhcp, m, fail, dhcp.xid + 1)
  OBVIOUS
<1>. HIDE DEF e
<1>1. RxGave(dhcp, m, fail, dhcp.xid + 1, e)
  BY Zenon, <1>0, <1>e, RxFields
<1>2. /\ IsSession(e) /\ e.tx = {} /\ e.rc \in {"open", "ok", "error"}
      /\ e.state = "pxebs" => dhcp.state = "pxebs"
  BY Zenon, <1>1 DEF RxGave
<1>3. e.rc # "unserved"
  BY <1>2
<1>4. CASE dhcp.state # "pxebs"
  <2>1. Tried(e, seen \cup e.tx)
    BY Zenon, <1>2, <1>4 DEF Tried
  <2>2. Tried(dhcp, seen)' /\ dhcp'.state = e.state /\ dhcp'.rc = e.rc
    BY Zenon, <1>0, <1>2, <2>1, StepBoot
  <2>. QED
    BY Zenon, <1>2, <1>3, <1>4, <2>2 DEF BootInv
<1>5. CASE dhcp.state = "pxebs"
  <2>1. \/ e = dhcp
        \/ /\ Matching(dhcp, m) /\ FromBootServer(dhcp, m)
           /\ \E rc \in {"ok", "error"} : e = dhcp_finished(dhcp, rc) /\ (rc = "ok" => "pxebs" \notin fail)
    <3>1. e = IF ~Matching(dhcp, m) THEN dhcp ELSE dhcp_pxebs_rx(dhcp, m, fail)
      BY Zenon, <1>e, <1>5 DEF Rx
    <3>. QED
      BY Zenon, <3>1 DEF dhcp_pxebs_rx
  <2>2. /\ SameBoot(dhcp, e) /\ e.state = dhcp.state
        /\ e.rc = "open" /\ Unasked(dhcp) => Unasked(e)
        /\ e.rc = "ok" => Matching(dhcp, m) /\ FromBootServer(dhcp, m) /\ "pxebs" \notin fail
    <3>1. CASE e = dhcp
      <4>1. e.rc # "ok"
        BY <1>0, <3>1
      <4>. QED
        BY Zenon, <3>1, <4>1 DEF SameBoot
    <3>2. ASSUME NEW rc \in {"ok", "error"}, e = dhcp_finished(dhcp, rc)
          PROVE  SameBoot(dhcp, e) /\ e.state = dhcp.state /\ e.rc = rc /\ e.rc # "open"
      <4>1. EndBoot(dhcp, rc, e)
        BY Zenon, <1>0, <3>2, FinishedBoot
      <4>2. rc # "open"
        BY <3>2
      <4>. QED
        BY Zenon, <1>0, <4>1, <4>2 DEF EndBoot
    <3>. QED
      BY Zenon, <2>1, <3>1, <3>2
  <2>3. Tried(e, seen \cup e.tx)
    BY Zenon, <1>0, <1>3, <2>2, TriedKept DEF BootInv
  <2>4. /\ Tried(dhcp, seen)' /\ dhcp'.state = e.state /\ dhcp'.rc = e.rc
        /\ dhcp'.filter = e.filter
    BY Zenon, <1>0, <1>2, <2>3, StepBoot
  <2>5. ASSUME e.rc = "ok", e.filter
        PROVE  AckListed'
    <3>1. Matching(dhcp, m) /\ FromBootServer(dhcp, m) /\ "pxebs" \notin fail /\ dhcp.filter
      BY Zenon, <2>2, <2>5 DEF SameBoot
    <3>2. settings'["pxebs"] = m
      <4>1. DOMAIN settings = {"dhcp", "proxydhcp", "pxebs"}
        BY DEF LeaseInv
      <4>2. settings' = Registered(dhcp, m, fail)
        BY Zenon DEF dhcp_deliver
      <4>. QED
        BY Zenon, <1>5, <3>1, <4>1, <4>2 DEF Registered
    <3>3. IsRequest(r) /\ dhcp.xid \in 1..Xids /\ dhcp.pxe_type = 1 /\ dhcp.accept = Known
      BY Zenon, <1>5, <3>1 DEF LeaseInv, BootInv, Tried
    <3>4. m # NoPacket /\ m.src \in Known /\ m.menu = 1
      BY Zenon, <3>1, <3>3, AnswerListed
    <3>. QED
      BY Zenon, <3>2, <3>4 DEF AckListed
  <2>. QED
    BY Zenon, <1>3, <2>4, <2>5 DEF BootInv
<1>. QED
  BY Zenon, <1>4, <1>5

\* The attempts that start_pxebs() lists have the known servers among them.
LEMMA AttemptsListed ==
    ASSUME NEW control
    PROVE  /\ Attempts(control) \in Seq(Dest)
           /\ \A i \in DOMAIN ServerList : Ahead(Attempts(control), ServerList[i])
<1>. DEFINE p == IF "NO_MULTICAST" \in control THEN <<>> ELSE <<Multicast>>
            q == IF "NO_BROADCAST" \in control THEN <<>> ELSE <<Broadcast>>
<1>1. Attempts(control) = p \o q \o ServerList
  BY Zenon DEF Attempts
<1>2. p \in Seq(Dest) /\ q \in Seq(Dest) /\ ServerList \in Seq(Dest)
  <2>1. Multicast \in Dest /\ Broadcast \in Dest /\ BootServers \subseteq Dest
    BY Zenon DEF Dest
  <2>2. \A x \in Dest : <<x>> \in Seq(Dest) /\ <<>> \in Seq(Dest)
    OBVIOUS
  <2>3. /\ Len(ServerList) \in Nat /\ DOMAIN ServerList = 1..Len(ServerList)
        /\ ServerList \in [1..Len(ServerList) -> BootServers]
    BY Zenon, DhcpAssumption, SeqLen
  <2>4. ServerList \in [1..Len(ServerList) -> Dest]
    BY <2>1, <2>3
  <2>. QED
    BY Zenon, <2>1, <2>2, <2>3, <2>4, SeqOf
<1>. HIDE DEF p, q
<1>3. p \o q \in Seq(Dest) /\ p \o q \o ServerList \in Seq(Dest)
  BY <1>2
<1>4. ASSUME NEW i \in DOMAIN ServerList
      PROVE  Ahead(p \o q \o ServerList, ServerList[i])
  <2>. DEFINE a == p \o q
  <2>1. a \in Seq(Dest)
    BY <1>3
  <2>. HIDE DEF a
  <2>2. /\ Len(a) + i \in 1..Len(a \o ServerList)
        /\ (a \o ServerList)[Len(a) + i] = ServerList[i]
    BY <1>2, <2>1
  <2>. QED
    BY Zenon, <2>2 DEF Ahead, a
<1>. QED
  BY Zenon, <1>1, <1>3, <1>4

\* start_pxebs() begins with every server of the list ahead.
LEMMA StartBoot ==
    ASSUME NEW control, NEW opened, start_pxebs(control, opened)
    PROVE  BootInv'
<1>. DEFINE filter == "NO_UNKNOWN_SERVERS" \in control
            new == [Session EXCEPT !.xid = dhcp_last_xid, !.pxe_type = 1, !.local = dhcp.local,
                                   !.attempt = Attempts(control), !.filter = filter,
                                   !.accept = IF filter THEN Known ELSE {}]
<1>1. /\ IsSession(new) /\ new.state = "none" /\ new.rc = "open" /\ new.pxe_type = 1
      /\ new.attempt = Attempts(control) /\ (new.filter => new.accept = Known)
  BY SessionFields, ZenonT(90) DEF IsSession, Fields
<1>2. PICK e : /\ DhcpStep(e)
               /\ \/ e = dhcp_finished(new, "error")
                  \/ new.attempt # <<>> /\ e = dhcp_set_state(new, "pxebs")
  BY Zenon DEF start_pxebs
<1>. HIDE DEF new
<1>3. CASE e = dhcp_finished(new, "error")
  <2>1. IsSession(e) /\ e.state = "none" /\ e.rc = "error"
    <3>1. Ended(new, "error", e)
      BY Zenon, <1>1, <1>3, FinishedFields
    <3>. QED
      BY Zenon, <1>1, <3>1 DEF Ended
  <2>2. e.state # "pxebs" /\ e.rc # "unserved"
    BY <2>1
  <2>3. Tried(e, seen \cup e.tx)
    BY Zenon, <2>2 DEF Tried
  <2>. QED
    BY Zenon, <1>2, <2>1, <2>2, <2>3, StepBoot DEF BootInv
<1>4. CASE new.attempt # <<>> /\ e = dhcp_set_state(new, "pxebs")
  <2>1. SetBoot(new, "pxebs", e)
    BY Zenon, <1>1, <1>4, SetStateBoot
  <2>2. Moved(new, "pxebs", e)
    BY Zenon, <1>1, <1>4, SetStateFields
  <2>3. /\ e.attempt = Attempts(control) /\ e.attempt # <<>> /\ e.pxe_type = 1
        /\ e.filter => e.accept = Known
        /\ e.rc = "open"
    BY Zenon, <1>1, <1>4, <2>1 DEF SetBoot, SameBoot
  <2>4. Unasked(e)
    BY <2>1 DEF SetBoot, Unasked
  <2>5. e.rc # "unserved" /\ e.rc # "ok"
    BY <2>3
  <2>6. Tried(e, seen \cup e.tx)
    BY Zenon, <2>3, <2>4, <2>5, AttemptsListed DEF Tried
  <2>7. Tried(dhcp, seen)' /\ dhcp'.rc = e.rc
    BY Zenon, <1>2, <2>2, <2>6, StepBoot DEF Moved
  <2>. QED
    BY Zenon, <2>5, <2>7 DEF BootInv
<1>. QED
  BY Zenon, <1>2, <1>3, <1>4

\* start_dhcp() does not begin with Boot Server Discovery.
LEMMA BootInit == DhcpInit => BootInv
<1>. SUFFICES ASSUME DhcpInit PROVE BootInv
  OBVIOUS
<1>1. Moved(Session, "discover", dhcp)
  BY Zenon, SessionFields, SetStateFields DEF DhcpInit
<1>2. dhcp.state = "discover" /\ dhcp.rc = "open"
  BY Zenon, SessionFields, <1>1 DEF Moved
<1>3. dhcp.state # "pxebs" /\ dhcp.rc # "unserved"
  BY <1>2
<1>. QED
  BY Zenon, <1>3 DEF BootInv, Tried

\* Every step keeps each server of the list asked or ahead.
LEMMA BootNext == LeaseInv /\ BootInv /\ [DhcpNext]_dhcpVars => BootInv'
<1>. SUFFICES ASSUME LeaseInv, BootInv, [DhcpNext]_dhcpVars PROVE BootInv'
  OBVIOUS
<1>0. Timed(dhcp) /\ IsSession(dhcp) /\ dhcp.tx = {}
  BY DEF LeaseInv, Timed
<1>1. ASSUME NEW now \in {TimerDue, TimerDue + 1, Limit(dhcp.state) + 1}, TimePasses(now)
      PROVE  BootInv'
  <2>1. /\ SameBoot(dhcp, dhcp') /\ dhcp'.state = dhcp.state /\ dhcp'.rc = dhcp.rc
        /\ dhcp'.timeout = dhcp.timeout /\ dhcp'.started = dhcp.started /\ dhcp'.elapsed = now
    BY <1>0, <1>1, Zenon DEF TimePasses, IsSession, Fields, SameBoot
  <2>2. UNCHANGED <<settings, seen>> /\ now <= TimerDue + 1
    BY Zenon, <1>1 DEF TimePasses
  <2>3. Unasked(dhcp) => Unasked(dhcp')
    BY <2>1, <2>2 DEF Unasked, TimerDue
  <2>4. Tried(dhcp', seen')
    BY Zenon, <2>1, <2>2, <2>3, TriedKept DEF BootInv
  <2>. QED
    BY Zenon, <2>1, <2>2, <2>4 DEF BootInv, AckListed, SameBoot
<1>2. CASE dhcp_timer_expired
  <2>. DEFINE e == DhcpExpired(dhcp)
  <2>e. e = DhcpExpired(dhcp)
    OBVIOUS
  <2>1. DhcpStep(e) /\ UNCHANGED settings /\ dhcp.timer
    BY Zenon, <1>2 DEF dhcp_timer_expired
  <2>2. dhcp.rc = "open" /\ dhcp.state \in {"discover", "request", "proxy", "pxebs"}
    BY ZenonT(60), <1>0, <2>1 DEF Timed
  <2>. HIDE DEF e
  <2>3. /\ IsSession(e)
        /\ \/ e.state = dhcp.state
           \/ dhcp.state = "discover" /\ e.state = "request" /\ dhcp.offer # NoAddr
        /\ e.rc = "ok" => dhcp.state = "proxy"
        /\ e.rc = "unserved" => dhcp.state = "pxebs"
    BY ZenonT(60), <1>0, <2>e, <2>2, ExpiredFields
  <2>4. /\ e.state = "pxebs" <=> dhcp.state = "pxebs"
        /\ e.rc = "unserved" => e.state = "pxebs"
        /\ ~(e.state = "pxebs" /\ e.rc = "ok")
    BY <2>3
  <2>5. Tried(e, seen \cup e.tx)
    <3>1. CASE dhcp.state = "pxebs"
      BY Zenon, <1>0, <2>e, <2>2, <3>1, ExpiredTried DEF BootInv
    <3>2. CASE dhcp.state # "pxebs"
      BY Zenon, <2>4, <3>2 DEF Tried
    <3>. QED
      BY Zenon, <3>1, <3>2
  <2>6. Tried(dhcp, seen)' /\ dhcp'.state = e.state /\ dhcp'.rc = e.rc
    BY Zenon, <2>1, <2>3, <2>5, StepBoot
  <2>. QED
    BY Zenon, <2>4, <2>6 DEF BootInv
<1>3. ASSUME NEW r \in seen, NEW fail, NEW m \in RepliesTo(r), dhcp_deliver(m, fail)
      PROVE  BootInv'
  BY Zenon, <1>3, DeliverBoot
<1>4. CASE dhcp_job_close
  <2>. DEFINE e == dhcp_finished(dhcp, "error")
  <2>1. DhcpStep(e) /\ dhcp.rc = "open"
    BY Zenon, <1>4 DEF dhcp_job_close
  <2>2. EndBoot(dhcp, "error", e) /\ Ended(dhcp, "error", e)
    BY Zenon, <1>0, FinishedBoot, FinishedFields
  <2>. HIDE DEF e
  <2>3. IsSession(e) /\ SameBoot(dhcp, e) /\ e.state = dhcp.state /\ e.rc = "error"
    BY Zenon, <2>1, <2>2 DEF EndBoot, Ended
  <2>4. e.rc # "open" /\ e.rc # "unserved" /\ e.rc # "ok"
    BY <2>3
  <2>5. Tried(e, seen \cup e.tx)
    BY Zenon, <2>3, <2>4, TriedKept DEF BootInv
  <2>6. Tried(dhcp, seen)' /\ dhcp'.rc = e.rc
    BY Zenon, <2>1, <2>3, <2>5, StepBoot
  <2>. QED
    BY Zenon, <2>4, <2>6 DEF BootInv
<1>5. ASSUME NEW control, NEW opened, start_pxebs(control, opened)
      PROVE  BootInv'
  BY Zenon, <1>5, StartBoot
<1>6. CASE UNCHANGED dhcpVars
  BY Zenon, <1>6 DEF dhcpVars, BootInv, AckListed
<1>. QED
  BY <1>1, <1>2, <1>3, <1>4, <1>5, <1>6 DEF DhcpNext

\* For every list of boot servers and however answers are lost or late: Boot
\* Server Discovery that gives up has asked every server of its list, and one
\* that is told to accept known servers only succeeds with the answer of a
\* server of the list.
THEOREM EveryServerAsked == DhcpSpec => []BootServersTried
<1>1. BootInv => BootServersTried
  <2>. SUFFICES ASSUME BootInv PROVE BootServersTried
    OBVIOUS
  <2>1. ASSUME dhcp.rc = "unserved", NEW i \in DOMAIN ServerList
        PROVE  [type |-> "pxebs", xid |-> dhcp.xid, dest |-> ServerList[i]] \in seen
    <3>1. dhcp.attempt = <<>> /\ (Asked(dhcp, ServerList[i], seen) \/ Ahead(dhcp.attempt, ServerList[i]))
      BY Zenon, <2>1 DEF BootInv, Tried
    <3>2. ~Ahead(<<>>, ServerList[i])
      BY DEF Ahead
    <3>. QED
      BY Zenon, <3>1, <3>2 DEF Asked
  <2>. QED
    BY Zenon, <2>1 DEF BootInv, AckListed, BootServersTried
<1>. QED
  BY <1>1, LeaseInit, LeaseNext, BootInit, BootNext, PTL DEF DhcpSpec

-----------------------------------------------------------------------------
(* Reassembly of fragments.                                                *)

\* What list_del() leaves of a sequence.
LEMMA Removed ==
    ASSUME NEW S, NEW s \in Seq(S), NEW i \in 1..Len(s)
    PROVE  /\ list_del(s, i) \in Seq(S)
           /\ Len(list_del(s, i)) = Len(s) - 1
           /\ \A k \in 1..(Len(s) - 1) :
                 list_del(s, i)[k] = IF k < i THEN s[k] ELSE s[k + 1]
<1> DEFINE a == SubSeq(s, 1, i - 1)
           b == SubSeq(s, i + 1, Len(s))
<1>1. a \in Seq(S) /\ Len(a) = i - 1 /\ \A k \in 1..(i - 1) : a[k] = s[k]
  OBVIOUS
<1>2. b \in Seq(S) /\ Len(b) = Len(s) - i /\ \A k \in 1..(Len(s) - i) : b[k] = s[i + k]
  OBVIOUS
<1> HIDE DEF a, b
<1>3. list_del(s, i) = a \o b
  BY DEF list_del, a, b
<1>4. Len(s) \in Nat /\ Len(a) \in Nat /\ Len(b) \in Nat
  BY <1>1, <1>2
<1>5. a \o b \in Seq(S) /\ Len(a \o b) = Len(a) + Len(b)
  BY Zenon, <1>1, <1>2, SeqJoin
<1>6. ASSUME NEW k \in 1..(Len(s) - 1)
      PROVE  (a \o b)[k] = IF k < i THEN s[k] ELSE s[k + 1]
  <2>0. k \in 1..(Len(a) + Len(b))
    BY <1>1, <1>2, <1>4
  <2>1. (a \o b)[k] = IF k <= Len(a) THEN a[k] ELSE b[k - Len(a)]
    BY <2>0, <1>1, <1>2, SeqJoin, ZenonT(60)
  <2>2. CASE k < i
    BY <2>1, <2>2, <1>1, <1>4
  <2>3. CASE ~(k < i)
    <3>1. k - Len(a) \in 1..(Len(s) - i) /\ i + (k - Len(a)) = k + 1
      BY <2>3, <1>1, <1>4
    <3> QED BY <3>1, <2>1, <2>3, <1>1, <1>2, <1>4
  <2> QED BY Zenon, <2>2, <2>3
<1> QED BY <1>1, <1>2, <1>3, <1>4, <1>5, <1>6

-----------------------------------------------------------------------------
(* The bytes of a datagram.                                                *)

Byte == Sources \X Idents \X Nat
Buffer == [id : Nat, src : Sources, ident : Idents, data : Seq(Byte)]

\* Bytes() is a sequence of the bytes from one offset to another.
LEMMA BytesType ==
    ASSUME NEW src \in Sources, NEW ident \in Idents,
           NEW from \in Nat, NEW to \in Nat, from <= to
    PROVE  /\ Bytes(src, ident, from, to) \in Seq(Byte)
           /\ Len(Bytes(src, ident, from, to)) = to - from
           /\ \A k \in 1..(to - from) :
                 Bytes(src, ident, from, to)[k] = <<src, ident, from + k - 1>>
<1> DEFINE n == to - from
           f == [k \in 1..n |-> <<src, ident, from + k - 1>>]
<1>1. n \in Nat
  OBVIOUS
<1>2. \A k \in 1..n : from + k - 1 \in Nat
  BY <1>1
<1>3. f \in [1..n -> Byte]
  BY <1>2, Zenon DEF Byte
<1>4. f \in Seq(Byte) /\ DOMAIN f = 1..n
  BY Zenon, <1>1, <1>3, SeqOf
<1>5. Len(f) = n
  BY <1>1, <1>4, SeqLen
<1> QED BY <1>4, <1>5 DEF Bytes

\* The same for the start of a datagram, which is what a buffer holds.
LEMMA BytesFromStart ==
    ASSUME NEW src \in Sources, NEW ident \in Idents, NEW n \in Nat
    PROVE  /\ Bytes(src, ident, 0, n) \in Seq(Byte) /\ Len(Bytes(src, ident, 0, n)) = n
           /\ \A k \in 1..n : Bytes(src, ident, 0, n)[k] = <<src, ident, k - 1>>
<1>1. 0 \in Nat /\ 0 <= n /\ n - 0 = n
  OBVIOUS
<1>2. /\ Bytes(src, ident, 0, n) \in Seq(Byte) /\ Len(Bytes(src, ident, 0, n)) = n - 0
      /\ \A k \in 1..(n - 0) : Bytes(src, ident, 0, n)[k] = <<src, ident, 0 + k - 1>>
  BY <1>1, BytesType, ZenonT(90)
<1> QED BY <1>1, <1>2

\* A buffer that is extended by the fragment that it expects holds the bytes
\* up to the end of that fragment.
LEMMA BytesExtended ==
    ASSUME NEW src \in Sources, NEW ident \in Idents, NEW n \in Nat, NEW len \in Nat
    PROVE  Bytes(src, ident, 0, n) \o Bytes(src, ident, n, n + len)
               = Bytes(src, ident, 0, n + len)
<1> DEFINE a == Bytes(src, ident, 0, n)
           b == Bytes(src, ident, n, n + len)
           c == Bytes(src, ident, 0, n + len)
<1>0. n + len \in Nat /\ n <= n + len /\ (n + len) - n = len
  OBVIOUS
<1>1. a \in Seq(Byte) /\ Len(a) = n /\ \A k \in 1..n : a[k] = <<src, ident, k - 1>>
  BY Zenon, BytesFromStart
<1>2. b \in Seq(Byte) /\ Len(b) = len /\ \A k \in 1..len : b[k] = <<src, ident, n + k - 1>>
  <2>1. \A to \in Nat : n <= to =>
           /\ Bytes(src, ident, n, to) \in Seq(Byte) /\ Len(Bytes(src, ident, n, to)) = to - n
           /\ \A k \in 1..(to - n) : Bytes(src, ident, n, to)[k] = <<src, ident, n + k - 1>>
    BY ZenonT(90), BytesType
  <2> QED BY <2>1, <1>0, Zenon
<1>3. c \in Seq(Byte) /\ Len(c) = n + len
      /\ \A k \in 1..(n + len) : c[k] = <<src, ident, k - 1>>
  BY <1>0, BytesFromStart, Zenon
<1> HIDE DEF a, b, c
<1>4. a \o b \in Seq(Byte) /\ Len(a \o b) = n + len
  BY Zenon, <1>1, <1>2, SeqJoin
<1>5. ASSUME NEW k \in 1..(n + len) PROVE (a \o b)[k] = c[k]
  <2>1. (a \o b)[k] = IF k <= n THEN a[k] ELSE b[k - n]
    BY <1>1, <1>2, SeqJoin, Zenon
  <2>2. CASE k <= n
    <3>1. k \in 1..n
      BY <2>2
    <3> QED BY <3>1, <2>1, <2>2, <1>1, <1>3, ZenonT(60)
  <2>3. CASE ~(k <= n)
    <3>1. k - n \in 1..len /\ n + (k - n) - 1 = k - 1
      BY <2>3
    <3>2. b[k - n] = <<src, ident, k - 1>>
      BY <3>1, <1>2
    <3> QED BY <3>2, <2>1, <2>3, <1>3, ZenonT(60)
  <2> QED BY Zenon, <2>2, <2>3
<1>6. a \o b = c
  BY Zenon, <1>3, <1>4, <1>5, SeqSame
<1> QED BY <1>6 DEF a, b, c

-----------------------------------------------------------------------------
(* The inductive invariant, of a list l of buffers, the running timers t    *)
(* and the number m of buffers made.  TimersAreBuffers needs that a new    *)
(* buffer is none of the old ones, ReturnedWhole that a buffer holds the   *)
(* start of its datagram, and both that fragment_find() finds the only     *)
(* buffer there is for a fragment.                                         *)

FromStart(b) == \E n \in 1..Length : b.data = Bytes(b.src, b.ident, 0, n)

Good(l, t, m) ==
    /\ l \in Seq(Buffer) /\ m \in Nat
    /\ t = {l[i].id : i \in 1..Len(l)}
    /\ \A i \in 1..Len(l) : l[i].id < m /\ FromStart(l[i])
    /\ \A i, j \in 1..Len(l) : l[i].id = l[j].id \/ is_fragment(l[i], l[j]) => i = j

FragInv == Good(list, running, made) /\ ReturnedWhole

\* Create() keeps it, when no buffer is for the fragment.
LEMMA GoodCreate ==
    ASSUME NEW l, NEW t, NEW m, Good(l, t, m),
           NEW b \in Buffer, b.id = m, FromStart(b),
           \A i \in 1..Len(l) : ~is_fragment(l[i], b)
    PROVE  Good(<<b>> \o l, t \cup {m}, m + 1)
<1> DEFINE k == <<b>> \o l
<1>1. l \in Seq(Buffer) /\ Len(l) \in Nat /\ m \in Nat
  BY DEF Good
<1>2. /\ k \in Seq(Buffer) /\ Len(k) = Len(l) + 1 /\ k[1] = b
      /\ \A i \in 2..(Len(l) + 1) : k[i] = l[i - 1]
  BY <1>1
<1> HIDE DEF k
<1>3. \A i \in 1..Len(k) : i = 1 \/ (i - 1 \in 1..Len(l) /\ k[i] = l[i - 1])
  BY <1>1, <1>2
<1>4. 1 \in 1..Len(k) /\ \A i \in 1..Len(l) : i + 1 \in 1..Len(k) /\ k[i + 1] = l[i]
  BY <1>1, <1>2
<1>5. t \cup {m} = {k[i].id : i \in 1..Len(k)}
  <2>1. ASSUME NEW i \in 1..Len(k) PROVE k[i].id \in t \cup {m}
    <3>1. \A j \in 1..Len(l) : l[j].id \in t
      BY DEF Good
    <3> QED BY <3>1, <1>2, <1>3, ZenonT(90)
  <2>2. ASSUME NEW x \in t \cup {m} PROVE \E i \in 1..Len(k) : x = k[i].id
    <3>1. CASE x = m
      BY <3>1, <1>2, <1>4, Zenon
    <3>2. CASE x \in t
      <4>1. PICK j \in 1..Len(l) : x = l[j].id
        BY <3>2 DEF Good
      <4> QED BY <4>1, <1>4, ZenonT(90)
    <3> QED BY <3>1, <3>2
  <2> QED BY <2>1, <2>2
<1>6. ASSUME NEW i \in 1..Len(k) PROVE k[i].id < m + 1 /\ FromStart(k[i])
  <2>1. CASE i = 1
    BY <2>1, <1>1, <1>2
  <2>2. CASE i - 1 \in 1..Len(l) /\ k[i] = l[i - 1]
    <3>1. l[i - 1] \in Buffer
      BY <1>1, <2>2, SeqAt
    <3>2. l[i - 1].id \in Nat
      BY <3>1 DEF Buffer
    <3>3. l[i - 1].id < m /\ FromStart(l[i - 1])
      BY <2>2, ZenonT(90) DEF Good
    <3> QED BY <3>2, <3>3, <2>2, <1>1
  <2> QED BY <2>1, <2>2, <1>3
<1>7. ASSUME NEW i \in 1..Len(l) PROVE l[i].id # m /\ ~is_fragment(l[i], b) /\ ~is_fragment(b, l[i])
  <2>1. l[i] \in Buffer
    BY <1>1, SeqAt
  <2>2. l[i].id \in Nat /\ l[i].id < m
    BY Zenon, <2>1 DEF Buffer, Good
  <2> QED BY <2>2, <1>1 DEF is_fragment
<1>8. ASSUME NEW i \in 1..Len(k), NEW j \in 1..Len(k),
             k[i].id = k[j].id \/ is_fragment(k[i], k[j])
      PROVE  i = j
  <2>1. CASE i = 1 /\ j = 1
    BY <2>1
  <2>2. CASE i = 1 /\ j # 1
    BY <2>2, <1>2, <1>3, <1>7, <1>8, ZenonT(60)
  <2>3. CASE i # 1 /\ j = 1
    BY <2>3, <1>2, <1>3, <1>7, <1>8, Zenon
  <2>4. CASE i # 1 /\ j # 1
    <3>1. /\ i - 1 \in 1..Len(l) /\ k[i] = l[i - 1]
          /\ j - 1 \in 1..Len(l) /\ k[j] = l[j - 1]
      BY <2>4, <1>3, ZenonT(90)
    <3>2. l[i - 1].id = l[j - 1].id \/ is_fragment(l[i - 1], l[j - 1])
      BY <3>1, <1>8 DEF is_fragment
    <3>3. i - 1 = j - 1
      BY <3>1, <3>2 DEF Good
    <3> QED BY <3>3
  <2> QED BY <2>1, <2>2, <2>3, <2>4
<1>9. m + 1 \in Nat
  BY <1>1
<1> QED BY <1>2, <1>5, <1>6, <1>8, <1>9, ZenonT(90) DEF Good, k

\* Removing a buffer and stopping its timer keeps it.
LEMMA GoodRemove ==
    ASSUME NEW l, NEW t, NEW m, Good(l, t, m), NEW i \in 1..Len(l)
    PROVE  Good(list_del(l, i), t \ {l[i].id}, m)
<1> DEFINE k == list_del(l, i)
           old(j) == IF j < i THEN j ELSE j + 1
<1>1. l \in Seq(Buffer) /\ Len(l) \in Nat /\ m \in Nat
  BY DEF Good
<1>2. /\ k \in Seq(Buffer) /\ Len(k) = Len(l) - 1
      /\ \A j \in 1..Len(k) : k[j] = l[old(j)]
  BY ZenonT(60), <1>1, Removed
<1>3. /\ \A j \in 1..Len(k) : old(j) \in 1..Len(l) /\ old(j) # i
      /\ \A j, h \in 1..Len(k) : old(j) = old(h) => j = h
  BY <1>1, <1>2
<1>4. \A h \in 1..Len(l) : h # i => \E j \in 1..Len(k) : old(j) = h
  <2> SUFFICES ASSUME NEW h \in 1..Len(l), h # i
               PROVE  \E j \in 1..Len(k) : old(j) = h
    OBVIOUS
  <2>1. CASE h < i
    BY <1>1, <1>2, <2>1
  <2>2. CASE h > i
    <3>1. h - 1 \in 1..Len(k) /\ old(h - 1) = h
      BY <1>1, <1>2, <2>2
    <3> QED BY <3>1
  <2> QED BY <2>1, <2>2
<1> HIDE DEF k, old
<1>5. t \ {l[i].id} = {k[j].id : j \in 1..Len(k)}
  <2>1. ASSUME NEW x \in t, x # l[i].id PROVE \E j \in 1..Len(k) : x = k[j].id
    <3>1. PICK h \in 1..Len(l) : x = l[h].id
      BY DEF Good
    <3> QED BY ZenonT(60), <3>1, <2>1, <1>2, <1>4
  <2>2. ASSUME NEW j \in 1..Len(k) PROVE k[j].id \in t /\ k[j].id # l[i].id
    <3>1. k[j] = l[old(j)] /\ old(j) \in 1..Len(l) /\ old(j) # i
      BY <1>2, <1>3, ZenonT(60)
    <3>2. l[old(j)].id \in t
      BY <3>1 DEF Good
    <3>3. l[old(j)].id # l[i].id
      BY <3>1 DEF Good
    <3> QED BY <3>1, <3>2, <3>3, Zenon
  <2> QED BY <2>1, <2>2
<1>6. \A j \in 1..Len(k) : k[j].id < m /\ FromStart(k[j])
  BY Zenon, <1>2, <1>3 DEF Good
<1>7. \A j, h \in 1..Len(k) : k[j].id = k[h].id \/ is_fragment(k[j], k[h]) => j = h
  BY ZenonT(60), <1>2, <1>3 DEF Good
<1> QED BY ZenonT(60), <1>1, <1>2, <1>5, <1>6, <1>7 DEF Good, k

\* Extending a buffer within its datagram keeps it.
LEMMA GoodExtend ==
    ASSUME NEW l, NEW t, NEW m, Good(l, t, m), NEW i \in 1..Len(l), NEW n \in 1..Length
    PROVE  Good([l EXCEPT ![i].data = Bytes(l[i].src, l[i].ident, 0, n)], t, m)
<1> DEFINE e == [l[i] EXCEPT !.data = Bytes(l[i].src, l[i].ident, 0, n)]
           k == [l EXCEPT ![i] = e]
<1>1. l \in Seq(Buffer) /\ Len(l) \in Nat /\ m \in Nat /\ l[i] \in Buffer
  BY SeqAt DEF Good
<1>2. n \in Nat
  BY FragmentAssumption
<1>3. Bytes(l[i].src, l[i].ident, 0, n) \in Seq(Byte)
  <2>1. l[i].src \in Sources /\ l[i].ident \in Idents
    BY <1>1 DEF Buffer
  <2> QED BY Zenon, <1>2, <2>1, BytesFromStart
<1>4. /\ e \in Buffer /\ e.id = l[i].id /\ e.src = l[i].src /\ e.ident = l[i].ident
      /\ e.data = Bytes(l[i].src, l[i].ident, 0, n)
  BY Zenon, <1>1, <1>3 DEF Buffer
<1>5. FromStart(e)
  BY <1>4 DEF FromStart
<1> HIDE DEF e
<1>6. /\ k \in Seq(Buffer) /\ Len(k) = Len(l)
      /\ \A j \in 1..Len(l) : k[j] = IF j = i THEN e ELSE l[j]
  BY <1>1, <1>4, SeqSet
<1> HIDE DEF k
<1>7. \A j \in 1..Len(l) : k[j].id = l[j].id /\ k[j].src = l[j].src /\ k[j].ident = l[j].ident
  BY ZenonT(90), <1>4, <1>6
<1>8. t = {k[j].id : j \in 1..Len(k)}
  BY <1>6, <1>7 DEF Good
<1>9. \A j \in 1..Len(k) : k[j].id < m /\ FromStart(k[j])
  <2>1. \A j \in 1..Len(l) : l[j].id < m /\ FromStart(l[j])
    BY DEF Good
  <2> QED BY <2>1, <1>4, <1>5, <1>6, ZenonT(60)
<1>10. \A j, h \in 1..Len(k) : k[j].id = k[h].id \/ is_fragment(k[j], k[h]) => j = h
  <2>1. \A j, h \in 1..Len(l) : l[j].id = l[h].id \/ is_fragment(l[j], l[h]) => j = h
    BY DEF Good
  <2> QED BY ZenonT(90), <2>1, <1>6, <1>7 DEF is_fragment
<1>11. Good(k, t, m)
  BY <1>1, <1>6, <1>8, <1>9, <1>10, ZenonT(60) DEF Good
<1> QED BY <1>11 DEF k, e

\* fragment_find() returns the buffer for the fragment, 0 if there is none.
LEMMA Found ==
    ASSUME Good(list, running, made), NEW f
    PROVE  \/ /\ fragment_find(f) = 0
              /\ \A i \in 1..Len(list) : ~is_fragment(list[i], f)
           \/ /\ fragment_find(f) \in 1..Len(list)
              /\ is_fragment(list[fragment_find(f)], f)
<1> DEFINE I == {i \in 1..Len(list) : is_fragment(list[i], f)}
<1>1. fragment_find(f) = IF I = {} THEN 0 ELSE CHOOSE i \in I : \A j \in I : i <= j
  <2>1. list \in Seq(Buffer)
    BY DEF Good
  <2>2. DOMAIN list = 1..Len(list)
    BY <2>1
  <2> DEFINE J == {i \in DOMAIN list : is_fragment(list[i], f)}
  <2>3. fragment_find(f) = IF J = {} THEN 0 ELSE CHOOSE i \in J : \A j \in J : i <= j
    BY DEF fragment_find
  <2>4. J = I
    BY Zenon, <2>2
  <2> HIDE DEF I, J
  <2> QED BY <2>3, <2>4
<1>2. CASE I = {}
  BY <1>1, <1>2
<1>3. CASE I # {}
  <2>1. PICK i : i \in I
    BY <1>3
  <2>2. \A j \in I : j = i
    BY <2>1 DEF Good, is_fragment
  <2>3. I = {i} /\ i \in Int
    BY <2>1, <2>2
  <2>4. (CHOOSE k \in I : \A j \in I : k <= j) = i
    BY <2>3
  <2> QED BY Zenon, <1>1, <1>3, <2>1, <2>4
<1> QED BY <1>2, <1>3

-----------------------------------------------------------------------------
(* Every step keeps the invariant.                                         *)

\* There is nothing in the list of fragments at first.
LEMMA FragInitInv == FragInit => FragInv
<1> SUFFICES ASSUME FragInit PROVE FragInv
  OBVIOUS
<1>1. list = <<>> /\ running = {} /\ made = 0 /\ rx = <<>>
  BY DEF FragInit
<1>2. list \in Seq(Buffer) /\ Len(list) = 0 /\ 1..Len(list) = {}
  BY <1>1
<1> QED BY Zenon, <1>1, <1>2 DEF FragInv, Good, ReturnedWhole

\* fragment_reassemble() drops a fragment, makes a buffer, extends one, or
\* completes it and returns its data.
LEMMA ReassembleInv ==
    ASSUME FragInv, NEW f \in Fragments, NEW nomem \in BOOLEAN, fragment_reassemble(f, nomem)
    PROVE  FragInv'
<1>1. /\ f.src \in Sources /\ f.ident \in Idents /\ f.offset \in Nat /\ f.len \in 1..Length
      /\ f.offset + f.len <= Length /\ Length \in Nat
  BY FragmentAssumption DEF Fragments
<1>2. Good(list, running, made) /\ list \in Seq(Buffer) /\ made \in Nat
  BY Zenon DEF FragInv, Good
<1>3. CASE Drop
  BY <1>2, <1>3 DEF Drop, FragInv, ReturnedWhole
<1>4. CASE f.offset = expected_offset(fragment_find(f)) /\ fragment_find(f) = 0 /\ Create(f)
  <2> DEFINE b == [id |-> made, src |-> f.src, ident |-> f.ident,
                   data |-> Bytes(f.src, f.ident, f.offset, f.offset + f.len)]
  <2>1. f.offset = 0 /\ f.offset + f.len = f.len
    BY <1>1, <1>4 DEF expected_offset
  <2>2. f.len \in Nat
    BY <1>1
  <2>3. Bytes(f.src, f.ident, 0, f.len) \in Seq(Byte)
    BY ZenonT(60), <1>1, <2>2, BytesFromStart
  <2>4. b \in Buffer /\ b.id = made
    BY ZenonT(60), <1>1, <1>2, <2>1, <2>3 DEF Buffer
  <2>5. FromStart(b)
    BY ZenonT(60), <1>1, <2>1 DEF FromStart
  <2>6. \A i \in 1..Len(list) : ~is_fragment(list[i], b)
    <3>1. \A i \in 1..Len(list) : ~is_fragment(list[i], f)
      BY <1>2, <1>4, Found
    <3> QED BY Zenon, <3>1 DEF is_fragment
  <2>7. list' = <<b>> \o list /\ running' = running \cup {made} /\ made' = made + 1 /\ rx' = <<>>
    BY Zenon, <1>4 DEF Create
  <2> HIDE DEF b
  <2>8. Good(<<b>> \o list, running \cup {made}, made + 1)
    BY ZenonT(60), <1>2, <2>4, <2>5, <2>6, GoodCreate
  <2> QED BY <2>7, <2>8 DEF FragInv, ReturnedWhole
<1>5. CASE f.offset = expected_offset(fragment_find(f)) /\ fragment_find(f) # 0
           /\ Extend(fragment_find(f), f)
  <2> DEFINE i == fragment_find(f)
             data == list[i].data \o Bytes(f.src, f.ident, f.offset, f.offset + f.len)
  <2>1. i \in 1..Len(list) /\ is_fragment(list[i], f)
    BY <1>2, <1>5, Found
  <2>2. list[i].src = f.src /\ list[i].ident = f.ident
    BY <2>1 DEF is_fragment
  <2>3. PICK n \in 1..Length : list[i].data = Bytes(f.src, f.ident, 0, n)
    BY Zenon, <1>2, <2>1, <2>2 DEF Good, FromStart
  <2>4. f.offset = n
    <3>1. f.offset = Len(list[i].data)
      BY <1>5 DEF expected_offset
    <3>2. n \in Nat
      BY <1>1
    <3>3. Len(Bytes(f.src, f.ident, 0, n)) = n
      BY <1>1, <3>2, BytesFromStart
    <3> QED BY <2>3, <3>1, <3>3, ZenonT(60)
  <2>5. n + f.len \in 1..Length /\ n \in Nat /\ f.len \in Nat
    BY <1>1, <2>4
  <2>6. data = Bytes(f.src, f.ident, 0, n + f.len)
    <3>1. data = Bytes(f.src, f.ident, 0, n) \o Bytes(f.src, f.ident, n, n + f.len)
      BY <2>3, <2>4, Zenon
    <3>2. Bytes(f.src, f.ident, 0, n) \o Bytes(f.src, f.ident, n, n + f.len)
              = Bytes(f.src, f.ident, 0, n + f.len)
      BY ZenonT(60), <1>1, <2>5, BytesExtended
    <3> QED BY <3>1, <3>2, Zenon
  <2>7. CASE more_fragments(f)
    <3>1. list' = [list EXCEPT ![i].data = data] /\ rx' = <<>> /\ made' = made
          /\ running' = running \cup {list[i].id}
      BY ZenonT(90), <1>5, <2>7 DEF Extend, TimersAfter
    <3>2. list[i].id \in running
      BY <1>2, <2>1 DEF Good
    <3>3. running' = running
      BY <3>1, <3>2
    <3> HIDE DEF i, data
    <3>4. Good([list EXCEPT ![i].data = Bytes(list[i].src, list[i].ident, 0, n + f.len)],
               running, made)
      BY <1>2, <2>1, <2>5, GoodExtend, Zenon
    <3>5. Good(list', running', made')
      BY ZenonT(90), <3>1, <3>3, <3>4, <2>2, <2>6
    <3> QED BY <3>1, <3>5 DEF FragInv, ReturnedWhole
  <2>8. CASE ~more_fragments(f)
    <3>1. list' = list_del(list, i) /\ rx' = data /\ made' = made
          /\ running' = running \ {list[i].id}
      BY Zenon, <1>5, <2>8 DEF Extend, TimersAfter
    <3>2. n + f.len = Length
      BY <1>1, <2>4, <2>5, <2>8 DEF more_fragments
    <3> HIDE DEF i, data
    <3>3. Good(list_del(list, i), running \ {list[i].id}, made)
      BY <1>2, <2>1, GoodRemove
    <3>4. rx' = Bytes(f.src, f.ident, 0, Length)
      BY <2>6, <3>1, <3>2
    <3> QED BY <1>1, <3>1, <3>3, <3>4 DEF FragInv, ReturnedWhole
  <2> QED BY <2>7, <2>8
<1> QED BY <1>3, <1>4, <1>5 DEF fragment_reassemble

\* fragment_expired() frees the buffer of the timer.
LEMMA ExpiredInv ==
    ASSUME FragInv, NEW id, fragment_expired(id)
    PROVE  FragInv'
<1>1. Good(list, running, made) /\ list \in Seq(Buffer)
  BY Zenon DEF FragInv, Good
<1>2. PICK i \in DOMAIN list : list[i].id = id /\ list' = list_del(list, i)
  BY DEF fragment_expired
<1>3. i \in 1..Len(list)
  BY <1>1
<1>4. running' = running \ {list[i].id} /\ made' = made /\ rx' = <<>>
  BY <1>2 DEF fragment_expired
<1>5. Good(list_del(list, i), running \ {list[i].id}, made)
  BY <1>1, <1>3, GoodRemove
<1> QED BY <1>2, <1>4, <1>5 DEF FragInv, ReturnedWhole

\* FragInv is inductive.
LEMMA FragInductive == FragInv /\ [FragNext]_fragVars => FragInv'
<1> SUFFICES ASSUME FragInv, [FragNext]_fragVars PROVE FragInv'
  OBVIOUS
<1>1. CASE UNCHANGED fragVars
  BY <1>1 DEF fragVars, FragInv, ReturnedWhole
<1>2. CASE FragNext
  BY <1>2, ReassembleInv, ExpiredInv DEF FragNext
<1> QED BY <1>1, <1>2

-----------------------------------------------------------------------------
\* For any number of buffers: the reassembly timers that run are those of the
\* buffers in the list, one each (fragment_reassemble(), fragment_expired()).
THEOREM TimersMatchBuffers == FragSpec => []TimersAreBuffers
<1>1. FragInv => TimersAreBuffers
  <2> SUFFICES ASSUME FragInv PROVE TimersAreBuffers
    OBVIOUS
  <2>1. list \in Seq(Buffer) /\ DOMAIN list = 1..Len(list)
    BY DEF FragInv, Good
  <2> QED BY Zenon, <2>1 DEF FragInv, Good, TimersAreBuffers
<1> QED BY <1>1, FragInitInv, FragInductive, PTL DEF FragSpec

\* For any length of a datagram and however it is cut: what
\* fragment_reassemble() returns is one whole datagram of one source.
THEOREM ReassembledWhole == FragSpec => []ReturnedWhole
<1>1. FragInv => ReturnedWhole
  BY DEF FragInv
<1> QED BY <1>1, FragInitInv, FragInductive, PTL DEF FragSpec
=============================================================================
