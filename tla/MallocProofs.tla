---------------------------- MODULE MallocProofs ----------------------------
(***************************************************************************)
(* Proofs about the memory allocator's list of free blocks, for any heap:  *)
(* what freeing a block and taking one do to it.  HeapProofs goes on to    *)
(* what the allocator's operations do.                                     *)
(***************************************************************************)
EXTENDS Malloc, WellFoundedInduction, TLAPS

\* The provers tried, in this order, where a step names none
USE SMT, Zenon, SMTT(90), ZenonT(60)

\* Two sequences joined.
LEMMA SeqJoin ==
    ASSUME NEW S, NEW p \in Seq(S), NEW q \in Seq(S)
    PROVE  /\ p \o q \in Seq(S) /\ Len(p \o q) = Len(p) + Len(q)
           /\ \A k \in 1..(Len(p) + Len(q)) :
                 (p \o q)[k] = IF k <= Len(p) THEN p[k] ELSE q[k - Len(p)]
  OBVIOUS

\* A sequence is a function on its places.
LEMMA SeqLen ==
    ASSUME NEW S, NEW p \in Seq(S)
    PROVE  Len(p) \in Nat /\ DOMAIN p = 1..Len(p) /\ p \in [1..Len(p) -> S]
  OBVIOUS

\* Sequences of one length with the same elements are the same.
LEMMA SeqSame ==
    ASSUME NEW S, NEW p \in Seq(S), NEW q \in Seq(S),
           Len(p) = Len(q), \A k \in 1..Len(p) : p[k] = q[k]
    PROVE  p = q
  OBVIOUS

\* The first element of a part of a sequence, and the others.
LEMMA PartRest ==
    ASSUME NEW S, NEW p \in Seq(S), NEW j \in 1..Len(p), NEW k \in j..Len(p)
    PROVE  Head(SubSeq(p, j, k)) = p[j] /\ Tail(SubSeq(p, j, k)) = SubSeq(p, j + 1, k)
  OBVIOUS

\* A part of a sequence ends with its last element.
LEMMA PartLast ==
    ASSUME NEW S, NEW p \in Seq(S), NEW j \in 1..Len(p), NEW k \in j..Len(p)
    PROVE  SubSeq(p, j, k) = SubSeq(p, j, k - 1) \o <<p[k]>>
  OBVIOUS

\* A set of natural numbers that is not empty has a least element.
LEMMA LeastNat ==
    ASSUME NEW S, S \subseteq Nat, S # {}
    PROVE  \E n \in S : \A m \in S : n <= m
  <1> DEFINE R == OpToRel(<, Nat)
  <1>1. \A x, y \in Nat : <<y, x>> \in R <=> y < x
    BY Zenon DEF OpToRel
  <1>2. IsWellFoundedOn(R, Nat)
    BY Zenon, NatLessThanWellFounded
  <1> HIDE DEF R
  <1>3. \E x \in S : \A y \in S : ~(<<y, x>> \in R)
    BY Zenon, <1>2, WFMin
  <1>4. \E x \in S : \A y \in S : ~(y < x)
    BY Zenon, <1>1, <1>3
  <1>5. QED
    BY <1>4

\* So Least picks it.
LEMMA LeastIsMin ==
    ASSUME NEW S, S \subseteq Nat, S # {}
    PROVE  Least(S) \in S /\ \A m \in S : Least(S) <= m
  BY Zenon, LeastNat DEF Least

-----------------------------------------------------------------------------
(* Counting addresses.                                                     *)

Bit(X, n) == IF HeapStart + n - 1 \in X THEN 1 ELSE 0

\* The function that Count is defined by, on the first n addresses
Counting(c, X, n) ==
    c = [k \in 0..n |-> IF k = 0 THEN 0 ELSE c[k - 1] + Bit(X, k)]

\* It exists: it can be continued by one address.
LEMMA CountingExists ==
    ASSUME NEW X, NEW n \in Nat
    PROVE  \E c : Counting(c, X, n)
  <1> DEFINE Bad == {k \in Nat : ~\E c : Counting(c, X, k)}
  <1> SUFFICES ASSUME Bad # {} PROVE FALSE
    OBVIOUS
  <1>1. PICK k \in Bad : \A l \in Bad : k <= l
    BY Zenon, LeastNat
  <1>2. CASE k = 0
    <2> DEFINE c == [i \in 0..0 |-> 0]
    <2>1. Counting(c, X, 0)
      BY DEF Counting
    <2>2. QED
      BY <1>1, <1>2, <2>1
  <1>3. CASE k # 0
    <2>1. k \in Nat /\ k - 1 \in Nat /\ k - 1 \notin Bad
      BY <1>1, <1>3
    <2>2. PICK c : Counting(c, X, k - 1)
      BY <2>1
    <2> DEFINE d == [i \in 0..k |-> IF i = k THEN c[k - 1] + Bit(X, k) ELSE c[i]]
               val(f, i) == IF i = 0 THEN 0 ELSE f[i - 1] + Bit(X, i)
    <2>3. \A i \in 0..(k - 1) : c[i] = val(c, i)
      BY <2>2 DEF Counting
    <2>4. ASSUME NEW i \in 0..k PROVE d[i] = val(d, i)
      <3>1. i = k => d[i] = c[k - 1] + Bit(X, k)
        OBVIOUS
      <3>2. i # k => d[i] = c[i] /\ i \in 0..(k - 1)
        BY <2>1
      <3>3. i # 0 => d[i - 1] = c[i - 1]
        BY <2>1
      <3> HIDE DEF d
      <3>4. QED
        BY Zenon, <1>3, <2>3, <3>1, <3>2, <3>3
    <2>5. d = [i \in 0..k |-> d[i]]
      OBVIOUS
    <2> HIDE DEF d
    <2>6. Counting(d, X, k)
      BY Zenon, <2>4, <2>5 DEF Counting
    <2>7. QED
      BY <1>1, <2>6
  <1>4. QED
    BY <1>2, <1>3

\* A count goes up by the address, or not.
IsCount(c, X) ==
    /\ Count(X) = c[HeapSize] /\ c[0] = 0
    /\ \A k \in 1..HeapSize : c[k] = c[k - 1] + Bit(X, k)
    /\ \A k \in 0..HeapSize : c[k] \in 0..k

\* The count of a set is the last value of such a function.
LEMMA Counted ==
    ASSUME NEW X, HeapSize \in Nat
    PROVE  \E c : IsCount(c, X)
  <1> DEFINE c == CHOOSE c : Counting(c, X, HeapSize)
  <1>1. Counting(c, X, HeapSize)
    BY Zenon, CountingExists
  <1>2. Count(X) = c[HeapSize]
    BY Zenon DEF Count, Counting, Bit
  <1> HIDE DEF c
  <1>3. \A k \in 0..HeapSize : c[k] = IF k = 0 THEN 0 ELSE c[k - 1] + Bit(X, k)
    BY <1>1 DEF Counting
  <1>4. c[0] = 0 /\ \A k \in 1..HeapSize : c[k] = c[k - 1] + Bit(X, k)
    BY <1>3
  <1> DEFINE Bad == {k \in 0..HeapSize : c[k] \notin 0..k}
  <1>5. Bad = {}
    <2> SUFFICES ASSUME Bad # {} PROVE FALSE
      OBVIOUS
    <2>1. Bad \subseteq Nat
      OBVIOUS
    <2>2. PICK k \in Bad : \A l \in Bad : k <= l
      BY Zenon, <2>1, LeastNat
    <2>3. k \in 1..HeapSize /\ k - 1 \in 0..HeapSize /\ ~(k <= k - 1)
      BY <1>4, <2>2
    <2>4. c[k - 1] \in 0..(k - 1)
      BY Zenon, <2>2, <2>3
    <2>5. c[k] = c[k - 1] + Bit(X, k) /\ Bit(X, k) \in {0, 1}
      BY Zenon, <1>4, <2>3 DEF Bit
    <2>6. c[k] \in 0..k
      BY <2>3, <2>4, <2>5
    <2>7. QED
      BY <2>2, <2>6
  <1>6. QED
    BY Zenon, <1>2, <1>4, <1>5 DEF IsCount

\* Sets that have no address in common count separately.
LEMMA CountJoin ==
    ASSUME NEW X, NEW Y, X \cap Y = {}, HeapSize \in Nat
    PROVE  /\ Count(X) \in 0..HeapSize /\ Count(Y) \in 0..HeapSize
           /\ Count(X \cup Y) = Count(X) + Count(Y)
  <1>1. PICK x : IsCount(x, X)
    BY Zenon, Counted
  <1>2. PICK y : IsCount(y, Y)
    BY Zenon, Counted
  <1>3. PICK z : IsCount(z, X \cup Y)
    BY Zenon, Counted
  <1> DEFINE Bad == {k \in 0..HeapSize : z[k] # x[k] + y[k]}
  <1>4. \A k : Bit(X \cup Y, k) = Bit(X, k) + Bit(Y, k)
    BY DEF Bit
  <1>5. Bad = {}
    <2> SUFFICES ASSUME Bad # {} PROVE FALSE
      OBVIOUS
    <2>1. Bad \subseteq Nat
      OBVIOUS
    <2>2. PICK k \in Bad : \A l \in Bad : k <= l
      BY Zenon, <2>1, LeastNat
    <2>3. k \in 1..HeapSize /\ k - 1 \in 0..HeapSize /\ ~(k <= k - 1)
      BY <1>1, <1>2, <1>3, <2>2 DEF IsCount
    <2>4. z[k - 1] = x[k - 1] + y[k - 1]
      BY Zenon, <2>2, <2>3
    <2>5. /\ x[k] = x[k - 1] + Bit(X, k) /\ y[k] = y[k - 1] + Bit(Y, k)
          /\ z[k] = z[k - 1] + Bit(X \cup Y, k)
          /\ x[k - 1] \in 0..(k - 1) /\ y[k - 1] \in 0..(k - 1)
      BY Zenon, <1>1, <1>2, <1>3, <2>3 DEF IsCount
    <2>6. Bit(X, k) \in Nat /\ Bit(Y, k) \in Nat
      BY DEF Bit
    <2>7. z[k] = x[k] + y[k]
      BY <1>4, <2>3, <2>4, <2>5, <2>6
    <2>8. QED
      BY <2>2, <2>7
  <1>6. HeapSize \in 0..HeapSize
    OBVIOUS
  <1>7. z[HeapSize] = x[HeapSize] + y[HeapSize]
    BY <1>5, <1>6
  <1>8. QED
    BY Zenon, <1>1, <1>2, <1>3, <1>6, <1>7 DEF IsCount

\* A range in the heap has as many addresses as it is long.
LEMMA CountRange ==
    ASSUME NEW p \in Nat, NEW e \in Nat, HeapStart \in Nat, HeapSize \in Nat,
           HeapStart <= p, p + e <= HeapStart + HeapSize
    PROVE  Count(p..(p + e - 1)) = e
  <1> DEFINE X == p..(p + e - 1)
             g == p - HeapStart
  <1>0. g \in Nat /\ g + e <= HeapSize
    OBVIOUS
  <1>1. PICK x : IsCount(x, X)
    BY Zenon, Counted
  <1>2. \A k \in 1..HeapSize : Bit(X, k) = IF g < k /\ k <= g + e THEN 1 ELSE 0
    BY DEF Bit
  <1>3. x[0] = 0 /\ \A k \in 1..HeapSize : x[k] = x[k - 1] + Bit(X, k)
    BY Zenon, <1>1 DEF IsCount
  <1> HIDE DEF X, g
  <1> DEFINE val(k) == IF k <= g THEN 0 ELSE IF k <= g + e THEN k - g ELSE e
             Bad == {k \in 0..HeapSize : x[k] # val(k)}
  <1>5. Bad = {}
    <2> SUFFICES ASSUME Bad # {} PROVE FALSE
      OBVIOUS
    <2>1. Bad \subseteq Nat
      OBVIOUS
    <2>2. PICK k \in Bad : \A l \in Bad : k <= l
      BY Zenon, <2>1, LeastNat
    <2>3. k \in 1..HeapSize /\ k - 1 \in 0..HeapSize /\ ~(k <= k - 1)
      BY <1>0, <1>3, <2>2
    <2>4. x[k - 1] = val(k - 1)
      BY Zenon, <2>2, <2>3
    <2>5. x[k] = x[k - 1] + (IF g < k /\ k <= g + e THEN 1 ELSE 0)
      BY Zenon, <1>2, <1>3, <2>3
    <2>6. x[k] = val(k)
      BY <1>0, <2>3, <2>4, <2>5
    <2>7. QED
      BY Zenon, <2>2, <2>6
  <1>6. x[HeapSize] = val(HeapSize)
    BY <1>5
  <1>7. val(HeapSize) = e
    BY <1>0
  <1>8. QED
    BY Zenon, <1>1, <1>6, <1>7 DEF IsCount, X
-----------------------------------------------------------------------------
(* Multiples of the minimum block size.                                    *)

HeapEnd == HeapStart + HeapSize

OnGrid(x) == \E k \in Int : x = MIN_MEMBLOCK_SIZE * k

\* Sums and differences of multiples are multiples; a multiple below the
\* block size is zero.
LEMMA GridArithmetic ==
    ASSUME NEW x \in Int, NEW y \in Int, OnGrid(x), OnGrid(y)
    PROVE  OnGrid(x + y) /\ OnGrid(x - y) /\ (0 <= x /\ x < MIN_MEMBLOCK_SIZE => x = 0)
  <1> DEFINE M == MIN_MEMBLOCK_SIZE
  <1>0. M \in Nat \ {0}
    BY MallocConstants
  <1> HIDE DEF M
  <1>1. PICK k \in Int : x = M * k
    BY DEF OnGrid, M
  <1>2. PICK l \in Int : y = M * l
    BY DEF OnGrid, M
  <1>3. x + y = M * (k + l) /\ x - y = M * (k - l) /\ k + l \in Int /\ k - l \in Int
    BY <1>0, <1>1, <1>2
  <1>4. OnGrid(x + y) /\ OnGrid(x - y)
    BY Zenon, <1>3 DEF OnGrid, M
  <1>5. ASSUME 0 <= x, x < M PROVE x = 0
    <2>1. ~(k >= 1)
      BY <1>0, <1>1, <1>5
    <2>2. ~(k <= -1)
      BY <1>0, <1>1, <1>5
    <2>3. k = 0
      BY <2>1, <2>2
    <2>4. QED
      BY <1>0, <1>1, <2>3
  <1>6. QED
    BY <1>4, <1>5 DEF M

\* Quotient and remainder.
LEMMA DivMod ==
    ASSUME NEW x \in Int, NEW N \in Nat \ {0}
    PROVE  /\ x = N * (x \div N) + (x % N)
           /\ x % N \in 0..(N - 1) /\ x \div N \in Int
  OBVIOUS

\* What a multiple of N leaves when divided by N.
LEMMA MultipleMod ==
    ASSUME NEW N \in Nat \ {0}, NEW q \in Int
    PROVE  (N * q) % N = 0
  <1> DEFINE x == N * q
             e == x \div N
             d == x % N
             k == q - e
  <1>1. x \in Int
    OBVIOUS
  <1>2. x = N * e + d /\ d \in 0..(N - 1) /\ e \in Int
    BY Zenon, <1>1, DivMod
  <1>3. k \in Int
    BY <1>2
  <1> HIDE DEF e, d
  <1>4. N * k = d
    BY <1>2
  <1> HIDE DEF k
  <1>5. ~(k >= 1)
    BY <1>2, <1>3, <1>4
  <1>6. ~(k <= -1)
    BY <1>2, <1>3, <1>4
  <1>7. d = 0
    BY <1>2, <1>3, <1>4, <1>5, <1>6
  <1>8. QED
    BY <1>7 DEF d, x

\* The sizes that alloc_memblock() and mpopulate() work with.
LEMMA Rounding ==
    /\ \A s \in Nat : /\ RoundUp(s) \in Nat /\ OnGrid(RoundUp(s)) /\ RoundUp(s) >= s
                      /\ s # 0 => RoundUp(s) >= MIN_MEMBLOCK_SIZE
                      /\ OnGrid(s) => RoundUp(s) = s
    /\ HeapSize \in Nat /\ OnGrid(HeapSize) /\ HeapSize <= HeapLen
    /\ HeapSize >= MIN_MEMBLOCK_SIZE
  <1> DEFINE M == MIN_MEMBLOCK_SIZE
  <1>0. M \in Nat \ {0} /\ HeapLen \in Nat /\ HeapLen >= M
    BY MallocConstants
  <1> HIDE DEF M
  <1>1. ASSUME NEW s \in Nat
        PROVE  /\ RoundUp(s) \in Nat /\ OnGrid(RoundUp(s)) /\ RoundUp(s) >= s
               /\ s # 0 => RoundUp(s) >= M
               /\ OnGrid(s) => RoundUp(s) = s
    <2> DEFINE x == s + M - 1
               q == x \div M
               r == x % M
    <2>1. x \in Nat /\ x >= s
      BY <1>0
    <2>x. x = s + M - 1
      OBVIOUS
    <2> HIDE DEF x
    <2>2. x = M * q + r /\ r \in 0..(M - 1) /\ q \in Int
      BY <1>0, <2>1, DivMod
    <2>3. RoundUp(s) = q * M
      BY DEF RoundUp, M, x
    <2> HIDE DEF q, r
    <2>4. q * M = M * q
      BY <1>0, <2>2
    <2>5. RoundUp(s) >= s /\ RoundUp(s) \in Int
      BY <1>0, <2>2, <2>3, <2>4, <2>x
    <2>6. OnGrid(RoundUp(s))
      BY <2>2, <2>3, <2>4 DEF OnGrid, M
    <2>7. ASSUME s # 0 PROVE RoundUp(s) >= M
      <3>1. q >= 1
        BY <1>0, <2>2, <2>x, <2>7
      <3>2. QED
        BY <1>0, <2>2, <2>3, <3>1
    <2>8. ASSUME OnGrid(s) PROVE RoundUp(s) = s
      <3>1. PICK k \in Int : s = M * k
        BY <2>8 DEF OnGrid, M
      <3> DEFINE e == q - k
      <3>2. e \in Int /\ M * e = M - 1 - r
        BY <1>0, <2>2, <2>x, <3>1
      <3> HIDE DEF e
      <3>3. ~(e >= 1) /\ ~(e <= -1)
        BY <1>0, <2>2, <3>2
      <3>4. e = 0
        BY <3>2, <3>3
      <3>5. q = k
        BY <2>2, <3>1, <3>4 DEF e
      <3>6. QED
        BY <2>3, <2>4, <3>1, <3>5
    <2>9. QED
      BY <2>5, <2>6, <2>7, <2>8
  <1>2. HeapSize \in Nat /\ OnGrid(HeapSize) /\ HeapSize <= HeapLen /\ HeapSize >= M
    <2> DEFINE q == HeapLen \div M
               r == HeapLen % M
    <2>1. HeapLen = M * q + r /\ r \in 0..(M - 1) /\ q \in Int
      BY <1>0, DivMod
    <2>2. HeapSize = q * M
      BY DEF HeapSize, M
    <2> HIDE DEF q, r
    <2>3. q * M = M * q
      BY <1>0, <2>1
    <2>4. OnGrid(HeapSize)
      BY <2>1, <2>2, <2>3 DEF OnGrid, M
    <2>5. q >= 1
      BY <1>0, <2>1
    <2>6. M * q >= M
      BY <1>0, <2>1, <2>5
    <2>7. QED
      BY <1>0, <2>1, <2>2, <2>3, <2>4, <2>6
  <1>3. QED
    BY <1>1, <1>2 DEF M

-----------------------------------------------------------------------------
(* Lists of free blocks.                                                   *)

InBlock(b, a) == b[1] <= a /\ a < End(b)
Covers(list, a) == \E i \in 1..Len(list) : InBlock(list[i], a)

\* Blocks of the heap in order of address, none of them touching the next.
Ordered(list) ==
    /\ list \in Seq(Nat \X Nat)
    /\ \A i \in 1..Len(list) : /\ list[i][2] >= MIN_MEMBLOCK_SIZE
                               /\ HeapStart <= list[i][1] /\ End(list[i]) <= HeapEnd
    /\ \A i, j \in 1..Len(list) : i < j => End(list[i]) < list[j][1]

\* Only the start and the end of the heap are off the grid.
Gridded(list) ==
    \A i \in 1..Len(list) : /\ OnGrid(list[i][1]) \/ list[i][1] = HeapStart
                            /\ OnGrid(End(list[i])) \/ End(list[i]) = HeapEnd

\* The places of a concatenation.
IsConcat(r, s, t, T) ==
    /\ r \in Seq(T) /\ Len(r) = Len(s) + Len(t)
    /\ \A i \in 1..Len(s) : r[i] = s[i]
    /\ \A i \in 1..Len(t) : r[Len(s) + i] = t[i]

\* Where the elements of a concatenation come from.
LEMMA ConcatPlaces ==
    ASSUME NEW T, NEW s \in Seq(T), NEW t \in Seq(T)
    PROVE  IsConcat(s \o t, s, t, T)
  <1> DEFINE m == Len(s)
             c == Len(t)
  <1>0. m \in Nat /\ c \in Nat
    OBVIOUS
  <1>1. /\ s \o t \in Seq(T) /\ Len(s \o t) = m + c
        /\ \A i \in 1..(m + c) : (s \o t)[i] = IF i <= m THEN s[i] ELSE t[i - m]
    BY SeqJoin
  <1> HIDE DEF m, c
  <1>2. \A i \in 1..m : i \in 1..(m + c) /\ i <= m
    BY <1>0
  <1>3. \A i \in 1..c : m + i \in 1..(m + c) /\ ~(m + i <= m) /\ (m + i) - m = i
    BY <1>0
  <1>4. QED
    BY <1>1, <1>2, <1>3 DEF IsConcat, m, c

\* The list that is put together of the first k places of "list", "mid", and
\* the places of "list" from l on, and which place is which.
Splice(list, mid, k, l) == SubSeq(list, 1, k) \o mid \o SubSeq(list, l, Len(list))

IsSplice(new, list, mid, k, l, T) ==
    /\ new \in Seq(T)
    /\ Len(new) = k + Len(mid) + Len(list) + 1 - l
    /\ \A i \in 1..k : new[i] = list[i]
    /\ \A i \in 1..Len(mid) : new[k + i] = mid[i]
    /\ \A i \in l..Len(list) : new[k + Len(mid) + 1 - l + i] = list[i]

\* Where the elements of a spliced list come from.
LEMMA SplicePlaces ==
    ASSUME NEW T, NEW list \in Seq(T), NEW mid \in Seq(T),
           NEW k \in Nat, NEW l \in Nat, k < l, l <= Len(list) + 1
    PROVE  IsSplice(Splice(list, mid, k, l), list, mid, k, l, T)
  <1> DEFINE n == Len(list)
             c == Len(mid)
             new == Splice(list, mid, k, l)
  <1>n. n \in Nat /\ c \in Nat /\ Len(list) = n /\ Len(mid) = c /\ l <= n + 1
        /\ new = SubSeq(list, 1, k) \o mid \o SubSeq(list, l, n)
    BY DEF Splice
  <1> HIDE DEF n, c, new
  <1> DEFINE p == SubSeq(list, 1, k)
             q == SubSeq(list, l, n)
             pm == p \o mid
             m == k + c
             d == n + 1 - l
  <1>0. \A i \in 1..n : list[i] \in T
    BY DEF n
  <1>1. p \in Seq(T) /\ Len(p) = k /\ \A i \in 1..k : p[i] = list[i]
    BY <1>0, <1>n
  <1>2. /\ d \in Nat /\ q \in Seq(T) /\ Len(q) = d
        /\ \A i \in 1..d : q[i] = list[l + i - 1]
    BY <1>0, <1>n
  <1>m. m \in Nat /\ m = k + c /\ d = n + 1 - l /\ new = pm \o q
    BY <1>n
  <1> HIDE DEF p, q, d
  <1>3. /\ pm \in Seq(T) /\ Len(pm) = m
        /\ \A i \in 1..k : pm[i] = p[i]
        /\ \A i \in 1..c : pm[k + i] = mid[i]
    <2>1. IsConcat(pm, p, mid, T)
      BY Zenon, <1>1, ConcatPlaces
    <2>2. QED
      BY Zenon, <1>1, <1>n, <2>1 DEF IsConcat
  <1> HIDE DEF pm, m
  <1>4. /\ pm \o q \in Seq(T) /\ Len(pm \o q) = m + d
        /\ \A i \in 1..m : (pm \o q)[i] = pm[i]
        /\ \A i \in 1..d : (pm \o q)[m + i] = q[i]
    <2>1. IsConcat(pm \o q, pm, q, T)
      BY Zenon, <1>2, <1>3, ConcatPlaces
    <2>2. QED
      BY Zenon, <1>2, <1>3, <2>1 DEF IsConcat
  <1>5. new \in Seq(T) /\ Len(new) = k + c + n + 1 - l
    <2>1. m + d = k + c + n + 1 - l
      BY <1>m, <1>n
    <2>2. QED
      BY Zenon, <1>4, <1>m, <2>1
  <1>6. /\ \A i \in 1..k : i \in 1..m
        /\ \A i \in 1..c : k + i \in 1..m
        /\ \A i \in l..n : /\ i + 1 - l \in 1..d /\ l + (i + 1 - l) - 1 = i
                           /\ m + (i + 1 - l) = k + c + 1 - l + i
    BY <1>m, <1>n
  <1>7. \A i \in 1..k : new[i] = list[i]
    BY <1>1, <1>3, <1>4, <1>6, <1>m
  <1>8. \A i \in 1..c : new[k + i] = mid[i]
    BY <1>3, <1>4, <1>6, <1>m
  <1>9. ASSUME NEW i \in l..n PROVE new[k + c + 1 - l + i] = list[i]
    <2> DEFINE j == i + 1 - l
    <2>1. j \in 1..d /\ l + j - 1 = i /\ m + j = k + c + 1 - l + i
      BY <1>6
    <2> HIDE DEF j
    <2>2. new[m + j] = q[j] /\ q[j] = list[l + j - 1]
      BY Zenon, <1>2, <1>4, <1>m, <2>1
    <2>3. QED
      BY <2>1, <2>2
  <1>10. QED
    BY Zenon, <1>5, <1>7, <1>8, <1>9 DEF IsSplice, n, c, new

\* The same by position in the new list.
LEMMA SpliceOrigins ==
    ASSUME NEW list, NEW mid, NEW new, NEW n \in Nat, NEW c \in Nat,
           NEW k \in Nat, NEW l \in Nat, k < l, l <= n + 1, NEW s \in Int, s = k + c + 1 - l,
           Len(new) = k + c + n + 1 - l,
           \A i \in 1..k : new[i] = list[i],
           \A i \in 1..c : new[k + i] = mid[i],
           \A i \in l..n : new[s + i] = list[i]
    PROVE  /\ \A x \in 1..Len(new) :
                \/ x \in 1..k /\ new[x] = list[x]
                \/ x - k \in 1..c /\ new[x] = mid[x - k]
                \/ x - s \in l..n /\ new[x] = list[x - s]
           /\ \A i \in 1..k : i \in 1..Len(new)
           /\ \A i \in 1..c : k + i \in 1..Len(new)
           /\ \A i \in l..n : s + i \in 1..Len(new)
  <1>1. ASSUME NEW x \in 1..Len(new)
        PROVE  \/ x \in 1..k /\ new[x] = list[x]
               \/ x - k \in 1..c /\ new[x] = mid[x - k]
               \/ x - s \in l..n /\ new[x] = list[x - s]
    <2>1. CASE x <= k
      <3>1. x \in 1..k
        BY <2>1
      <3>2. QED
        BY Zenon, <3>1
    <2>2. CASE x > k /\ x <= k + c
      <3>1. x - k \in 1..c /\ k + (x - k) = x
        BY <2>2
      <3>2. QED
        BY Zenon, <3>1
    <2>3. CASE x > k + c
      <3>1. x - s \in l..n /\ s + (x - s) = x
        BY <2>3
      <3>2. QED
        BY <3>1
    <2>4. QED
      BY <2>1, <2>2, <2>3
  <1>2. /\ \A i \in 1..k : i \in 1..Len(new)
        /\ \A i \in 1..c : k + i \in 1..Len(new)
        /\ \A i \in l..n : s + i \in 1..Len(new)
    OBVIOUS
  <1>3. QED
    BY <1>1, <1>2

\* Such a list is in order if the middle fits between the two ends.
LEMMA Spliced ==
    ASSUME NEW list, Ordered(list), NEW mid, Ordered(mid),
           NEW k \in Nat, NEW l \in Nat, k < l, l <= Len(list) + 1,
           \A i \in 1..k, j \in 1..Len(mid) : End(list[i]) < mid[j][1],
           \A i \in l..Len(list), j \in 1..Len(mid) : End(mid[j]) < list[i][1],
           NEW new, new = Splice(list, mid, k, l)
    PROVE  /\ Ordered(new)
           /\ \A a : Covers(new, a) <=> \/ \E i \in 1..k : InBlock(list[i], a)
                                        \/ Covers(mid, a)
                                        \/ \E i \in l..Len(list) : InBlock(list[i], a)
           /\ Gridded(list) /\ Gridded(mid) => Gridded(new)
  <1> DEFINE T == Nat \X Nat
             n == Len(list)
             c == Len(mid)
             s == k + c + 1 - l
  <1>t. list \in Seq(T) /\ mid \in Seq(T)
    BY Zenon DEF Ordered
  <1> HIDE DEF T
  <1>1. n \in Nat /\ c \in Nat
    BY Zenon, <1>t, SeqLen
  <1> HIDE DEF n, c
  <1>s. s \in Int /\ s = k + c + 1 - l /\ l <= n + 1
    BY <1>1 DEF n
  <1> HIDE DEF s
  <1>2. /\ new \in Seq(T)
        /\ Len(new) = k + c + n + 1 - l
        /\ \A i \in 1..k : new[i] = list[i]
        /\ \A i \in 1..c : new[k + i] = mid[i]
        /\ \A i \in l..n : new[k + c + 1 - l + i] = list[i]
    <2>1. IsSplice(new, list, mid, k, l, T)
      BY Zenon, <1>t, SplicePlaces
    <2>2. QED
      BY Zenon, <2>1 DEF IsSplice, n, c
  <1>3. \A i \in l..n : new[s + i] = list[i]
    BY Zenon, <1>2, <1>s
  <1>4. /\ \A x \in 1..Len(new) :
             \/ x \in 1..k /\ new[x] = list[x]
             \/ x - k \in 1..c /\ new[x] = mid[x - k]
             \/ x - s \in l..n /\ new[x] = list[x - s]
        /\ \A i \in 1..k : i \in 1..Len(new)
        /\ \A i \in 1..c : k + i \in 1..Len(new)
        /\ \A i \in l..n : s + i \in 1..Len(new)
    BY <1>1, <1>2, <1>3, <1>s, SpliceOrigins
  <1>o. /\ \A i \in 1..n : /\ list[i][2] >= MIN_MEMBLOCK_SIZE
                           /\ HeapStart <= list[i][1] /\ End(list[i]) <= HeapEnd
        /\ \A i, j \in 1..n : i < j => End(list[i]) < list[j][1]
        /\ \A i \in 1..c : /\ mid[i][2] >= MIN_MEMBLOCK_SIZE
                           /\ HeapStart <= mid[i][1] /\ End(mid[i]) <= HeapEnd
        /\ \A i, j \in 1..c : i < j => End(mid[i]) < mid[j][1]
    BY Zenon DEF Ordered, n, c
  <1>r. 1..k \subseteq 1..n /\ l..n \subseteq 1..n
    BY <1>1 DEF n
  <1>5. Ordered(new)
    <2>1. \A x \in 1..Len(new) : /\ new[x][2] >= MIN_MEMBLOCK_SIZE
                                 /\ HeapStart <= new[x][1] /\ End(new[x]) <= HeapEnd
      <3> TAKE x \in 1..Len(new)
      <3>1. (\E i \in 1..n : new[x] = list[i]) \/ \E j \in 1..c : new[x] = mid[j]
        BY Zenon, <1>4, <1>r
      <3>2. QED
        BY <1>o, <3>1
    <2>2. ASSUME NEW x \in 1..Len(new), NEW y \in 1..Len(new), x < y
          PROVE  End(new[x]) < new[y][1]
      <3>1. CASE x \in 1..k /\ new[x] = list[x] /\ y \in 1..k /\ new[y] = list[y]
        BY <1>o, <1>r, <2>2, <3>1
      <3>2. CASE x \in 1..k /\ new[x] = list[x] /\ y - k \in 1..c /\ new[y] = mid[y - k]
        BY <3>2 DEF c
      <3>3. CASE x \in 1..k /\ new[x] = list[x] /\ y - s \in l..n /\ new[y] = list[y - s]
        <4>1. x < y - s
          BY <1>1, <3>3
        <4>2. QED
          BY <1>o, <1>r, <3>3, <4>1
      <3>4. CASE x - k \in 1..c /\ new[x] = mid[x - k] /\ y - k \in 1..c /\ new[y] = mid[y - k]
        <4>1. x - k < y - k
          BY <2>2, <1>2
        <4>2. QED
          BY <1>o, <3>4, <4>1
      <3>5. CASE x - k \in 1..c /\ new[x] = mid[x - k] /\ y - s \in l..n /\ new[y] = list[y - s]
        BY <3>5 DEF c, n
      <3>6. CASE x - s \in l..n /\ new[x] = list[x - s] /\ y - s \in l..n /\ new[y] = list[y - s]
        <4>1. x - s < y - s
          BY <1>s, <1>2, <2>2
        <4>2. QED
          BY <1>o, <1>r, <3>6, <4>1
      <3>7. /\ ~(x - k \in 1..c /\ y \in 1..k) /\ ~(x - s \in l..n /\ y \in 1..k)
            /\ ~(x - s \in l..n /\ y - k \in 1..c)
        BY <1>1, <1>2, <1>s, <2>2
      <3>8. QED
        BY <1>4, <3>1, <3>2, <3>3, <3>4, <3>5, <3>6, <3>7
    <2>3. QED
      BY <1>2, <2>1, <2>2 DEF Ordered, T
  <1>6. ASSUME NEW a
        PROVE  Covers(new, a) <=> \/ \E i \in 1..k : InBlock(list[i], a)
                                  \/ \E i \in 1..c : InBlock(mid[i], a)
                                  \/ \E i \in l..n : InBlock(list[i], a)
    <2>1. Covers(new, a) <=> \E x \in 1..Len(new) : InBlock(new[x], a)
      BY DEF Covers
    <2>2. (\E x \in 1..Len(new) : InBlock(new[x], a))
             => \/ \E i \in 1..k : InBlock(list[i], a)
                \/ \E i \in 1..c : InBlock(mid[i], a)
                \/ \E i \in l..n : InBlock(list[i], a)
      BY <1>4
    <2>3. /\ \A i \in 1..k : InBlock(list[i], a) => InBlock(new[i], a)
          /\ \A i \in 1..c : InBlock(mid[i], a) => InBlock(new[k + i], a)
          /\ \A i \in l..n : InBlock(list[i], a) => InBlock(new[s + i], a)
      BY <1>2, <1>3
    <2>4. QED
      BY <1>4, <2>1, <2>2, <2>3
  <1>7. ASSUME Gridded(list), Gridded(mid) PROVE Gridded(new)
    <2> SUFFICES ASSUME NEW x \in 1..Len(new)
                 PROVE  /\ OnGrid(new[x][1]) \/ new[x][1] = HeapStart
                        /\ OnGrid(End(new[x])) \/ End(new[x]) = HeapEnd
      BY DEF Gridded
    <2>1. (\E i \in 1..n : new[x] = list[i]) \/ \E j \in 1..c : new[x] = mid[j]
      BY Zenon, <1>4, <1>r
    <2>2. QED
      BY <1>7, <2>1 DEF Gridded, n, c
  <1>8. QED
    BY <1>5, <1>6, <1>7 DEF Covers, c, n

-----------------------------------------------------------------------------
(* free_memblock().                                                        *)

\* A sequence with one more element, and without it again.
LEMMA FrontLast ==
    ASSUME NEW T, NEW s \in Seq(T), NEW x \in T
    PROVE  LET r == s \o <<x>> IN
           /\ SubSeq(r, 1, Len(r) - 1) = s /\ r[Len(r)] = x
           /\ Len(r) > 0 /\ r \in Seq(T)
  <1> DEFINE r == s \o <<x>>
             n == Len(s)
  <1>0. <<x>> \in Seq(T) /\ Len(<<x>>) = 1 /\ <<x>>[1] = x /\ n \in Nat
    OBVIOUS
  <1>1. IsConcat(r, s, <<x>>, T)
    BY Zenon, <1>0, ConcatPlaces
  <1>2. r \in Seq(T) /\ Len(r) = n + 1 /\ (\A i \in 1..n : r[i] = s[i]) /\ r[n + 1] = x
    BY <1>0, <1>1 DEF IsConcat
  <1> HIDE DEF r
  <1>3. r[Len(r)] = x /\ Len(r) > 0
    BY <1>0, <1>2
  <1>4. Len(r) - 1 = n
    BY <1>0, <1>2
  <1>5. SubSeq(r, 1, n) = s
    <2> DEFINE f == SubSeq(r, 1, n)
    <2>1. f \in Seq(T) /\ Len(f) = n /\ \A i \in 1..n : f[i] = r[i]
      BY <1>0, <1>2
    <2>2. \A i \in 1..Len(f) : f[i] = s[i]
      BY <1>2, <2>1
    <2> HIDE DEF f
    <2>3. f = s
      BY <2>1, <2>2, SeqSame
    <2>4. QED
      BY <2>3 DEF f
  <1>6. QED
    BY <1>2, <1>3, <1>4, <1>5 DEF r

Pairs == Nat \X Nat

\* The block that is freed, merged with its neighbours if they touch, between
\* the first k blocks of the list and those from l on.
MergedAt(list, i, b, mid, k, l) ==
    /\ mid \in Pairs /\ mid[1] + mid[2] = End(mid)
    /\ \/ k = i - 1 /\ mid[1] = b[1] /\ (i > 1 => End(list[i - 1]) # b[1])
       \/ k = i - 2 /\ i > 1 /\ mid[1] = list[i - 1][1] /\ End(list[i - 1]) = b[1]
    /\ \/ l = i /\ End(mid) = End(b) /\ (i <= Len(list) => list[i][1] # End(b))
       \/ l = i + 1 /\ i <= Len(list) /\ End(mid) = End(list[i]) /\ list[i][1] = End(b)

\* Merging with the block before.
LEMMA JoinedBefore ==
    ASSUME NEW list \in Seq(Pairs), NEW i \in 1..(Len(list) + 1), NEW b \in Pairs
    PROVE  \E k \in Nat, mid \in Pairs :
             /\ JoinBefore(SubSeq(list, 1, i - 1), b) = SubSeq(list, 1, k) \o <<mid>>
             /\ End(mid) = End(b) /\ k < i
             /\ \/ k = i - 1 /\ mid[1] = b[1] /\ (i > 1 => End(list[i - 1]) # b[1])
                \/ k = i - 2 /\ i > 1 /\ mid[1] = list[i - 1][1] /\ End(list[i - 1]) = b[1]
  <1> DEFINE n == Len(list)
             before == SubSeq(list, 1, i - 1)
             c == list[i - 1]
  <1>0. n \in Nat /\ i \in 1..(n + 1) /\ \A j \in 1..n : list[j] \in Pairs
    OBVIOUS
  <1>b. b[1] \in Nat /\ b[2] \in Nat
    BY DEF Pairs
  <1>1. CASE i = 1
    <2>1. Len(before) = 0
      BY <1>1
    <2>2. JoinBefore(before, b) = before \o <<b>>
      <3> HIDE DEF before
      <3>1. QED
        BY <2>1 DEF JoinBefore
    <2>3. 0 \in Nat /\ i - 1 = 0 /\ ~(i > 1) /\ 0 < i
      BY <1>1
    <2>4. QED
      BY Zenon, <2>2, <2>3
  <1>2. CASE i > 1
    <2> DEFINE j == i - 1
               p == SubSeq(list, 1, j - 1)
    <2>1. j \in 1..n /\ j - 1 \in Nat /\ j - 1 = i - 2 /\ j \in Nat /\ j - 1 < i /\ j < i
      BY <1>0, <1>2
    <2>2. c \in Pairs /\ c[1] \in Nat /\ c[2] \in Nat
      BY Zenon, <1>0, <2>1 DEF Pairs
    <2>3. before = p \o <<c>>
      <3>1. 1 \in 1..n /\ j \in 1..n
        BY <1>0, <2>1
      <3>2. QED
        BY <3>1, PartLast
    <2>4. p \in Seq(Pairs)
      BY <1>0, <2>1
    <2> HIDE DEF before, p, c
    <2> DEFINE m == Len(before)
    <2>5. SubSeq(before, 1, m - 1) = p /\ before[m] = c /\ m > 0
      BY <2>2, <2>3, <2>4, FrontLast
    <2>6. CASE End(c) = b[1]
      <3> DEFINE mid == <<c[1], c[2] + b[2]>>
      <3>1. JoinBefore(before, b) = p \o <<mid>>
        BY Zenon, <2>5, <2>6 DEF JoinBefore
      <3>2. mid \in Pairs /\ mid[1] = c[1] /\ End(mid) = End(b)
        BY <1>b, <2>2, <2>6 DEF End, Pairs
      <3> HIDE DEF mid
      <3>3. QED
        BY Zenon, <1>2, <2>1, <2>6, <3>1, <3>2 DEF before, p, c
    <2>7. CASE End(c) # b[1]
      <3>1. JoinBefore(before, b) = before \o <<b>>
        BY Zenon, <2>5, <2>7 DEF JoinBefore
      <3>2. QED
        BY Zenon, <1>2, <2>1, <2>7, <3>1 DEF before, c
    <2>8. QED
      BY Zenon, <2>6, <2>7 DEF before
  <1>3. i = 1 \/ i > 1
    BY <1>0
  <1>4. QED
    BY Zenon, <1>1, <1>2, <1>3

\* The parts of a free block.
LEMMA PairParts ==
    ASSUME NEW b \in Pairs
    PROVE  b[1] \in Nat /\ b[2] \in Nat /\ End(b) = b[1] + b[2]
  BY DEF Pairs, End

LEMMA PairOf ==
    ASSUME NEW x \in Nat, NEW y \in Nat
    PROVE  /\ <<x, y>> \in Pairs /\ <<x, y>>[1] = x /\ <<x, y>>[2] = y
           /\ End(<<x, y>>) = x + y
  BY DEF Pairs, End

\* Then with the block after.
LEMMA Joined ==
    ASSUME NEW list \in Seq(Pairs), NEW i \in 1..(Len(list) + 1), NEW b \in Pairs
    PROVE  \E k \in Nat, l \in Nat, mid \in Pairs :
             /\ JoinAfter(JoinBefore(SubSeq(list, 1, i - 1), b), SubSeq(list, i, Len(list)))
                  = Splice(list, <<mid>>, k, l)
             /\ MergedAt(list, i, b, mid, k, l) /\ k < i /\ i <= l /\ l <= Len(list) + 1
  <1> DEFINE n == Len(list)
             after == SubSeq(list, i, n)
             join == JoinBefore(SubSeq(list, 1, i - 1), b)
             c == list[i]
  <1>0. n \in Nat /\ i \in 1..(n + 1) /\ \A j \in 1..n : list[j] \in Pairs
    OBVIOUS
  <1>1. PICK k \in Nat, low \in Pairs :
             /\ join = SubSeq(list, 1, k) \o <<low>>
             /\ End(low) = End(b) /\ k < i
             /\ \/ k = i - 1 /\ low[1] = b[1] /\ (i > 1 => End(list[i - 1]) # b[1])
                \/ k = i - 2 /\ i > 1 /\ low[1] = list[i - 1][1] /\ End(list[i - 1]) = b[1]
    BY ZenonT(90), JoinedBefore
  <1> DEFINE p == SubSeq(list, 1, k)
  <1>2. p \in Seq(Pairs) /\ k <= n
    BY <1>0, <1>1
  <1>b. b[1] \in Nat /\ b[2] \in Nat /\ low[1] \in Nat /\ low[2] \in Nat
    BY Zenon, PairParts
  <1> HIDE DEF join
  <1> DEFINE m == Len(join)
  <1>3. SubSeq(join, 1, m - 1) = p /\ join[m] = low
    BY <1>1, <1>2, FrontLast
  <1>4. CASE i <= n /\ End(low) = c[1]
    <2>1. c \in Pairs /\ c[1] \in Nat /\ c[2] \in Nat
      <3>1. i \in 1..n
        BY <1>0, <1>4
      <3>2. QED
        BY Zenon, <1>0, <3>1, PairParts
    <2>2. i \in 1..n /\ n \in i..n
      BY <1>0, <1>4
    <2>3. Head(after) = c /\ Tail(after) = SubSeq(list, i + 1, n)
      BY <2>2, PartRest
    <2>4. after # <<>>
      <3>1. Len(after) = n - i + 1 /\ n - i + 1 > 0
        BY <1>0, <2>2
      <3> HIDE DEF after
      <3>2. QED
        BY <3>1
    <2> HIDE DEF after, p
    <2> DEFINE mid == <<low[1], low[2] + c[2]>>
    <2>5. JoinAfter(join, after) = p \o <<mid>> \o SubSeq(list, i + 1, n)
      BY Zenon, <1>3, <1>4, <2>3, <2>4 DEF JoinAfter
    <2>6. /\ mid \in Pairs /\ mid[1] = low[1] /\ End(mid) = End(c) /\ mid[1] + mid[2] = End(mid)
          /\ c[1] = End(b)
      <3>1. low[1] + low[2] = c[1] /\ c[1] = End(b)
        BY Zenon, <1>1, <1>4, PairParts
      <3>c. low[2] + c[2] \in Nat
        BY <1>b, <2>1
      <3>2. /\ mid \in Pairs /\ mid[1] = low[1] /\ mid[2] = low[2] + c[2]
            /\ End(mid) = low[1] + (low[2] + c[2])
        BY ZenonT(60), <1>b, <3>c, PairOf
      <3>3. End(c) = c[1] + c[2]
        BY Zenon, <2>1, PairParts
      <3> HIDE DEF mid, c
      <3>4. QED
        BY <1>b, <2>1, <3>1, <3>2, <3>3
    <2> HIDE DEF mid
    <2>7. JoinAfter(join, after) = Splice(list, <<mid>>, k, i + 1)
      BY <2>5 DEF Splice, p
    <2>8. MergedAt(list, i, b, mid, k, i + 1)
      BY <1>0, <1>1, <1>4, <2>6 DEF MergedAt
    <2>9. i + 1 \in Nat /\ i <= i + 1 /\ i + 1 <= n + 1
      BY <1>0, <1>4
    <2>10. QED
      BY Zenon, <1>1, <2>6, <2>7, <2>8, <2>9 DEF join, after
  <1>5. CASE ~(i <= n /\ End(low) = c[1])
    <2>1. JoinAfter(join, after) = join \o after
      <3>1. CASE i <= n
        <4>1. i \in 1..n /\ n \in i..n
          BY <1>0, <3>1
        <4>2. Head(after) = c
          BY <4>1, PartRest
        <4>3. QED
          BY Zenon, <1>3, <1>5, <3>1, <4>2 DEF JoinAfter
      <3>2. CASE ~(i <= n)
        <4>1. after = <<>>
          BY <1>0, <3>2
        <4>2. QED
          BY <4>1 DEF JoinAfter
      <3>3. QED
        BY Zenon, <3>1, <3>2
    <2>2. JoinAfter(join, after) = Splice(list, <<low>>, k, i)
      BY Zenon, <1>1, <2>1 DEF Splice
    <2>3. MergedAt(list, i, b, low, k, i)
      BY <1>b, <1>1, <1>5 DEF MergedAt, End
    <2>4. i \in Nat /\ k < i /\ i <= i /\ i <= n + 1
      BY <1>0, <1>1
    <2>5. QED
      BY Zenon, <2>2, <2>3, <2>4 DEF join
  <1>6. QED
    BY Zenon, <1>4, <1>5

\* The freed block lies between the blocks before "Following" and the others.
LEMMA FollowingPlace ==
    ASSUME NEW list, Ordered(list), NEW b \in Pairs, b[2] > 0,
           \A a \in Int : InBlock(b, a) => ~Covers(list, a)
    PROVE  /\ Following(list, b) \in 1..(Len(list) + 1)
           /\ \A j \in 1..(Following(list, b) - 1) : End(list[j]) <= b[1]
           /\ \A j \in Following(list, b)..Len(list) : End(b) <= list[j][1]
  <1> DEFINE n == Len(list)
             S == {i \in DOMAIN list : list[i][1] >= End(b)}
             i == Following(list, b)
  <1>0. list \in Seq(Pairs)
    BY Zenon DEF Ordered, Pairs
  <1>1. /\ n \in Nat /\ DOMAIN list = 1..n
        /\ \A j \in 1..n : list[j] \in Pairs
    BY <1>0
  <1>2. \A j \in 1..n : list[j][1] \in Nat /\ list[j][2] \in Nat /\ list[j][2] > 0
    <2>1. \A j \in 1..n : list[j][2] >= MIN_MEMBLOCK_SIZE
      BY Zenon DEF Ordered
    <2>2. QED
      BY <1>1, <2>1, MallocConstants DEF Pairs
  <1>3. b[1] \in Nat /\ b[2] \in Nat
    BY DEF Pairs
  <1>4. i = Least(S \cup {n + 1})
    BY DEF Following
  <1>5. S \cup {n + 1} \subseteq Nat /\ S \cup {n + 1} # {}
    BY <1>1
  <1> HIDE DEF i
  <1>6. i \in S \cup {n + 1} /\ \A m \in S \cup {n + 1} : i <= m
    BY Zenon, <1>4, <1>5, LeastIsMin
  <1>7. i \in 1..(n + 1)
    BY <1>1, <1>6
  <1>8. ASSUME NEW j \in 1..(i - 1) PROVE End(list[j]) <= b[1]
    <2>1. j \in 1..n /\ j \notin S
      BY <1>1, <1>6, <1>7
    <2>2. list[j][1] < End(b)
      BY <1>1, <1>2, <1>3, <2>1 DEF End
    <2> DEFINE x == list[j][1]
               y == list[j][2]
               a == IF x < b[1] THEN b[1] ELSE x
    <2>3. x \in Nat /\ y \in Nat /\ y > 0 /\ End(list[j]) = x + y /\ End(b) = b[1] + b[2]
      BY <1>2, <2>1 DEF End
    <2>4. CASE x + y > b[1]
      <3>1. a \in Int /\ b[1] <= a /\ a < End(b) /\ x <= a /\ a < x + y
        BY <1>3, <2>2, <2>3, <2>4
      <3>2. InBlock(b, a) /\ InBlock(list[j], a)
        BY <2>3, <3>1 DEF InBlock
      <3>3. Covers(list, a)
        BY <2>1, <3>2 DEF Covers
      <3>4. QED
        BY <3>1, <3>2, <3>3
    <2>5. QED
      BY <1>3, <2>3, <2>4
  <1>9. ASSUME NEW j \in i..n PROVE End(b) <= list[j][1]
    <2>1. i \in 1..n /\ j \in 1..n
      BY <1>1, <1>7
    <2>2. i \in S
      BY <1>1, <1>6, <2>1
    <2>3. list[i][1] >= End(b)
      BY <2>2
    <2>4. CASE j = i
      BY <2>3, <2>4
    <2>5. CASE j > i
      <3>1. End(list[i]) < list[j][1]
        BY <2>1, <2>5 DEF Ordered
      <3> DEFINE x == list[i][1]
                 y == list[j][1]
                 e == End(list[i])
                 f == End(b)
      <3>i. /\ list[i][1] \in Nat /\ list[i][2] \in Nat /\ list[j][1] \in Nat
        BY Zenon, <1>2, <2>1
      <3>e. e = list[i][1] + list[i][2] /\ f = b[1] + b[2]
        BY Zenon DEF End
      <3>2. x \in Nat /\ y \in Nat /\ e \in Nat /\ x <= e /\ f \in Nat
        BY <1>3, <3>i, <3>e
      <3>3. e < y /\ f <= x
        BY <2>3, <3>1, <3>2
      <3> HIDE DEF x, y, e, f
      <3>4. f <= y
        BY <3>2, <3>3
      <3>5. QED
        BY <3>4 DEF f, y
    <2>6. j = i \/ j > i
      BY <2>1
    <2>7. QED
      BY Zenon, <2>4, <2>5, <2>6
  <1>10. QED
    BY <1>7, <1>8, <1>9 DEF i

\* Freeing a block that does not overlap the free ones adds its addresses to
\* them and keeps the list in order and merged.
LEMMA FreedList ==
    ASSUME NEW list, Ordered(list), NEW b \in Pairs, b[2] >= MIN_MEMBLOCK_SIZE,
           HeapStart <= b[1], End(b) <= HeapEnd,
           \A a \in Int : InBlock(b, a) => ~Covers(list, a),
           NEW i, i = Following(list, b),
           NEW new, new = JoinAfter(JoinBefore(SubSeq(list, 1, i - 1), b),
                                    SubSeq(list, i, Len(list)))
    PROVE  /\ Ordered(new)
           /\ \A a \in Int : Covers(new, a) <=> Covers(list, a) \/ InBlock(b, a)
           /\ Gridded(list) /\ Gridded(<<b>>) => Gridded(new)
  <1> DEFINE n == Len(list)
             st(j) == list[j][1]
             en(j) == End(list[j])
             bl == b[1]
             bh == End(b)
             Mn == MIN_MEMBLOCK_SIZE
  <1>0. list \in Seq(Pairs)
    BY Zenon DEF Ordered, Pairs
  <1>1. n \in Nat /\ \A j \in 1..n : list[j] \in Pairs
    BY <1>0
  <1>2. \A j \in 1..n : /\ st(j) \in Nat /\ en(j) \in Nat /\ st(j) + Mn <= en(j)
                        /\ HeapStart <= st(j) /\ en(j) <= HeapEnd
    <2>1. \A j \in 1..n : /\ list[j][2] >= MIN_MEMBLOCK_SIZE
                          /\ HeapStart <= list[j][1] /\ End(list[j]) <= HeapEnd
      BY Zenon DEF Ordered
    <2> TAKE j \in 1..n
    <2>2. /\ list[j] \in Pairs /\ list[j][2] >= Mn /\ HeapStart <= list[j][1]
          /\ End(list[j]) <= HeapEnd
      BY Zenon, <1>1, <2>1
    <2>3. list[j][1] \in Nat /\ list[j][2] \in Nat
      BY <2>2 DEF Pairs
    <2>4. End(list[j]) = list[j][1] + list[j][2] /\ Mn \in Nat
      BY MallocConstants DEF End
    <2>5. QED
      BY <2>2, <2>3, <2>4
  <1>3. /\ bl \in Nat /\ bh \in Nat /\ bl + Mn <= bh /\ Mn \in Nat /\ Mn > 0
        /\ HeapStart <= bl /\ bh <= HeapEnd /\ b[2] > 0
    BY MallocConstants DEF Pairs, End
  <1>o. \A x, y \in 1..n : x < y => en(x) < st(y)
    BY Zenon DEF Ordered
  <1>4. /\ i \in 1..(n + 1)
        /\ \A j \in 1..(i - 1) : en(j) <= bl
        /\ \A j \in i..n : bh <= st(j)
    BY <1>3, FollowingPlace
  <1>5. PICK k \in Nat, l \in Nat, mid \in Pairs :
             /\ new = Splice(list, <<mid>>, k, l)
             /\ MergedAt(list, i, b, mid, k, l) /\ k < i /\ i <= l /\ l <= n + 1
    BY Zenon, <1>0, <1>4, Joined
  <1> DEFINE lo == mid[1]
             hi == End(mid)
             m == <<mid>>
  <1>6. /\ lo \in Nat /\ hi \in Nat /\ hi = lo + mid[2] /\ mid[2] \in Nat
        /\ m \in Seq(Pairs) /\ Len(m) = 1 /\ m[1] = mid
    BY <1>5 DEF Pairs, End
  <1>7. /\ \/ k = i - 1 /\ lo = bl /\ (i > 1 => en(i - 1) # bl)
           \/ k = i - 2 /\ i > 1 /\ lo = st(i - 1) /\ en(i - 1) = bl
        /\ \/ l = i /\ hi = bh /\ (i <= n => st(i) # bh)
           \/ l = i + 1 /\ i <= n /\ hi = en(i) /\ st(i) = bh
    BY Zenon, <1>5 DEF MergedAt
  <1> HIDE DEF n, lo, hi, m, st, en, bl, bh, Mn
  <1>i. i > 1 => i - 1 \in 1..n /\ i - 1 \in 1..(i - 1)
    BY <1>1, <1>4
  <1>j. i <= n => i \in 1..n /\ i \in i..n
    BY <1>1, <1>4
  <1>8. lo <= bl /\ bh <= hi /\ lo + Mn <= hi /\ HeapStart <= lo /\ hi <= HeapEnd
    <2>1. lo <= bl /\ HeapStart <= lo
      BY <1>2, <1>3, <1>7, <1>i
    <2>2. bh <= hi /\ hi <= HeapEnd
      BY <1>2, <1>3, <1>7, <1>j
    <2>3. QED
      BY <1>3, <1>6, <2>1, <2>2
  <1>10. Ordered(m)
    <2>1. mid[2] >= MIN_MEMBLOCK_SIZE
      BY <1>3, <1>6, <1>8 DEF Mn
    <2>2. QED
      BY <1>6, <1>8, <2>1 DEF Ordered, Pairs, lo, hi
  <1>11. \A j \in 1..k : en(j) < lo
    <2> TAKE j \in 1..k
    <2>1. j \in 1..n /\ j \in 1..(i - 1) /\ i > 1
      BY <1>1, <1>4, <1>5
    <2>2. CASE k = i - 1 /\ lo = bl /\ en(i - 1) # bl
      <3>1. CASE j = i - 1
        BY <1>2, <1>3, <1>4, <2>1, <2>2, <3>1
      <3>2. CASE j < i - 1
        <4>1. en(j) < st(i - 1) /\ en(i - 1) <= bl
          BY <1>4, <1>i, <1>o, <2>1, <3>2
        <4>2. QED
          BY <1>2, <1>3, <1>i, <2>1, <2>2, <4>1
      <3>3. QED
        BY <1>4, <2>1, <3>1, <3>2
    <2>3. CASE k = i - 2 /\ lo = st(i - 1)
      <3>1. j < i - 1
        BY <1>4, <2>3
      <3>2. QED
        BY <1>i, <1>o, <2>1, <2>3, <3>1
    <2>4. QED
      BY <1>7, <2>1, <2>2, <2>3
  <1>12. \A j \in l..n : hi < st(j)
    <2> TAKE j \in l..n
    <2>1. j \in 1..n /\ j \in i..n /\ i <= n /\ i \in 1..n
      BY <1>1, <1>4, <1>5
    <2>2. CASE l = i /\ hi = bh /\ st(i) # bh
      <3>1. CASE j = i
        BY <1>2, <1>3, <1>4, <2>1, <2>2, <3>1
      <3>2. CASE j > i
        <4>1. en(i) < st(j) /\ bh <= st(i)
          BY <1>4, <1>j, <1>o, <2>1, <3>2
        <4>2. QED
          BY <1>2, <1>3, <2>1, <2>2, <4>1
      <3>3. QED
        BY <1>4, <2>1, <3>1, <3>2
    <2>3. CASE l = i + 1 /\ hi = en(i)
      <3>1. i < j
        BY <1>4, <2>3
      <3>2. QED
        BY <1>o, <2>1, <2>3, <3>1
    <2>4. QED
      BY <1>7, <2>1, <2>2, <2>3
  <1>13. /\ Ordered(new)
         /\ \A a : Covers(new, a) <=> \/ \E j \in 1..k : InBlock(list[j], a)
                                      \/ Covers(m, a)
                                      \/ \E j \in l..Len(list) : InBlock(list[j], a)
         /\ Gridded(list) /\ Gridded(m) => Gridded(new)
    <2>1. k < l /\ l <= Len(list) + 1
      BY <1>1, <1>4, <1>5 DEF n
    <2>2. \A x \in 1..k, j \in 1..Len(m) : End(list[x]) < m[j][1]
      BY <1>6, <1>11 DEF lo, en
    <2>3. \A x \in l..Len(list), j \in 1..Len(m) : End(m[j]) < list[x][1]
      BY <1>6, <1>12 DEF n, hi, st
    <2>4. new = Splice(list, m, k, l)
      BY <1>5 DEF m
    <2>5. QED
      BY Zenon, <1>10, <2>1, <2>2, <2>3, <2>4, Spliced
  <1>14. ASSUME NEW a \in Int PROVE Covers(new, a) <=> Covers(list, a) \/ InBlock(b, a)
    <2>1. Covers(m, a) <=> lo <= a /\ a < hi
      BY <1>6 DEF Covers, InBlock, lo, hi
    <2>2. InBlock(b, a) <=> bl <= a /\ a < bh
      BY DEF InBlock, bl, bh
    <2>3. \A j \in 1..n : InBlock(list[j], a) <=> st(j) <= a /\ a < en(j)
      BY DEF InBlock, st, en
    <2>4. Covers(list, a) <=> \E j \in 1..n : InBlock(list[j], a)
      BY DEF Covers, n
    <2>n. Covers(new, a) <=> \/ \E j \in 1..k : InBlock(list[j], a)
                             \/ Covers(m, a)
                             \/ \E j \in l..n : InBlock(list[j], a)
      BY Zenon, <1>13 DEF n
    <2>5. lo <= a /\ a < bl => \E j \in 1..n : InBlock(list[j], a)
      <3>1. CASE k = i - 2 /\ i > 1 /\ lo = st(i - 1) /\ en(i - 1) = bl
        BY <1>i, <2>3, <3>1
      <3>2. CASE lo = bl
        BY <1>3, <3>2
      <3>3. QED
        BY <1>7, <3>1, <3>2
    <2>6. bh <= a /\ a < hi => \E j \in 1..n : InBlock(list[j], a)
      <3>1. CASE i <= n /\ hi = en(i) /\ st(i) = bh
        BY <1>j, <2>3, <3>1
      <3>2. CASE hi = bh
        BY <1>3, <3>2
      <3>3. QED
        BY <1>7, <3>1, <3>2
    <2>r. (\A j \in 1..k : j \in 1..n) /\ \A j \in l..n : j \in 1..n
      BY <1>1, <1>4, <1>5
    <2>8. ASSUME Covers(new, a) PROVE Covers(list, a) \/ InBlock(b, a)
      <3>1. CASE lo <= a /\ a < hi
        <4>1. a < bl \/ (bl <= a /\ a < bh) \/ bh <= a
          BY <1>3
        <4>2. QED
          BY Zenon, <2>2, <2>4, <2>5, <2>6, <3>1, <4>1
      <3>2. CASE \E j \in 1..k : InBlock(list[j], a)
        BY Zenon, <2>4, <2>r, <3>2
      <3>3. CASE \E j \in l..n : InBlock(list[j], a)
        BY Zenon, <2>4, <2>r, <3>3
      <3>4. QED
        BY Zenon, <2>n, <2>1, <2>8, <3>1, <3>2, <3>3
    <2>9. ASSUME InBlock(b, a) PROVE Covers(new, a)
      <3>1. lo <= a /\ a < hi
        BY <1>3, <1>6, <1>8, <2>2, <2>9
      <3>2. QED
        BY ZenonT(60), <2>n, <2>1, <3>1
    <2>10. ASSUME Covers(list, a) PROVE Covers(new, a)
      <3>1. PICK j \in 1..n : InBlock(list[j], a)
        BY Zenon, <2>4, <2>10
      <3>2. CASE j \in 1..k \/ j \in l..n
        BY Zenon, <2>n, <3>1, <3>2
      <3>3. CASE ~(j \in 1..k \/ j \in l..n)
        <4>1. \/ j = i - 1 /\ lo = st(i - 1) /\ en(i - 1) = bl
              \/ j = i /\ hi = en(i) /\ st(i) = bh
          BY <1>1, <1>4, <1>5, <1>7, <3>3
        <4>2. st(j) <= a /\ a < en(j) /\ st(j) \in Nat /\ en(j) \in Nat
          BY <1>2, <2>3, <3>1
        <4>3. lo <= a /\ a < hi
          BY <1>3, <1>6, <1>8, <4>1, <4>2
        <4>4. QED
          BY Zenon, <2>n, <2>1, <4>3
      <3>4. QED
        BY <3>2, <3>3
    <2>11. QED
      BY <2>8, <2>9, <2>10
  <1>15. ASSUME Gridded(list), Gridded(<<b>>) PROVE Gridded(new)
    <2>1. \A j \in 1..n : /\ OnGrid(st(j)) \/ st(j) = HeapStart
                          /\ OnGrid(en(j)) \/ en(j) = HeapEnd
      BY Zenon, <1>15 DEF Gridded, n, st, en
    <2>0. (OnGrid(bl) \/ bl = HeapStart) /\ (OnGrid(bh) \/ bh = HeapEnd)
      <3>1. 1 \in 1..Len(<<b>>) /\ <<b>>[1] = b
        OBVIOUS
      <3>2. QED
        BY Zenon, <1>15, <3>1 DEF Gridded, bl, bh
    <2>2. OnGrid(lo) \/ lo = HeapStart
      BY <1>7, <1>i, <2>0, <2>1
    <2>3. OnGrid(hi) \/ hi = HeapEnd
      BY <1>7, <1>j, <2>0, <2>1
    <2>4. Gridded(m)
      BY <1>6, <2>2, <2>3 DEF Gridded, lo, hi
    <2>5. QED
      BY <1>13, <1>15, <2>4
  <1>16. QED
    BY <1>13, <1>14, <1>15

-----------------------------------------------------------------------------
(* The blocks that are allocated.                                          *)

Block == [ptr : Nat, size : Nat \ {0}, align : Nat \ {0}, offset : Int, auto : BOOLEAN]
Extent(b) == <<b.ptr, RoundUp(b.size)>>

\* A block lies in the heap, aligned as it was asked for.
Placed(b) ==
    /\ HeapStart <= b.ptr /\ b.ptr + RoundUp(b.size) <= HeapEnd
    /\ (b.ptr - b.offset) % b.align = 0

Occ(S) == UNION {Occupied(b) : b \in S}

\* The free blocks and the allocated ones, S, do not overlap.
Sound(list, S) ==
    /\ Ordered(list)
    /\ \A b \in S : b \in Block /\ Placed(b)
    /\ \A b, c \in S : b # c => \A a \in Int : ~(InBlock(Extent(b), a) /\ InBlock(Extent(c), a))
    /\ \A b \in S : \A a \in Int : InBlock(Extent(b), a) => ~Covers(list, a)

\* The extent of a block.
LEMMA ExtentOf ==
    ASSUME NEW b \in Block
    PROVE  /\ Extent(b) \in Pairs /\ Extent(b)[1] = b.ptr /\ Extent(b)[2] = RoundUp(b.size)
           /\ Extent(b)[2] >= MIN_MEMBLOCK_SIZE /\ Extent(b)[2] \in Nat
           /\ End(Extent(b)) = b.ptr + RoundUp(b.size) /\ b.ptr \in Nat
           /\ OnGrid(b.ptr) => OnGrid(End(Extent(b)))
  <1>1. b.ptr \in Nat /\ b.size \in Nat /\ b.size # 0
    BY DEF Block
  <1>2. /\ RoundUp(b.size) \in Nat /\ OnGrid(RoundUp(b.size))
        /\ RoundUp(b.size) >= MIN_MEMBLOCK_SIZE
    BY <1>1, Rounding
  <1>3. /\ Extent(b) \in Pairs /\ Extent(b)[1] = b.ptr /\ Extent(b)[2] = RoundUp(b.size)
        /\ End(Extent(b)) = b.ptr + RoundUp(b.size)
    BY <1>1, <1>2 DEF Extent, Pairs, End
  <1>4. ASSUME OnGrid(b.ptr) PROVE OnGrid(b.ptr + RoundUp(b.size))
    <2>1. b.ptr \in Int /\ RoundUp(b.size) \in Int
      BY <1>1, <1>2
    <2>2. QED
      BY Zenon, <1>2, <1>4, <2>1, GridArithmetic
  <1>5. QED
    BY <1>1, <1>2, <1>3, <1>4

\* The addresses of an allocated block, and how many there are.
LEMMA OccupiedBy ==
    ASSUME NEW b \in Block
    PROVE  /\ \A a : a \in Occupied(b) <=> a \in Int /\ InBlock(Extent(b), a)
           /\ Occupied(b) = b.ptr..(b.ptr + RoundUp(b.size) - 1)
           /\ b.ptr \in Occupied(b) /\ InBlock(Extent(b), b.ptr)
  <1> DEFINE p == b.ptr
             e == RoundUp(b.size)
             E == End(Extent(b))
  <1>0. p \in Nat /\ e \in Nat /\ e > 0 /\ E = p + e /\ Extent(b)[1] = p
    BY ExtentOf, MallocConstants
  <1>1. Occupied(b) = p..(p + e - 1)
    <2>1. Occupied(b) = Addresses(Extent(b))
      BY Zenon DEF Occupied, Extent
    <2>2. Addresses(Extent(b)) = Extent(b)[1]..(E - 1)
      BY Zenon DEF Addresses
    <2> HIDE DEF p, e, E
    <2>3. QED
      BY <1>0, <2>1, <2>2
  <1>2. \A a : InBlock(Extent(b), a) <=> p <= a /\ a < p + e
    BY Zenon, <1>0 DEF InBlock
  <1> HIDE DEF p, e, E
  <1>4. \A a : a \in p..(p + e - 1) <=> a \in Int /\ p <= a /\ a < p + e
    BY <1>0
  <1>5. p \in Int /\ p <= p /\ p < p + e
    BY <1>0
  <1>6. QED
    BY Zenon, <1>1, <1>2, <1>4, <1>5 DEF p, e

\* What a block adds to the memory that is not occupied when it goes.
LEMMA CountBlock ==
    ASSUME NEW list, NEW S, Sound(list, S), NEW b \in S
    PROVE  /\ Count(Managed \ Occ(S)) \in Nat
           /\ Count(Managed \ Occ(S \ {b}))
                = Count(Managed \ Occ(S)) + RoundUp(b.size)
  <1> DEFINE X == Managed \ Occ(S)
             Y == Occupied(b)
             Z == Managed \ Occ(S \ {b})
  <1>1. \A c \in S : c \in Block /\ Placed(c)
    BY Zenon DEF Sound
  <1>2. \A c \in S : \A a : a \in Occupied(c) <=> a \in Int /\ InBlock(Extent(c), a)
    BY Zenon, <1>1, OccupiedBy
  <1>3. \A c \in S : c # b => Occupied(c) \cap Y = {}
    BY Zenon, <1>2 DEF Sound
  <1>4. Y \subseteq Managed
    <2>2. /\ b.ptr \in Nat /\ RoundUp(b.size) \in Nat
          /\ Extent(b)[1] = b.ptr /\ End(Extent(b)) = b.ptr + RoundUp(b.size)
      BY <1>1, ExtentOf
    <2>1. \A a \in Y : a \in Int /\ b.ptr <= a /\ a < b.ptr + RoundUp(b.size)
      BY Zenon, <1>2, <2>2 DEF InBlock
    <2>3. HeapStart <= b.ptr /\ b.ptr + RoundUp(b.size) <= HeapStart + HeapSize
      BY Zenon, <1>1 DEF Placed, HeapEnd
    <2>4. HeapStart \in Nat /\ HeapSize \in Nat
      BY MallocConstants, Rounding
    <2> HIDE DEF Y
    <2>5. QED
      BY <2>1, <2>2, <2>3, <2>4 DEF Managed
  <1>5. Occ(S) = Occ(S \ {b}) \cup Y
    BY Zenon DEF Occ
  <1>6. Occ(S \ {b}) \cap Y = {}
    BY Zenon, <1>3 DEF Occ
  <1> HIDE DEF Y
  <1>7. Z = X \cup Y /\ X \cap Y = {}
    BY <1>4, <1>5, <1>6
  <1>8. /\ HeapStart \in Nat /\ HeapSize \in Nat /\ b.ptr \in Nat /\ RoundUp(b.size) \in Nat
        /\ HeapStart <= b.ptr /\ b.ptr + RoundUp(b.size) <= HeapStart + HeapSize
    <2>1. HeapStart <= b.ptr /\ b.ptr + RoundUp(b.size) <= HeapStart + HeapSize
      BY Zenon, <1>1 DEF Placed, HeapEnd
    <2>2. HeapStart \in Nat /\ HeapSize \in Nat
      BY MallocConstants, Rounding
    <2>3. QED
      BY Zenon, <1>1, <2>1, <2>2, ExtentOf
  <1>9. Count(Y) = RoundUp(b.size)
    <2>1. Y = b.ptr..(b.ptr + RoundUp(b.size) - 1)
      BY Zenon, <1>1, OccupiedBy DEF Y
    <2>2. QED
      BY Zenon, <1>8, <2>1, CountRange
  <1> HIDE DEF X, Z
  <1>10. Count(X) \in 0..HeapSize /\ Count(X \cup Y) = Count(X) + Count(Y)
    BY Zenon, <1>7, <1>8, CountJoin
  <1>11. Count(X) \in Nat
    BY <1>8, <1>10
  <1>12. QED
    BY Zenon, <1>7, <1>9, <1>10, <1>11 DEF X, Z

\* What free_memblock() makes of the list.
FreedOf(list, b) ==
    LET i == Following(list, b) IN
    JoinAfter(JoinBefore(SubSeq(list, 1, i - 1), b), SubSeq(list, i, Len(list)))
IsFreed(new, list, b) ==
    /\ Ordered(new)
    /\ \A a \in Int : Covers(new, a) <=> Covers(list, a) \/ InBlock(b, a)
    /\ Gridded(list) /\ Gridded(<<b>>) => Gridded(new)

\* free_memblock() on the free list (malloc.c:370): the list stays in order,
\* merged and on the grid, and covers the block as well.
LEMMA FreedInto ==
    ASSUME NEW list, Ordered(list), NEW b \in Pairs, b[2] >= MIN_MEMBLOCK_SIZE,
           HeapStart <= b[1], End(b) <= HeapEnd,
           \A a \in Int : InBlock(b, a) => ~Covers(list, a)
    PROVE  IsFreed(FreedOf(list, b), list, b)
  <1> DEFINE i == Following(list, b)
             new == FreedOf(list, b)
  <1>1. i = Following(list, b) 
    OBVIOUS
  <1>2. new = JoinAfter(JoinBefore(SubSeq(list, 1, i - 1), b), SubSeq(list, i, Len(list)))
    BY Zenon DEF FreedOf
  <1> HIDE DEF i, new
  <1>3. /\ Ordered(new)
        /\ \A a \in Int : Covers(new, a) <=> Covers(list, a) \/ InBlock(b, a)
        /\ Gridded(list) /\ Gridded(<<b>>) => Gridded(new)
    BY <1>1, <1>2, FreedList
  <1>4. QED
    BY Zenon, <1>3 DEF IsFreed, new

Mem == [free : Seq(Pairs), freemem : Int, cached : Seq(Block)]

\* free_memblock() of an allocated block: its addresses become free, and what
\* is not occupied grows by its size.
BlockFreed(f, m, S, b) ==
    /\ f \in Mem /\ f.cached = m.cached
    /\ Sound(f.free, S \ {b})
    /\ f.freemem = Count(Managed \ Occ(S \ {b}))
    /\ \A a \in Int : Covers(f.free, a) <=> Covers(m.free, a) \/ InBlock(Extent(b), a)
    /\ Gridded(m.free) /\ OnGrid(b.ptr) => Gridded(f.free)

\* free_memblock() of a block that is allocated keeps the heap sound and counts
\* the block in freemem.
LEMMA FreeBlock ==
    ASSUME NEW m \in Mem, NEW S, Sound(m.free, S), NEW b \in S,
           m.freemem = Count(Managed \ Occ(S))
    PROVE  BlockFreed(free_memblock(m, b.ptr, b.size), m, S, b)
  <1> DEFINE x == Extent(b)
             new == FreedOf(m.free, x)
             c == RoundUp(b.size)
             f == free_memblock(m, b.ptr, b.size)
  <1>1. f = [m EXCEPT !.free = new, !.freemem = @ + c]
    BY Zenon DEF free_memblock, Extent, FreedOf
  <1> HIDE DEF new, c, f
  <1>2. b \in Block /\ Placed(b)
    BY Zenon DEF Sound
  <1>3. /\ x \in Pairs /\ x[2] >= MIN_MEMBLOCK_SIZE /\ x[1] = b.ptr /\ c \in Nat
        /\ End(x) = b.ptr + c
    BY <1>2, ExtentOf DEF c
  <1>4. HeapStart <= x[1] /\ End(x) <= HeapEnd
    BY Zenon, <1>2, <1>3 DEF Placed, c
  <1>5. \A a \in Int : InBlock(x, a) => ~Covers(m.free, a)
    BY Zenon DEF Sound
  <1>6. Ordered(m.free)
    BY ZenonT(60) DEF Sound
  <1>g. OnGrid(b.ptr) => Gridded(<<x>>)
    <2>1. OnGrid(b.ptr) => OnGrid(x[1]) /\ OnGrid(End(x))
      BY Zenon, <1>2, ExtentOf
    <2> HIDE DEF x
    <2>2. Len(<<x>>) = 1 /\ <<x>>[1] = x
      OBVIOUS
    <2>3. QED
      BY <2>1, <2>2 DEF Gridded
  <1> HIDE DEF x
  <1>7. /\ Ordered(new)
        /\ \A a \in Int : Covers(new, a) <=> Covers(m.free, a) \/ InBlock(x, a)
        /\ Gridded(m.free) /\ Gridded(<<x>>) => Gridded(new)
    <2>1. IsFreed(new, m.free, x)
      BY Zenon, <1>3, <1>4, <1>5, <1>6, FreedInto DEF new
    <2>2. QED
      BY Zenon, <2>1 DEF IsFreed
  <1>8. /\ f.free = new /\ f.freemem = m.freemem + c /\ f.cached = m.cached
        /\ f = [free |-> f.free, freemem |-> f.freemem, cached |-> f.cached]
    BY Zenon, <1>1 DEF Mem
  <1>9. new \in Seq(Pairs)
    BY Zenon, <1>7 DEF Ordered, Pairs
  <1>10. Sound(new, S \ {b})
    <2>1. \A d \in S \ {b} : \A a \in Int : InBlock(Extent(d), a) => ~Covers(new, a)
      <3> TAKE d \in S \ {b}
      <3> TAKE a \in Int
      <3>1. d # b /\ d \in S
        OBVIOUS
      <3>2. InBlock(Extent(d), a) => ~InBlock(Extent(b), a) /\ ~Covers(m.free, a)
        BY Zenon, <3>1 DEF Sound
      <3>3. QED
        BY Zenon, <1>7, <3>2 DEF x
    <2>2. /\ \A d \in S \ {b} : d \in Block /\ Placed(d)
          /\ \A d, e \in S \ {b} :
               d # e => \A a \in Int : ~(InBlock(Extent(d), a) /\ InBlock(Extent(e), a))
      BY Zenon DEF Sound
    <2>3. QED
      BY Zenon, <1>7, <2>1, <2>2 DEF Sound
  <1>11. f.freemem = Count(Managed \ Occ(S \ {b})) /\ f.freemem \in Int
    <2>1. /\ Count(Managed \ Occ(S)) \in Nat
          /\ Count(Managed \ Occ(S \ {b})) = Count(Managed \ Occ(S)) + c
      BY Zenon, CountBlock DEF c
    <2>2. QED
      BY <1>3, <1>8, <2>1
  <1>12. f \in Mem
    BY <1>8, <1>9, <1>11 DEF Mem
  <1>13. QED
    BY Zenon, <1>7, <1>8, <1>10, <1>11, <1>12, <1>g DEF BlockFreed, x, f

-----------------------------------------------------------------------------
(* alloc_memblock().                                                       *)

\* The pieces that stay in the list.
IsKept(mid, P, Q) ==
    /\ mid \in Seq(Pairs)
    /\ \A j \in 1..Len(mid) : \/ mid[j] = P /\ P[2] >= MIN_MEMBLOCK_SIZE
                              \/ mid[j] = Q /\ Q[2] >= MIN_MEMBLOCK_SIZE
    /\ \A j, k \in 1..Len(mid) : j < k => mid[j] = P /\ mid[k] = Q
    /\ P[2] >= MIN_MEMBLOCK_SIZE => \E j \in 1..Len(mid) : mid[j] = P
    /\ Q[2] >= MIN_MEMBLOCK_SIZE => \E j \in 1..Len(mid) : mid[j] = Q

\* The pre and post blocks that alloc_memblock() leaves in the list
\* (malloc.c:292) are those that are large enough.
LEMMA KeptPlaces ==
    ASSUME NEW P \in Pairs, NEW Q \in Pairs
    PROVE  IsKept(Kept(P, Q), P, Q)
  <1> DEFINE mid == Kept(P, Q)
             p == P[2] >= MIN_MEMBLOCK_SIZE
             q == Q[2] >= MIN_MEMBLOCK_SIZE
  <1>0. mid = (IF p THEN <<P>> ELSE <<>>) \o (IF q THEN <<Q>> ELSE <<>>)
    BY Zenon DEF Kept
  <1> HIDE DEF mid, p, q
  <1>1. CASE p /\ q
    <2>1. mid = <<P>> \o <<Q>>
      BY <1>0, <1>1
    <2>2. mid \in Seq(Pairs) /\ Len(mid) = 2 /\ mid[1] = P /\ mid[2] = Q
      BY <2>1
    <2>3. QED
      BY <1>1, <2>2 DEF IsKept, mid, p, q
  <1>2. CASE p /\ ~q
    <2>1. mid = <<P>> \o <<>>
      BY <1>0, <1>2
    <2>2. mid \in Seq(Pairs) /\ Len(mid) = 1 /\ mid[1] = P
      BY <2>1
    <2>3. QED
      BY <1>2, <2>2 DEF IsKept, mid, p, q
  <1>3. CASE ~p /\ q
    <2>1. mid = <<>> \o <<Q>>
      BY <1>0, <1>3
    <2>2. mid \in Seq(Pairs) /\ Len(mid) = 1 /\ mid[1] = Q
      BY <2>1
    <2>3. QED
      BY <1>3, <2>2 DEF IsKept, mid, p, q
  <1>4. CASE ~p /\ ~q
    <2>1. mid = <<>> \o <<>>
      BY <1>0, <1>4
    <2>2. mid \in Seq(Pairs) /\ Len(mid) = 0
      BY <2>1
    <2>3. QED
      BY <1>4, <2>2 DEF IsKept, mid, p, q
  <1>5. QED
    BY <1>1, <1>2, <1>3, <1>4

\* The distance to the next address that is aligned.
LEMMA PreSize ==
    ASSUME NEW b, b[1] \in Nat, NEW align \in Nat \ {0}, NEW offset \in Int
    PROVE  /\ pre_size(b, align, offset) \in Nat /\ AlignMask(align) \in Nat \ {0}
           /\ \E q \in Int : b[1] + pre_size(b, align, offset) = offset + AlignMask(align) * q
  <1> DEFINE A == AlignMask(align)
             x == offset - b[1]
             q == x \div A
             r == x % A
  <1>1. A \in Nat \ {0}
    BY MallocConstants DEF AlignMask
  <1>2. x \in Int
    OBVIOUS
  <1>x. b[1] + x = offset
    OBVIOUS
  <1> HIDE DEF A, x
  <1>3. x = A * q + r /\ r \in 0..(A - 1) /\ q \in Int
    BY <1>1, <1>2, DivMod
  <1>4. r = pre_size(b, align, offset)
    BY Zenon DEF pre_size, A, x
  <1> HIDE DEF q, r
  <1>5. A * (-q) = -(A * q) /\ -q \in Int
    BY <1>1, <1>3
  <1>6. b[1] + r = offset + A * (-q)
    BY <1>1, <1>2, <1>3, <1>5, <1>x
  <1>7. r \in Nat
    BY <1>1, <1>3
  <1>8. QED
    BY Zenon, <1>1, <1>4, <1>5, <1>6, <1>7 DEF A

InRange(ptr, size, a) == ptr <= a /\ a < ptr + size

\* What taking a range out of the list of free blocks does to it.
IsTaken(new, list, ptr, size, align, offset) ==
    /\ Ordered(new)
    /\ ptr \in Nat /\ HeapStart <= ptr /\ ptr + size <= HeapEnd
    /\ \E q \in Int : ptr = offset + AlignMask(align) * q
    /\ \A a \in Int : InRange(ptr, size, a) => Covers(list, a)
    /\ \A a \in Int : Covers(new, a) => Covers(list, a) /\ ~InRange(ptr, size, a)
    /\ Gridded(list) /\ OnGrid(offset) /\ OnGrid(AlignMask(align)) =>
         /\ OnGrid(ptr) /\ Gridded(new)
         /\ \A a \in Int : Covers(list, a) /\ ~InRange(ptr, size, a) => Covers(new, a) \/ a \in Ends

TakenList(list, i, size, align, offset) ==
    LET b == list[i]
        pre == pre_size(b, align, offset)
    IN SubSeq(list, 1, i - 1)
           \o Kept(<<b[1], pre>>, <<b[1] + pre + size, post_size(b, size, align, offset)>>)
           \o SubSeq(list, i + 1, Len(list))

\* The list after a block is taken from its i-th element (malloc.c:283).
LEMMA TakenFrom ==
    ASSUME NEW list, Ordered(list), NEW align \in Nat \ {0}, NEW offset \in Int,
           NEW size \in Nat, size >= MIN_MEMBLOCK_SIZE, OnGrid(size),
           NEW i \in Fitting(list, size, align, offset)
    PROVE  IsTaken(TakenList(list, i, size, align, offset), list,
                   list[i][1] + pre_size(list[i], align, offset), size, align, offset)
  <1> DEFINE n == Len(list)
             M == MIN_MEMBLOCK_SIZE
             b == list[i]
             s == b[1]
             e == End(b)
             pre == pre_size(b, align, offset)
             post == post_size(b, size, align, offset)
             ptr == s + pre
             P == <<s, pre>>
             Q == <<ptr + size, post>>
             mid == Kept(P, Q)
             new == Splice(list, mid, i - 1, i + 1)
             A == AlignMask(align)
  <1>0. list \in Seq(Pairs)
    BY Zenon DEF Ordered, Pairs
  <1>1. n \in Nat /\ (\A j \in 1..n : list[j] \in Pairs) /\ DOMAIN list = 1..n
    BY <1>0
  <1>2. i \in 1..n /\ post >= 0
    BY <1>1 DEF Fitting
  <1>3. s \in Nat /\ b[2] \in Nat /\ e = s + b[2]
    BY <1>1, <1>2 DEF Pairs, End
  <1>4. b[2] >= M /\ HeapStart <= s /\ e <= HeapEnd
    BY <1>2 DEF Ordered
  <1>5. pre \in Nat /\ A \in Nat \ {0}
    BY Zenon, <1>3, PreSize
  <1>6. PICK q \in Int : ptr = offset + A * q
    BY Zenon, <1>3, PreSize
  <1>7. post = b[2] - pre - size
    BY Zenon DEF post_size
  <1>n. TakenList(list, i, size, align, offset) = new
    BY Zenon DEF TakenList, Splice
  <1>m. M \in Nat \ {0} /\ size >= M
    BY MallocConstants
  <1>o. /\ \A j \in 1..n : j < i => End(list[j]) < s
        /\ \A j \in 1..n : i < j => e < list[j][1]
    BY Zenon, <1>2 DEF Ordered
  <1>t. \A j \in 1..n : list[j][1] \in Nat /\ End(list[j]) \in Nat /\ list[j][1] < End(list[j])
    <2>1. \A j \in 1..n : list[j][2] >= M
      BY Zenon DEF Ordered
    <2>2. QED
      BY <1>1, <1>m, <2>1 DEF Pairs, End
  <1>c. \A a : InBlock(b, a) <=> s <= a /\ a < e
    BY Zenon DEF InBlock
  <1> HIDE DEF n, M, s, e, pre, post, A, b
  <1>p. ptr \in Nat /\ s <= ptr /\ ptr + size + post = e /\ post \in Nat /\ e \in Nat /\ ptr = s + pre
    BY <1>2, <1>3, <1>5, <1>7
  <1> HIDE DEF ptr
  <1>8. /\ P \in Pairs /\ Q \in Pairs /\ P[1] = s /\ P[2] = pre /\ End(P) = ptr
        /\ Q[1] = ptr + size /\ Q[2] = post /\ End(Q) = e
    BY <1>3, <1>5, <1>p DEF Pairs, End
  <1> HIDE DEF P, Q
  <1>9. /\ mid \in Seq(Pairs)
        /\ \A j \in 1..Len(mid) : \/ mid[j] = P /\ pre >= M
                                  \/ mid[j] = Q /\ post >= M
        /\ \A j, k \in 1..Len(mid) : j < k => mid[j] = P /\ mid[k] = Q
        /\ pre >= M => \E j \in 1..Len(mid) : mid[j] = P
        /\ post >= M => \E j \in 1..Len(mid) : mid[j] = Q
    <2>1. IsKept(mid, P, Q)
      BY Zenon, <1>8, KeptPlaces
    <2>2. QED
      BY Zenon, <1>8, <2>1 DEF IsKept, M
  <1> HIDE DEF mid
  <1>10. Ordered(mid)
    <2>1. ptr <= HeapEnd /\ HeapStart <= ptr + size /\ ptr < ptr + size
      <3>1. HeapStart \in Nat /\ HeapEnd \in Nat
        BY MallocConstants, Rounding DEF HeapEnd
      <3>2. QED
        BY <1>3, <1>4, <1>m, <1>p, <3>1
    <2>2. /\ HeapStart <= P[1] /\ End(P) <= HeapEnd
          /\ HeapStart <= Q[1] /\ End(Q) <= HeapEnd /\ End(P) < Q[1]
      BY <1>4, <1>8, <2>1
    <2>3. \A j \in 1..Len(mid) : /\ mid[j][2] >= M /\ HeapStart <= mid[j][1]
                                 /\ End(mid[j]) <= HeapEnd
      BY Zenon, <1>8, <1>9, <2>2
    <2>4. \A j, k \in 1..Len(mid) : j < k => End(mid[j]) < mid[k][1]
      BY Zenon, <1>9, <2>2
    <2>5. QED
      BY Zenon, <1>9, <2>3, <2>4 DEF Ordered, Pairs, M
  <1>b. /\ \A j \in 1..Len(mid) : s <= mid[j][1] /\ End(mid[j]) <= e /\ mid[j][1] \in Nat
                                   /\ End(mid[j]) \in Nat
    <2>1. s <= ptr + size /\ ptr <= e /\ s <= s /\ e <= e /\ ptr + size \in Nat
      BY <1>3, <1>p
    <2>2. QED
      BY Zenon, <1>3, <1>8, <1>9, <1>p, <2>1
  <1>k. /\ i - 1 \in Nat /\ i + 1 \in Nat /\ i - 1 < i + 1 /\ i + 1 <= n + 1
        /\ (\A j \in 1..(i - 1) : j \in 1..n /\ j < i)
        /\ (\A j \in (i + 1)..n : j \in 1..n /\ i < j)
        /\ \A j \in 1..n : j = i \/ j \in 1..(i - 1) \/ j \in (i + 1)..n
    BY <1>1, <1>2
  <1>11. /\ Ordered(new)
         /\ \A a : Covers(new, a) <=> \/ \E j \in 1..(i - 1) : InBlock(list[j], a)
                                      \/ Covers(mid, a)
                                      \/ \E j \in (i + 1)..n : InBlock(list[j], a)
         /\ Gridded(list) /\ Gridded(mid) => Gridded(new)
    <2>1. \A x \in 1..(i - 1), j \in 1..Len(mid) : End(list[x]) < mid[j][1]
      <3> TAKE x \in 1..(i - 1), j \in 1..Len(mid)
      <3> DEFINE u == End(list[x])
                 v == mid[j][1]
      <3>1. u < s /\ s <= v /\ u \in Nat /\ v \in Nat
        BY Zenon, <1>b, <1>k, <1>o, <1>t
      <3> HIDE DEF u, v
      <3>2. u < v
        BY <1>3, <3>1
      <3>3. QED
        BY Zenon, <3>2 DEF u, v
    <2>2. \A x \in (i + 1)..n, j \in 1..Len(mid) : End(mid[j]) < list[x][1]
      <3> TAKE x \in (i + 1)..n, j \in 1..Len(mid)
      <3> DEFINE u == list[x][1]
                 v == End(mid[j])
      <3>1. e < u /\ v <= e /\ u \in Nat /\ v \in Nat
        BY ZenonT(60), <1>b, <1>k, <1>o, <1>t
      <3> HIDE DEF u, v
      <3>2. v < u
        BY <1>p, <3>1
      <3>3. QED
        BY Zenon, <3>2 DEF u, v
    <2> DEFINE k == i - 1
               l == i + 1
    <2>3. /\ new = Splice(list, mid, k, l) /\ k \in Nat /\ l \in Nat /\ k < l
          /\ l <= Len(list) + 1
      BY Zenon, <1>k DEF n
    <2>4. /\ \A x \in 1..k, j \in 1..Len(mid) : End(list[x]) < mid[j][1]
          /\ \A x \in l..Len(list), j \in 1..Len(mid) : End(mid[j]) < list[x][1]
      BY Zenon, <2>1, <2>2 DEF n
    <2> HIDE DEF new, k, l
    <2>5. /\ Ordered(new)
          /\ \A a : Covers(new, a) <=> \/ \E j \in 1..k : InBlock(list[j], a)
                                       \/ Covers(mid, a)
                                       \/ \E j \in l..Len(list) : InBlock(list[j], a)
          /\ Gridded(list) /\ Gridded(mid) => Gridded(new)
      BY Zenon, <1>10, <2>3, <2>4, Spliced
    <2>6. QED
      BY Zenon, <2>5 DEF n, k, l
  <1> HIDE DEF new
  <1>12. \A a : Covers(mid, a) <=> \/ pre >= M /\ s <= a /\ a < ptr
                                   \/ post >= M /\ ptr + size <= a /\ a < e
    <2>1. \A a : Covers(mid, a) <=> \/ pre >= M /\ InBlock(P, a)
                                    \/ post >= M /\ InBlock(Q, a)
      BY Zenon, <1>9 DEF Covers
    <2>2. QED
      BY Zenon, <1>8, <2>1 DEF InBlock
  <1>13. \A a : Covers(list, a) <=> \/ \E j \in 1..(i - 1) : InBlock(list[j], a)
                                    \/ InBlock(b, a)
                                    \/ \E j \in (i + 1)..n : InBlock(list[j], a)
    BY ZenonT(60), <1>2, <1>k DEF Covers, n, b
  <1>14. ASSUME NEW a \in Int
         PROVE  /\ InRange(ptr, size, a) => InBlock(b, a)
                /\ Covers(mid, a) => InBlock(b, a) /\ ~InRange(ptr, size, a)
                /\ InBlock(b, a) /\ ~InRange(ptr, size, a) =>
                     Covers(mid, a) \/ (pre < M /\ s <= a /\ a < ptr)
                                    \/ (post < M /\ ptr + size <= a /\ a < e)
    <2>1. Covers(mid, a) <=> \/ pre >= M /\ s <= a /\ a < ptr
                             \/ post >= M /\ ptr + size <= a /\ a < e
      BY Zenon, <1>12
    <2>2. InBlock(b, a) <=> s <= a /\ a < e
      BY Zenon, <1>c
    <2>3. InRange(ptr, size, a) <=> ptr <= a /\ a < ptr + size
      BY DEF InRange
    <2>4. QED
      BY <1>3, <1>5, <1>m, <1>p, <2>1, <2>2, <2>3
  <1>15. ASSUME NEW a \in Int, NEW j \in 1..n, j # i, InBlock(list[j], a)
         PROVE  ~InBlock(b, a)
    <2>1. list[j][1] <= a /\ a < End(list[j]) /\ list[j][1] \in Nat /\ End(list[j]) \in Nat
      BY Zenon, <1>15, <1>t DEF InBlock
    <2>2. End(list[j]) < s \/ e < list[j][1]
      BY <1>2, <1>15, <1>o
    <2>3. QED
      BY <1>3, <1>p, <1>c, <2>1, <2>2
  <1>16. \A a \in Int : InRange(ptr, size, a) => Covers(list, a)
    BY Zenon, <1>13, <1>14
  <1>17. ASSUME NEW a \in Int, Covers(new, a)
         PROVE  Covers(list, a) /\ ~InRange(ptr, size, a)
    <2>1. CASE Covers(mid, a)
      BY Zenon, <1>13, <1>14, <2>1
    <2>2. CASE \E j \in 1..(i - 1) : InBlock(list[j], a)
      <3>1. PICK j \in 1..(i - 1) : InBlock(list[j], a)
        BY <2>2
      <3>2. j \in 1..n /\ j # i
        BY <1>1, <1>2
      <3>3. QED
        BY Zenon, <1>13, <1>14, <1>15, <3>1, <3>2
    <2>3. CASE \E j \in (i + 1)..n : InBlock(list[j], a)
      <3>1. PICK j \in (i + 1)..n : InBlock(list[j], a)
        BY <2>3
      <3>2. j \in 1..n /\ j # i
        BY <1>1, <1>2
      <3>3. QED
        BY Zenon, <1>13, <1>14, <1>15, <3>1, <3>2
    <2>4. QED
      BY Zenon, <1>11, <1>17, <2>1, <2>2, <2>3
  <1>18. ASSUME Gridded(list), OnGrid(offset), OnGrid(A)
         PROVE  /\ OnGrid(ptr) /\ Gridded(new)
                /\ \A a \in Int : Covers(list, a) /\ ~InRange(ptr, size, a) =>
                      Covers(new, a) \/ a \in Ends
    <2>1. OnGrid(ptr)
      <3>1. PICK k \in Int : A = MIN_MEMBLOCK_SIZE * k
        BY <1>18 DEF OnGrid
      <3>2. k * q \in Int /\ A * q = MIN_MEMBLOCK_SIZE * (k * q)
        <4>1. MIN_MEMBLOCK_SIZE \in Int
          BY MallocConstants
        <4>2. QED
          BY <3>1, <4>1
      <3>3. OnGrid(A * q) /\ A * q \in Int
        BY <1>5, <3>2 DEF OnGrid
      <3>4. QED
        BY Zenon, <1>6, <1>18, <3>3, GridArithmetic
    <2>2. OnGrid(ptr + size) /\ ptr \in Int /\ size \in Int /\ s \in Int /\ e \in Int /\ ptr + size \in Int
      <3>1. ptr \in Int /\ size \in Int /\ s \in Int /\ e \in Int /\ ptr + size \in Int
        BY <1>3, <1>p
      <3>2. QED
        BY Zenon, <2>1, <3>1, GridArithmetic
    <2>3. /\ OnGrid(s) \/ s = HeapStart
          /\ OnGrid(e) \/ e = HeapEnd
      BY Zenon, <1>2, <1>18 DEF Gridded, n, s, e, b
    <2>4. Gridded(mid)
      BY ZenonT(60), <1>8, <1>9, <2>1, <2>2, <2>3 DEF Gridded
    <2>5. ASSUME NEW a \in Int, pre < M, s <= a, a < ptr PROVE a \in Ends
      <3>1. CASE OnGrid(s)
        <4>1. OnGrid(ptr - s)
          BY ZenonT(60), <2>1, <2>2, <3>1, GridArithmetic
        <4>2. ptr - s \in Int /\ 0 <= ptr - s /\ ptr - s < MIN_MEMBLOCK_SIZE
          BY <1>3, <1>5, <1>p, <2>5 DEF M
        <4>3. ptr - s = 0
          BY <4>1, <4>2, GridArithmetic
        <4>4. QED
          BY <1>3, <1>p, <2>5, <4>3
      <3>2. CASE s = HeapStart
        <4>1. a \in HeapStart..(HeapStart + M - 2)
          BY <1>3, <1>5, <1>m, <1>p, <2>5, <3>2
        <4>2. QED
          BY <4>1 DEF Ends, M
      <3>3. QED
        BY <2>3, <3>1, <3>2
    <2>6. ASSUME NEW a \in Int, post < M, ptr + size <= a, a < e PROVE a \in Ends
      <3>1. CASE OnGrid(e)
        <4>1. OnGrid(e - (ptr + size))
          BY Zenon, <2>2, <3>1, GridArithmetic
        <4>2. /\ e - (ptr + size) \in Int /\ 0 <= e - (ptr + size)
              /\ e - (ptr + size) < MIN_MEMBLOCK_SIZE
          BY <1>p, <2>2, <2>6 DEF M
        <4>3. e - (ptr + size) = 0
          BY <4>1, <4>2, GridArithmetic
        <4>4. QED
          BY <1>p, <2>2, <2>6, <4>3
      <3>2. CASE e = HeapEnd
        <4>1. HeapStart \in Nat /\ HeapSize \in Nat
          BY MallocConstants, Rounding
        <4>2. a \in (HeapStart + HeapSize - M + 1)..(HeapStart + HeapSize - 1)
          BY <1>m, <1>p, <2>6, <3>2, <4>1 DEF HeapEnd
        <4>3. QED
          BY <4>2 DEF Ends, M
      <3>3. QED
        BY <2>3, <3>1, <3>2
    <2>7. ASSUME NEW a \in Int, Covers(list, a), ~InRange(ptr, size, a)
          PROVE  Covers(new, a) \/ a \in Ends
      <3>1. CASE InBlock(b, a)
        BY Zenon, <1>11, <1>14, <2>5, <2>6, <2>7, <3>1
      <3>2. CASE ~InBlock(b, a)
        BY ZenonT(60), <1>11, <1>13, <2>7, <3>2
      <3>3. QED
        BY <3>1, <3>2
    <2>8. QED
      BY Zenon, <1>11, <1>18, <2>1, <2>4, <2>7
  <1>19. HeapStart <= ptr /\ ptr + size <= HeapEnd
    BY <1>3, <1>4, <1>p, MallocConstants, Rounding DEF HeapEnd
  <1>20. IsTaken(new, list, ptr, size, align, offset)
    BY Zenon, <1>6, <1>11, <1>16, <1>17, <1>18, <1>19, <1>p DEF IsTaken, A
  <1>21. QED
    BY Zenon, <1>n, <1>20 DEF ptr, s, pre, b

-----------------------------------------------------------------------------
(* discard_cache().                                                        *)

\* The invariant of a heap m and of the blocks bs that no cache holds.
HeapInv(m, bs) ==
    /\ m \in Mem
    /\ Sound(m.free, AllBlocks(m, bs))
    /\ m.freemem = Count(Managed \ Occ(AllBlocks(m, bs)))
    /\ \A i, j \in 1..Len(m.cached) : m.cached[i] = m.cached[j] => i = j
    /\ \A i \in 1..Len(m.cached) : m.cached[i] \notin bs

\* Blocks are multiples of the minimum size apart.
HeapGrid(m, bs) == Gridded(m.free) /\ \A b \in AllBlocks(m, bs) : OnGrid(b.ptr)

\* The heap d is m after some discards.
Given(m, d, bs) ==
    /\ HeapInv(d, bs)
    /\ AllBlocks(d, bs) \subseteq AllBlocks(m, bs)
    /\ \A a \in Int : Covers(d.free, a) <=>
          \/ Covers(m.free, a)
          \/ \E b \in AllBlocks(m, bs) \ AllBlocks(d, bs) : InBlock(Extent(b), a)
    /\ HeapGrid(m, bs) => HeapGrid(d, bs)

\* No discard at all.
LEMMA GivenNone ==
    ASSUME NEW m, NEW bs, HeapInv(m, bs)
    PROVE  Given(m, m, bs)
  BY Zenon DEF Given

\* Discards after discards.
LEMMA GivenMore ==
    ASSUME NEW m, NEW d, NEW e, NEW bs, Given(m, d, bs), Given(d, e, bs)
    PROVE  Given(m, e, bs)
  <1> DEFINE A(x) == AllBlocks(x, bs)
             In(b, a) == InBlock(Extent(b), a)
  <1>1. /\ A(d) \subseteq A(m) /\ A(e) \subseteq A(d) /\ HeapInv(e, bs)
        /\ HeapGrid(m, bs) => HeapGrid(e, bs)
        /\ \A a \in Int : Covers(d.free, a) <=>
             Covers(m.free, a) \/ \E b \in A(m) \ A(d) : In(b, a)
        /\ \A a \in Int : Covers(e.free, a) <=>
             Covers(d.free, a) \/ \E b \in A(d) \ A(e) : In(b, a)
    BY Zenon DEF Given
  <1> HIDE DEF A, In
  <1>2. \A a \in Int : Covers(e.free, a) <=>
           Covers(m.free, a) \/ \E b \in A(m) \ A(e) : In(b, a)
    BY Zenon, <1>1
  <1>3. QED
    BY Zenon, <1>1, <1>2 DEF Given, A, In

\* One discard.
LEMMA DiscardStep ==
    ASSUME NEW m, NEW bs, HeapInv(m, bs), Len(m.cached) > 0
    PROVE  Given(m, DiscardOne(m), bs) /\ Len(DiscardOne(m).cached) = Len(m.cached) - 1
  <1> DEFINE c == m.cached
             n == Len(c)
             h == c[1]
             f == free_memblock(m, h.ptr, h.size)
             d == DiscardOne(m)
             S == AllBlocks(m, bs)
  <1>1. m \in Mem /\ c \in Seq(Block) /\ n \in Nat /\ n > 0
    BY DEF HeapInv, Mem
  <1>2. c # <<>> /\ Head(c) = h /\ h \in S
    BY <1>1 DEF AllBlocks
  <1>3. d = [f EXCEPT !.cached = Tail(f.cached)]
    BY Zenon, <1>2 DEF DiscardOne
  <1>4. Sound(m.free, S) /\ m.freemem = Count(Managed \ Occ(S))
    BY Zenon DEF HeapInv
  <1> HIDE DEF f, h, S
  <1>5. /\ f \in Mem /\ f.cached = c
        /\ Sound(f.free, S \ {h})
        /\ f.freemem = Count(Managed \ Occ(S \ {h}))
        /\ \A a \in Int : Covers(f.free, a) <=> Covers(m.free, a) \/ InBlock(Extent(h), a)
        /\ Gridded(m.free) /\ OnGrid(h.ptr) => Gridded(f.free)
    <2>1. BlockFreed(f, m, S, h)
      BY Zenon, <1>1, <1>2, <1>4, FreeBlock DEF f
    <2>2. QED
      BY Zenon, <2>1 DEF BlockFreed
  <1>6. /\ Tail(c) \in Seq(Block) /\ Len(Tail(c)) = n - 1
        /\ \A i \in 1..(n - 1) : Tail(c)[i] = c[i + 1]
    BY <1>1, <1>2
  <1> HIDE DEF d
  <1>7. d \in Mem /\ d.free = f.free /\ d.freemem = f.freemem /\ d.cached = Tail(c)
    BY Zenon, <1>3, <1>5, <1>6 DEF Mem
  <1>8. /\ \A i, j \in 1..n : c[i] = c[j] => i = j
        /\ \A i \in 1..n : c[i] \notin bs
    BY Zenon DEF HeapInv
  <1>9. AllBlocks(d, bs) = S \ {h}
    <2>1. DOMAIN c = 1..n /\ DOMAIN Tail(c) = 1..(n - 1)
      BY <1>1, <1>6
    <2>2. \A i \in 1..(n - 1) : i + 1 \in 1..n /\ c[i + 1] # h
      <3> TAKE i \in 1..(n - 1)
      <3>1. i + 1 \in 1..n /\ 1 \in 1..n /\ i + 1 # 1
        BY <1>1
      <3>2. QED
        BY Zenon, <1>8, <3>1 DEF h
    <2>3. h \notin bs
      <3>1. 1 \in 1..n
        BY <1>1
      <3>2. QED
        BY <1>8, <3>1 DEF h
    <2>4. \A i \in 1..n : i # 1 => i - 1 \in 1..(n - 1) /\ (i - 1) + 1 = i
      BY <1>1
    <2>5. S = bs \cup {c[i] : i \in 1..n}
      BY Zenon, <2>1 DEF S, AllBlocks
    <2>6. AllBlocks(d, bs) = bs \cup {Tail(c)[i] : i \in 1..(n - 1)}
      BY Zenon, <1>7, <2>1 DEF AllBlocks
    <2>7. ASSUME NEW x \in AllBlocks(d, bs) PROVE x \in S \ {h}
      BY ZenonT(60), <1>6, <2>2, <2>3, <2>5, <2>6
    <2>8. ASSUME NEW x \in S \ {h} PROVE x \in AllBlocks(d, bs)
      <3>1. CASE x \in bs
        BY <2>6, <3>1
      <3>2. CASE x \notin bs
        <4>1. PICK i \in 1..n : x = c[i]
          BY Zenon, <2>5, <3>2
        <4>2. i # 1
          BY Zenon, <4>1 DEF h
        <4>3. i - 1 \in 1..(n - 1) /\ Tail(c)[i - 1] = c[(i - 1) + 1] /\ (i - 1) + 1 = i
          BY Zenon, <1>6, <2>4, <4>2
        <4>4. x = Tail(c)[i - 1]
          BY ZenonT(60), <4>1, <4>3
        <4>5. QED
          BY ZenonT(60), <2>6, <4>3, <4>4
      <3>3. QED
        BY <3>1, <3>2
    <2>9. QED
      BY Zenon, <2>7, <2>8
  <1>10. HeapInv(d, bs)
    <2>1. \A i, j \in 1..(n - 1) : Tail(c)[i] = Tail(c)[j] => i = j
      <3> TAKE i, j \in 1..(n - 1)
      <3>1. i + 1 \in 1..n /\ j + 1 \in 1..n
        BY <1>1
      <3>2. Tail(c)[i] = Tail(c)[j] => i + 1 = j + 1
        BY Zenon, <1>6, <1>8, <3>1
      <3>3. QED
        BY <3>2
    <2>2. \A i \in 1..(n - 1) : Tail(c)[i] \notin bs
      <3> TAKE i \in 1..(n - 1)
      <3>1. i + 1 \in 1..n
        BY <1>1
      <3>2. QED
        BY Zenon, <1>6, <1>8, <3>1
    <2>3. QED
      BY Zenon, <1>5, <1>6, <1>7, <1>9, <2>1, <2>2 DEF HeapInv
  <1>11. S \ AllBlocks(d, bs) = {h}
    BY <1>2, <1>9
  <1>12. HeapGrid(m, bs) => HeapGrid(d, bs)
    BY ZenonT(60), <1>2, <1>5, <1>7, <1>9 DEF HeapGrid, S
  <1>13. \A a \in Int : Covers(d.free, a) <=>
           Covers(m.free, a) \/ \E b \in S \ AllBlocks(d, bs) : InBlock(Extent(b), a)
    BY Zenon, <1>5, <1>7, <1>11
  <1>14. Given(m, d, bs)
    <2>1. AllBlocks(d, bs) \subseteq S
      BY <1>9
    <2>2. QED
      BY Zenon, <1>10, <1>12, <1>13, <2>1 DEF Given, S
  <1>15. Len(d.cached) = n - 1
    BY <1>6, <1>7
  <1>16. QED
    BY Zenon, <1>14, <1>15 DEF d

\* Several discards: the function that Discarded is defined by exists ...
Discarding(g, m, n) == g = [k \in 0..n |-> IF k = 0 THEN m ELSE DiscardOne(g[k - 1])]

\* The function that discards one cached block after another exists.
LEMMA DiscardingExists ==
    ASSUME NEW m, NEW n \in Nat
    PROVE  \E g : Discarding(g, m, n)
  <1> DEFINE Bad == {k \in Nat : ~\E g : Discarding(g, m, k)}
  <1> SUFFICES ASSUME Bad # {} PROVE FALSE
    OBVIOUS
  <1>1. PICK k \in Bad : \A l \in Bad : k <= l
    BY Zenon, LeastNat
  <1>2. CASE k = 0
    <2> DEFINE g == [i \in 0..0 |-> m]
    <2>1. Discarding(g, m, 0)
      BY DEF Discarding
    <2>2. QED
      BY <1>1, <1>2, <2>1
  <1>3. CASE k # 0
    <2>1. k \in Nat /\ k - 1 \in Nat /\ k - 1 \notin Bad
      BY <1>1, <1>3
    <2>2. PICK g : Discarding(g, m, k - 1)
      BY <2>1
    <2> DEFINE next == DiscardOne(g[k - 1])
               h == [i \in 0..k |-> IF i = k THEN next ELSE g[i]]
               val(f, i) == IF i = 0 THEN m ELSE DiscardOne(f[i - 1])
    <2>3. \A i \in 0..(k - 1) : g[i] = val(g, i)
      BY <2>2 DEF Discarding
    <2>4. \A i \in 0..k : h[i] = val(h, i)
      <3> SUFFICES ASSUME NEW i \in 0..k PROVE h[i] = val(h, i)
        OBVIOUS
      <3>1. CASE i = k
        <4>1. h[i] = next /\ h[i - 1] = g[i - 1]
          BY <2>1, <3>1, <1>3
        <4>2. QED
          BY <1>3, <3>1, <4>1
      <3>2. CASE i # k
        <4>1. i \in 0..(k - 1) /\ h[i] = g[i]
          BY <2>1, <3>2
        <4>2. i # 0 => h[i - 1] = g[i - 1]
          BY <2>1, <4>1
        <4>3. QED
          BY <2>3, <4>1, <4>2
      <3>3. QED
        BY <3>1, <3>2
    <2>5. h = [i \in 0..k |-> h[i]]
      OBVIOUS
    <2> HIDE DEF h, next
    <2>6. Discarding(h, m, k)
      BY ZenonT(60), <2>4, <2>5 DEF Discarding
    <2>7. QED
      BY <1>1, <2>6
  <1>4. QED
    BY <1>2, <1>3

\* ... and takes the heap through the discards one by one.
LEMMA DiscardedHeap ==
    ASSUME NEW m, NEW bs, HeapInv(m, bs), NEW n \in 0..Len(m.cached)
    PROVE  /\ Given(m, Discarded(m, n), bs)
           /\ Len(Discarded(m, n).cached) = Len(m.cached) - n
  <1> DEFINE c == Len(m.cached)
             G == CHOOSE g : Discarding(g, m, n)
  <1>0. c \in Nat /\ n \in Nat /\ n <= c
    BY DEF HeapInv, Mem
  <1>1. Discarding(G, m, n)
    BY Zenon, <1>0, DiscardingExists
  <1>2. Discarded(m, n) = G[n]
    BY DEF Discarded, Discarding
  <1> HIDE DEF G, c
  <1>3. G[0] = m /\ \A k \in 0..n : k # 0 => G[k] = DiscardOne(G[k - 1])
    <2>1. \A k \in 0..n : G[k] = IF k = 0 THEN m ELSE DiscardOne(G[k - 1])
      BY <1>1 DEF Discarding
    <2>2. 0 \in 0..n
      BY <1>0
    <2>3. QED
      BY Zenon, <2>1, <2>2
  <1> DEFINE Good(k) == Given(m, G[k], bs) /\ Len(G[k].cached) = c - k
             Bad == {k \in 0..n : ~Good(k)}
  <1>4. Bad = {}
    <2> SUFFICES ASSUME Bad # {} PROVE FALSE
      OBVIOUS
    <2>0. Bad \subseteq Nat
      BY <1>0
    <2>1. PICK k \in Bad : \A l \in Bad : k <= l
      BY Zenon, <2>0, LeastNat
    <2>2. k # 0
      <3>1. Good(0)
        BY <1>0, <1>3, GivenNone DEF c
      <3>2. QED
        BY Zenon, <2>1, <3>1
    <2>3. k \in 0..n /\ k - 1 \in 0..n /\ ~(k <= k - 1)
      BY <1>0, <2>1, <2>2
    <2>4. Good(k - 1)
      BY Zenon, <2>1, <2>3
    <2> DEFINE d == G[k - 1]
    <2>5. G[k] = DiscardOne(d)
      BY Zenon, <1>3, <2>2, <2>3
    <2> HIDE DEF d
    <2>6. Given(m, d, bs) /\ Len(d.cached) = c - (k - 1) /\ HeapInv(d, bs)
      BY Zenon, <2>4 DEF d, Given
    <2>7. Len(d.cached) > 0
      BY <1>0, <2>3, <2>6
    <2>8. Given(d, DiscardOne(d), bs) /\ Len(DiscardOne(d).cached) = Len(d.cached) - 1
      BY Zenon, <2>6, <2>7, DiscardStep
    <2>9. Given(m, G[k], bs)
      BY Zenon, <2>5, <2>6, <2>8, GivenMore
    <2>10. Len(G[k].cached) = c - k
      BY <1>0, <2>3, <2>5, <2>6, <2>8
    <2>11. QED
      BY Zenon, <2>1, <2>9, <2>10
  <1>5. Good(n)
    BY <1>0, <1>4
  <1>6. QED
    BY <1>2, <1>5 DEF c
=============================================================================
