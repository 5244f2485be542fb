----------------------------- MODULE HeapProofs -----------------------------
(***************************************************************************)
(* Proofs about the memory allocator, for any heap, any sizes, alignments  *)
(* and offsets that are asked for, and any caches: its invariants, and     *)
(* that it implements Heap.                                                *)
(***************************************************************************)
EXTENDS MallocProofs

\* The provers tried, in this order, where a step names none
USE SMT, Zenon, SMTT(90), ZenonT(60)

-----------------------------------------------------------------------------
(* Blocks are taken from the heap.                                         *)

\* The alignments that are asked for, and those of malloc().
Aligned(align) ==
    /\ align \in Nat \ {0}
    /\ OnGrid(AlignMask(align))
    /\ \E k \in Int : AlignMask(align) = align * k

\* Every alignment that is asked for divides AlignMask() or is divided by it.
LEMMA Alignments == \A align \in Aligns \cup {1} : Aligned(align)
  <1> SUFFICES ASSUME NEW align \in Aligns \cup {1} PROVE Aligned(align)
    OBVIOUS
  <1> DEFINE M == MIN_MEMBLOCK_SIZE
  <1>1. M \in Nat \ {0} /\ align \in Nat \ {0}
    BY MallocConstants
  <1>2. IF align > M THEN align % M = 0 ELSE M % align = 0
    <2>1. CASE align = 1
      <3>1. ~(1 > M) /\ M % 1 = 0
        BY <1>1
      <3>2. QED
        BY <2>1, <3>1
    <2>2. CASE align \in Aligns
      BY <2>2, MallocConstants
    <2>3. QED
      BY <2>1, <2>2
  <1>3. AlignMask(align) = IF align > M THEN align ELSE M
    BY DEF AlignMask
  <1> HIDE DEF M
  <1>4. CASE align > M
    <2> DEFINE k == align \div M
    <2>1. align = M * k + (align % M) /\ k \in Int
      BY <1>1, DivMod
    <2> HIDE DEF k
    <2>2. align = M * k /\ align = align * 1 /\ 1 \in Int
      BY <1>1, <1>2, <1>4, <2>1
    <2>3. QED
      BY <1>1, <1>3, <1>4, <2>1, <2>2 DEF Aligned, OnGrid, M
  <1>5. CASE ~(align > M)
    <2> DEFINE k == M \div align
    <2>1. M = align * k + (M % align) /\ k \in Int
      BY <1>1, DivMod
    <2> HIDE DEF k
    <2>2. M = align * k /\ M = M * 1 /\ 1 \in Int
      BY <1>1, <1>2, <1>5, <2>1
    <2>3. AlignMask(align) = M
      BY <1>3, <1>5
    <2>4. QED
      BY Zenon, <1>1, <2>1, <2>2, <2>3 DEF Aligned, OnGrid, M
  <1>6. QED
    BY <1>4, <1>5

\* Addresses that may be lost when b is taken.
Slivers(new, list, b) ==
    \A a \in Int : Covers(list, a) /\ ~InBlock(Extent(b), a) => Covers(new, a) \/ a \in Ends

\* The heap d becomes u when the block b is taken from it.
TookBlock(u, b, d, bs) ==
    /\ b \in Block /\ b.ptr # Null /\ b \notin AllBlocks(d, bs)
    /\ HeapInv(u, bs \cup {b}) /\ u.cached = d.cached
    /\ AllBlocks(u, bs \cup {b}) = AllBlocks(d, bs) \cup {b}
    /\ \A a \in Int : InBlock(Extent(b), a) => Covers(d.free, a)
    /\ \A a \in Int : Covers(u.free, a) => Covers(d.free, a) /\ ~InBlock(Extent(b), a)
    /\ HeapGrid(d, bs) /\ OnGrid(b.offset) =>
         HeapGrid(u, bs \cup {b}) /\ Slivers(u.free, d.free, b)

\* Taking the first block that fits (malloc.c:264) keeps the heap sound.
LEMMA TakeBlock ==
    ASSUME NEW d, NEW bs, HeapInv(d, bs), NEW size \in Nat \ {0},
           NEW align, Aligned(align), NEW offset \in Int, NEW auto \in BOOLEAN,
           Fitting(d.free, RoundUp(size), align, offset) # {}
    PROVE  LET t == Taken(d, RoundUp(size), align, offset) IN
           TookBlock(t.mem, [ptr |-> t.ptr, size |-> size, align |-> align,
                             offset |-> offset, auto |-> auto], d, bs)
  <1> DEFINE R == RoundUp(size)
             F == Fitting(d.free, R, align, offset)
             i == Least(F)
             t == Taken(d, R, align, offset)
             ptr == d.free[i][1] + pre_size(d.free[i], align, offset)
             new == TakenList(d.free, i, R, align, offset)
             u == t.mem
             b == [ptr |-> ptr, size |-> size, align |-> align,
                   offset |-> offset, auto |-> auto]
             S == AllBlocks(d, bs)
  <1>1. /\ d \in Mem /\ Sound(d.free, S) /\ d.freemem = Count(Managed \ Occ(S))
        /\ \A x, y \in 1..Len(d.cached) : d.cached[x] = d.cached[y] => x = y
        /\ \A x \in 1..Len(d.cached) : d.cached[x] \notin bs
    BY Zenon DEF HeapInv
  <1>2. i \in F
    <2>1. d.free \in Seq(Pairs)
      BY <1>1 DEF Mem
    <2>2. F \subseteq Nat
      BY <2>1 DEF Fitting
    <2>3. QED
      BY Zenon, <2>2, LeastIsMin
  <1>3. R \in Nat /\ R >= MIN_MEMBLOCK_SIZE /\ OnGrid(R)
    BY Rounding
  <1>4. Ordered(d.free)
    BY Zenon, <1>1 DEF Sound
  <1>a. align \in Nat \ {0}
    BY Zenon DEF Aligned
  <1>5. t = [ptr |-> ptr, mem |-> [d EXCEPT !.free = new, !.freemem = @ - R]]
    BY Zenon DEF Taken, TakenList
  <1> HIDE DEF R, F, i
  <1>6. IsTaken(new, d.free, ptr, R, align, offset)
    BY Zenon, <1>2, <1>3, <1>4, <1>a, TakenFrom DEF F
  <1> HIDE DEF new, ptr, t, S
  <1>7. /\ t.ptr = ptr /\ u.free = new /\ u.freemem = d.freemem - R /\ u.cached = d.cached
        /\ u = [free |-> u.free, freemem |-> u.freemem, cached |-> u.cached]
    BY Zenon, <1>1, <1>5 DEF Mem
  <1> HIDE DEF u
  <1>8. /\ Ordered(new) /\ ptr \in Nat /\ HeapStart <= ptr /\ ptr + R <= HeapEnd
        /\ \A a \in Int : InRange(ptr, R, a) => Covers(d.free, a)
        /\ \A a \in Int : Covers(new, a) => Covers(d.free, a) /\ ~InRange(ptr, R, a)
    BY Zenon, <1>6 DEF IsTaken
  <1>9. b \in Block /\ b.ptr = ptr /\ b.size = size /\ b.offset = offset /\ b.align = align
    BY <1>8, <1>a DEF Block
  <1> HIDE DEF b
  <1>10. \A a : InBlock(Extent(b), a) <=> InRange(ptr, R, a)
    <2>1. Extent(b)[1] = ptr /\ End(Extent(b)) = ptr + R
      BY <1>9, ExtentOf DEF R
    <2>2. QED
      BY Zenon, <2>1 DEF InBlock, InRange
  <1>11. Placed(b)
    <2>1. PICK q \in Int : ptr = offset + AlignMask(align) * q
      BY Zenon, <1>6 DEF IsTaken
    <2>2. PICK k \in Int : AlignMask(align) = align * k
      BY Zenon DEF Aligned
    <2>3. (align * k) * q = align * (k * q) /\ k * q \in Int /\ align * (k * q) \in Int
      BY <1>a
    <2>4. ptr - offset = align * (k * q)
      BY <1>8, <2>1, <2>2, <2>3
    <2>5. (ptr - offset) % align = 0
      BY Zenon, <1>a, <2>3, <2>4, MultipleMod
    <2>6. QED
      BY Zenon, <1>8, <1>9, <2>5 DEF Placed, R
  <1>12. b \notin S
    <2>1. InBlock(Extent(b), b.ptr) /\ b.ptr \in Int
      BY <1>8, <1>9, OccupiedBy
    <2>2. Covers(d.free, b.ptr)
      BY Zenon, <1>8, <1>10, <2>1
    <2>3. QED
      BY Zenon, <1>1, <2>1, <2>2 DEF Sound
  <1>13. Sound(new, S \cup {b})
    <2>1. \A c \in S \cup {b} : c \in Block /\ Placed(c)
      BY Zenon, <1>1, <1>9, <1>11 DEF Sound
    <2>2. \A c \in S \cup {b} : \A a \in Int : InBlock(Extent(c), a) => ~Covers(new, a)
      BY Zenon, <1>1, <1>8, <1>10 DEF Sound
    <2>3. \A c \in S : \A a \in Int : ~(InBlock(Extent(c), a) /\ InBlock(Extent(b), a))
      BY Zenon, <1>1, <1>8, <1>10 DEF Sound
    <2>4. \A c, e \in S \cup {b} : c # e =>
             \A a \in Int : ~(InBlock(Extent(c), a) /\ InBlock(Extent(e), a))
      BY Zenon, <1>1, <2>3 DEF Sound
    <2>5. QED
      BY Zenon, <1>8, <2>1, <2>2, <2>4 DEF Sound
  <1>14. u.freemem = Count(Managed \ Occ(S \cup {b})) /\ u.freemem \in Int
    <2>1. (S \cup {b}) \ {b} = S /\ b \in S \cup {b}
      BY <1>12
    <2>2. /\ Count(Managed \ Occ(S \cup {b})) \in Nat
          /\ Count(Managed \ Occ((S \cup {b}) \ {b}))
               = Count(Managed \ Occ(S \cup {b})) + RoundUp(b.size)
      BY Zenon, <1>13, <2>1, CountBlock
    <2>3. d.freemem = Count(Managed \ Occ(S \cup {b})) + R
      BY Zenon, <1>1, <1>9, <2>1, <2>2 DEF R
    <2>4. QED
      BY <1>3, <1>7, <2>2, <2>3
  <1>15. AllBlocks(u, bs \cup {b}) = S \cup {b}
    BY Zenon, <1>7 DEF AllBlocks, S
  <1>16. u \in Mem
    <2>1. new \in Seq(Pairs)
      BY Zenon, <1>8 DEF Ordered, Pairs
    <2>c. d.cached \in Seq(Block)
      BY <1>1 DEF Mem
    <2>2. QED
      BY <1>7, <1>14, <2>1, <2>c DEF Mem
  <1>17. HeapInv(u, bs \cup {b})
    <2>1. \A x \in 1..Len(d.cached) : d.cached[x] \in S
      BY <1>1 DEF S, AllBlocks, Mem
    <2>2. \A x \in 1..Len(d.cached) : d.cached[x] \notin bs \cup {b}
      BY Zenon, <1>1, <1>12, <2>1
    <2>3. QED
      BY ZenonT(60), <1>1, <1>7, <1>13, <1>14, <1>15, <1>16, <2>2 DEF HeapInv
  <1>18. ASSUME HeapGrid(d, bs), OnGrid(offset)
         PROVE  HeapGrid(u, bs \cup {b}) /\ Slivers(u.free, d.free, b)
    <2>1. /\ OnGrid(ptr) /\ Gridded(new)
          /\ \A a \in Int : Covers(d.free, a) /\ ~InRange(ptr, R, a) =>
               Covers(new, a) \/ a \in Ends
      BY Zenon, <1>6, <1>18 DEF IsTaken, HeapGrid, Aligned
    <2>2. QED
      BY ZenonT(60), <1>7, <1>9, <1>10, <1>15, <1>18, <2>1 DEF HeapGrid, Slivers, S
  <1>19. b.ptr # Null
    BY <1>8, <1>9, MallocConstants DEF Null
  <1>20. TookBlock(u, b, d, bs)
    BY ZenonT(60), <1>7, <1>8, <1>9, <1>10, <1>12, <1>15, <1>17, <1>18, <1>19 DEF TookBlock, S
  <1>21. QED
    BY Zenon, <1>7, <1>20 DEF b, u, t, R

\* alloc_memblock() discards what it must, then takes a block or fails.
Allocated(a, m, bs, size, align, offset) ==
    \E d : /\ Given(m, d, bs)
           /\ \/ /\ a.ptr # Null
                 /\ \A auto \in BOOLEAN :
                      TookBlock(a.mem, [ptr |-> a.ptr, size |-> size, align |-> align,
                                        offset |-> offset, auto |-> auto], d, bs)
              \/ /\ a.ptr = Null /\ a.mem = d /\ d.cached = <<>>
                 /\ Fitting(d.free, RoundUp(size), align, offset) = {}

\* alloc_memblock() discards what it must (malloc.c:313), then takes or fails.
LEMMA AllocEffect ==
    ASSUME NEW m, NEW bs, HeapInv(m, bs), NEW size \in Nat \ {0},
           NEW align, Aligned(align), NEW offset \in Int
    PROVE  Allocated(alloc_memblock(m, size, align, offset), m, bs, size, align, offset)
  <1> DEFINE R == RoundUp(size)
             c == Len(m.cached)
             n == Discards(m, R, align, offset)
             d == Discarded(m, n)
             fits(x) == Fitting(x.free, R, align, offset) # {}
             T == {k \in 0..c : fits(Discarded(m, k))}
             a == alloc_memblock(m, size, align, offset)
  <1>1. c \in Nat
    BY DEF HeapInv, Mem
  <1>2. n = Least(T \cup {c})
    BY Zenon DEF Discards
  <1>3. T \cup {c} \subseteq Nat /\ T \cup {c} # {} /\ T \cup {c} \subseteq 0..c
    BY <1>1
  <1>4. n \in T \cup {c}
    BY Zenon, <1>2, <1>3, LeastIsMin
  <1>5. n \in 0..c /\ (~fits(d) => n = c)
    BY Zenon, <1>3, <1>4
  <1>6. a = IF fits(d) THEN Taken(d, R, align, offset) ELSE [ptr |-> Null, mem |-> d]
    BY Zenon DEF alloc_memblock
  <1> HIDE DEF n, a, T
  <1>7. Given(m, d, bs) /\ Len(d.cached) = c - n
    BY Zenon, <1>5, DiscardedHeap
  <1>8. HeapInv(d, bs)
    BY Zenon, <1>7 DEF Given
  <1> HIDE DEF d
  <1>9. CASE fits(d)
    <2>1. \A auto \in BOOLEAN : TookBlock(a.mem, [ptr |-> a.ptr, size |-> size, align |-> align,
                                                  offset |-> offset, auto |-> auto], d, bs)
      BY Zenon, <1>6, <1>8, <1>9, TakeBlock
    <2>2. a.ptr # Null
      <3> DEFINE b == [ptr |-> a.ptr, size |-> size, align |-> align,
                       offset |-> offset, auto |-> TRUE]
      <3>1. b.ptr # Null
        BY Zenon, <2>1 DEF TookBlock
      <3>2. b.ptr = a.ptr
        OBVIOUS
      <3>3. QED
        BY Zenon, <3>1, <3>2
    <2>3. QED
      BY Zenon, <1>7, <2>1, <2>2 DEF Allocated, a
  <1>10. CASE ~fits(d)
    <2>1. a.ptr = Null /\ a.mem = d
      BY <1>6, <1>10
    <2>2. d.cached = <<>>
      <3>1. d.cached \in Seq(Block) /\ Len(d.cached) = 0
        BY <1>1, <1>5, <1>7, <1>8, <1>10 DEF HeapInv, Mem
      <3>2. QED
        BY <3>1
    <2>3. QED
      BY ZenonT(60), <1>7, <1>10, <2>1, <2>2 DEF Allocated, a
  <1>11. QED
    BY <1>9, <1>10

-----------------------------------------------------------------------------
(* What the operations do to the heap.                                     *)

\* The heap m becomes f when the block o is freed.
Freed(f, m, bs, o) ==
    /\ HeapInv(f, bs \ {o})
    /\ AllBlocks(f, bs \ {o}) = AllBlocks(m, bs) \ {o}
    /\ \A a \in Int : Covers(f.free, a) <=> Covers(m.free, a) \/ InBlock(Extent(o), a)
    /\ HeapGrid(m, bs) => HeapGrid(f, bs \ {o})

\* free_memblock() of a block that its owner holds.
LEMMA FreeEffect ==
    ASSUME NEW m, NEW bs, HeapInv(m, bs), NEW o \in bs
    PROVE  Freed(free_memblock(m, o.ptr, o.size), m, bs, o)
  <1> DEFINE f == free_memblock(m, o.ptr, o.size)
             S == AllBlocks(m, bs)
             c == m.cached
  <1>1. /\ m \in Mem /\ Sound(m.free, S) /\ m.freemem = Count(Managed \ Occ(S))
        /\ \A i, j \in 1..Len(c) : c[i] = c[j] => i = j
        /\ \A i \in 1..Len(c) : c[i] \notin bs
    BY Zenon DEF HeapInv
  <1>2. o \in S
    BY Zenon DEF AllBlocks
  <1>3. BlockFreed(f, m, S, o)
    BY Zenon, <1>1, <1>2, FreeBlock
  <1> HIDE DEF f
  <1>4. /\ f \in Mem /\ f.cached = c /\ Sound(f.free, S \ {o})
        /\ f.freemem = Count(Managed \ Occ(S \ {o}))
        /\ \A a \in Int : Covers(f.free, a) <=> Covers(m.free, a) \/ InBlock(Extent(o), a)
        /\ Gridded(m.free) /\ OnGrid(o.ptr) => Gridded(f.free)
    BY Zenon, <1>3 DEF BlockFreed
  <1>5. AllBlocks(f, bs \ {o}) = S \ {o}
    <2>1. DOMAIN c = 1..Len(c)
      BY <1>1 DEF Mem
    <2>2. QED
      BY ZenonT(90), <1>1, <1>4, <2>1 DEF AllBlocks
  <1>6. HeapInv(f, bs \ {o})
    BY Zenon, <1>1, <1>4, <1>5 DEF HeapInv
  <1>7. HeapGrid(m, bs) => HeapGrid(f, bs \ {o})
    BY Zenon, <1>2, <1>4, <1>5 DEF HeapGrid, S
  <1>8. QED
    BY ZenonT(60), <1>4, <1>5, <1>6, <1>7 DEF Freed, f, S

\* A cache takes over a block.
Cached(f, m, bs, b) ==
    /\ HeapInv(f, bs \ {b})
    /\ AllBlocks(f, bs \ {b}) = AllBlocks(m, bs) /\ f.free = m.free

\* A block handed to a cache is still allocated.
LEMMA CacheEffect ==
    ASSUME NEW m, NEW bs, HeapInv(m, bs), NEW b \in bs
    PROVE  Cached([m EXCEPT !.cached = Append(@, b)], m, bs, b)
  <1> DEFINE f == [m EXCEPT !.cached = Append(@, b)]
             S == AllBlocks(m, bs)
             c == m.cached
             n == Len(c)
             d == Append(c, b)
  <1>1. /\ m \in Mem /\ Sound(m.free, S) /\ m.freemem = Count(Managed \ Occ(S))
        /\ \A i, j \in 1..n : c[i] = c[j] => i = j
        /\ \A i \in 1..n : c[i] \notin bs
    BY Zenon DEF HeapInv
  <1>2. b \in S
    BY Zenon DEF AllBlocks
  <1>3. b \in Block
    BY Zenon, <1>1, <1>2 DEF Sound
  <1>4. c \in Seq(Block) /\ n \in Nat /\ DOMAIN c = 1..n
    BY <1>1 DEF Mem
  <1>5. /\ d \in Seq(Block) /\ Len(d) = n + 1 /\ DOMAIN d = 1..(n + 1)
        /\ (\A i \in 1..n : d[i] = c[i]) /\ d[n + 1] = b
    BY <1>3, <1>4
  <1> HIDE DEF d
  <1>6. f \in Mem /\ f.free = m.free /\ f.freemem = m.freemem /\ f.cached = d
    BY <1>1, <1>5 DEF Mem, d
  <1> HIDE DEF f, c, n
  <1>7. /\ \A i \in 1..n : i \in 1..(n + 1)
        /\ \A i \in 1..(n + 1) : i \in 1..n \/ i = n + 1
        /\ n + 1 \in 1..(n + 1)
    BY <1>4
  <1>8. AllBlocks(f, bs \ {b}) = S
    <2>1. S = bs \cup {c[i] : i \in 1..n}
      BY Zenon, <1>4 DEF S, AllBlocks, c
    <2>2. AllBlocks(f, bs \ {b}) = (bs \ {b}) \cup {d[i] : i \in 1..(n + 1)}
      BY ZenonT(60), <1>5, <1>6 DEF AllBlocks
    <2>3. {d[i] : i \in 1..(n + 1)} = {c[i] : i \in 1..n} \cup {b}
      BY Zenon, <1>5, <1>7
    <2>4. QED
      BY Zenon, <2>1, <2>2, <2>3
  <1>9. /\ \A i, j \in 1..(n + 1) : d[i] = d[j] => i = j
        /\ \A i \in 1..(n + 1) : d[i] \notin bs \ {b}
    BY Zenon, <1>1, <1>5, <1>7
  <1>10. HeapInv(f, bs \ {b})
    BY ZenonT(60), <1>1, <1>5, <1>6, <1>8, <1>9 DEF HeapInv
  <1>11. QED
    BY Zenon, <1>6, <1>8, <1>10 DEF Cached, f, S

\* A block that was asked for.
Requested(b) ==
    /\ b.offset \in Offsets \cup {0}
    /\ \E s \in RequestSizes, h \in {0, Header} : b.size = s + h

\* The block b is taken, after discards if need be.
Took(u, m, bs, b) == \E d : Given(m, d, bs) /\ TookBlock(u, b, d, bs)

\* The steps of the heap.
Step(m, bs, u, us) ==
    \/ Given(m, u, bs) /\ us = bs
    \/ \E b : Requested(b) /\ Took(u, m, bs, b) /\ us = bs \cup {b}
    \/ \E b, v : \E o \in bs : /\ Requested(b) /\ Took(v, m, bs, b)
                               /\ Freed(u, v, bs \cup {b}, o) /\ us = (bs \cup {b}) \ {o}
    \/ \E o \in bs : Freed(u, m, bs, o) /\ us = bs \ {o}
    \/ \E b \in bs : Cached(u, m, bs, b) /\ us = bs \ {b}

\* A request that failed leaves nothing to discard and nothing that fits.
NothingFits(m, request) ==
    /\ m.cached = <<>>
    /\ request[1] \in Nat \ {0} /\ request[2] \in Nat \ {0} /\ request[3] \in Int
    /\ Fitting(m.free, RoundUp(request[1]), request[2], request[3]) = {}

\* What alloc_memblock() answers to a request.
LEMMA AllocStep ==
    ASSUME NEW m, NEW bs, HeapInv(m, bs), NEW size \in Nat \ {0},
           NEW align \in Aligns \cup {1}, NEW offset \in Offsets \cup {0}, NEW auto \in BOOLEAN,
           \E s \in RequestSizes, h \in {0, Header} : size = s + h
    PROVE  LET a == alloc_memblock(m, size, align, offset)
               b == [ptr |-> a.ptr, size |-> size, align |-> align,
                     offset |-> offset, auto |-> auto]
           IN /\ a.ptr # Null => Requested(b) /\ Took(a.mem, m, bs, b)
              /\ a.ptr = Null => Given(m, a.mem, bs) /\ NothingFits(a.mem, <<size, align, offset>>)
  <1> DEFINE a == alloc_memblock(m, size, align, offset)
             b == [ptr |-> a.ptr, size |-> size, align |-> align,
                   offset |-> offset, auto |-> auto]
             r == <<size, align, offset>>
  <1>1. Aligned(align) /\ align \in Nat \ {0} /\ offset \in Int
    <2>1. Aligned(align)
      BY Zenon, Alignments
    <2>2. align \in Nat \ {0}
      BY Zenon, <2>1 DEF Aligned
    <2>3. offset \in Int
      BY MallocConstants
    <2>4. QED
      BY Zenon, <2>1, <2>2, <2>3
  <1>2. Allocated(a, m, bs, size, align, offset)
    BY Zenon, <1>1, AllocEffect
  <1> HIDE DEF a
  <1>3. Requested(b)
    BY Zenon DEF Requested
  <1>4. r[1] = size /\ r[2] = align /\ r[3] = offset
    OBVIOUS
  <1>5. ASSUME a.ptr # Null PROVE Took(a.mem, m, bs, b)
    BY Zenon, <1>2, <1>5 DEF Allocated, Took
  <1>6. ASSUME a.ptr = Null PROVE Given(m, a.mem, bs) /\ NothingFits(a.mem, r)
    <2> HIDE DEF r
    <2>1. PICK d : /\ Given(m, d, bs) /\ a.mem = d /\ d.cached = <<>>
                   /\ Fitting(d.free, RoundUp(size), align, offset) = {}
      BY Zenon, <1>2, <1>6 DEF Allocated
    <2>2. QED
      BY Zenon, <1>1, <1>4, <2>1 DEF NothingFits
  <1>7. QED
    BY Zenon, <1>3, <1>5, <1>6 DEF a

-----------------------------------------------------------------------------
(* The specification.                                                      *)

LostOf(m, bs) == Managed \ (FreeSet(m) \cup Occ(AllBlocks(m, bs)))

\* What every step comes to.
Moved ==
    /\ Step(mem, blocks, mem', blocks')
    /\ lost' = LostOf(mem', blocks')
    /\ failed' # <<>> => NothingFits(mem', failed')

\* What an operation records, primed.
LEMMA Recorded ==
    ASSUME NEW m, NEW bs, Record(m, bs)
    PROVE  mem' = m /\ blocks' = bs /\ lost' = LostOf(mem', blocks')
  BY Zenon DEF Record, LostOf, Occ

\* malloc_dma_offset() (malloc.c:417) is a step of the heap.
LEMMA DmaStep ==
    ASSUME HeapInv(mem, blocks), NEW size \in RequestSizes, NEW align \in Aligns,
           NEW offset \in Offsets, malloc_dma(size, align, offset)
    PROVE  Moved
  <1> DEFINE a == alloc_memblock(mem, size, align, offset)
             b == [ptr |-> a.ptr, size |-> size, align |-> align,
                   offset |-> offset, auto |-> FALSE]
  <1>1. size \in Nat \ {0} /\ size = size + 0
    BY MallocConstants
  <1>s. \E s \in RequestSizes, h \in {0, Header} : size = s + h
    BY Zenon, <1>1
  <1>2. /\ a.ptr # Null => Requested(b) /\ Took(a.mem, mem, blocks, b)
        /\ a.ptr = Null => Given(mem, a.mem, blocks)
                           /\ NothingFits(a.mem, <<size, align, offset>>)
    BY Zenon, <1>1, <1>s, AllocStep
  <1>3. IF a.ptr = Null
        THEN Record(a.mem, blocks) /\ failed' = <<size, align, offset>>
        ELSE Record(a.mem, blocks \cup {b}) /\ failed' = <<>>
    BY Zenon DEF malloc_dma
  <1> HIDE DEF a, b
  <1>4. CASE a.ptr = Null
    BY Zenon, <1>2, <1>3, <1>4, Recorded DEF Moved, Step
  <1>5. CASE a.ptr # Null
    BY Zenon, <1>2, <1>3, <1>5, Recorded DEF Moved, Step
  <1>6. QED
    BY <1>4, <1>5

\* A block that has been taken is not one of the others.
LEMMA TookInv ==
    ASSUME NEW u, NEW m, NEW bs, NEW b, Took(u, m, bs, b)
    PROVE  HeapInv(u, bs \cup {b}) /\ b \notin bs
  <1>1. PICK d : Given(m, d, bs) /\ TookBlock(u, b, d, bs)
    BY Zenon DEF Took
  <1>2. HeapInv(u, bs \cup {b}) /\ b \notin AllBlocks(d, bs)
    BY Zenon, <1>1 DEF TookBlock
  <1>3. QED
    BY Zenon, <1>2 DEF AllBlocks

\* realloc() (malloc.c:458) is a step of the heap, in all its cases.
LEMMA ReallocStep ==
    ASSUME HeapInv(mem, blocks), NEW olds, NEW size, realloc(olds, size),
           size \in RequestSizes \/ size = 0,
           olds = {} \/ \E o \in blocks : olds = {o},
           olds = {} => size # 0
    PROVE  Moved
  <1> DEFINE a == IF size = 0 THEN [ptr |-> Null, mem |-> mem]
                  ELSE alloc_memblock(mem, size + Header, 1, 0)
             old == CHOOSE o \in olds : TRUE
             Gone(m) == IF olds = {} THEN m ELSE free_memblock(m, old.ptr, old.size)
             b == NewBlock(a.ptr, size)
             r == <<size + Header, 1, 0>>
  <1>1. IF a.ptr = Null /\ size # 0
        THEN Record(a.mem, blocks) /\ failed' = r
        ELSE /\ Record(Gone(a.mem), (blocks \ olds) \cup (IF size = 0 THEN {} ELSE {b}))
             /\ failed' = <<>>
    BY Zenon DEF realloc
  <1>2. olds # {} => old \in blocks /\ olds = {old}
    BY Zenon
  <1> HIDE DEF old, r
  <1>3. CASE size = 0
    <2>1. a.mem = mem /\ olds # {}
      BY <1>3
    <2>2. Gone(a.mem) = free_memblock(mem, old.ptr, old.size)
      BY Zenon, <2>1
    <2>3. Record(Gone(a.mem), blocks \ {old}) /\ failed' = <<>>
      <3>1. (blocks \ olds) \cup {} = blocks \ {old}
        BY Zenon, <1>2, <2>1
      <3>2. Record(Gone(a.mem), (blocks \ olds) \cup {}) /\ failed' = <<>>
        BY Zenon, <1>1, <1>3
      <3>3. QED
        BY Zenon, <3>1, <3>2
    <2>4. Freed(free_memblock(mem, old.ptr, old.size), mem, blocks, old)
      BY Zenon, <1>2, <2>1, FreeEffect
    <2> HIDE DEF Gone
    <2>5. mem' = Gone(a.mem) /\ blocks' = blocks \ {old} /\ lost' = LostOf(mem', blocks')
      BY Zenon, <2>3, Recorded
    <2>6. Step(mem, blocks, mem', blocks')
      BY Zenon, <1>2, <2>1, <2>2, <2>4, <2>5 DEF Step
    <2>7. QED
      BY Zenon, <2>3, <2>5, <2>6 DEF Moved
  <1>4. CASE size # 0
    <2> DEFINE z == size + Header
    <2>1. a = alloc_memblock(mem, z, 1, 0)
      BY <1>4
    <2>2. z \in Nat \ {0} /\ size \in RequestSizes
      <3>1. size \in RequestSizes
        BY <1>4
      <3>2. size \in Nat \ {0}
        BY <3>1, MallocConstants
      <3>3. QED
        BY <3>1, <3>2 DEF Header
    <2>3. \E s \in RequestSizes, h \in {0, Header} : z = s + h
      BY Zenon, <2>2
    <2>4. b = [ptr |-> a.ptr, size |-> z, align |-> 1, offset |-> 0, auto |-> TRUE]
      BY Zenon DEF NewBlock
    <2>r. r = <<z, 1, 0>>
      BY Zenon DEF r
    <2> HIDE DEF a, b, z
    <2>5. /\ a.ptr # Null => Requested(b) /\ Took(a.mem, mem, blocks, b)
          /\ a.ptr = Null => Given(mem, a.mem, blocks) /\ NothingFits(a.mem, r)
      <3>1. 1 \in Aligns \cup {1} /\ 0 \in Offsets \cup {0} /\ TRUE \in BOOLEAN
        BY Zenon
      <3>2. QED
        BY Zenon, <2>1, <2>2, <2>3, <2>4, <2>r, <3>1, AllocStep
    <2>6. CASE a.ptr = Null
      BY Zenon, <1>1, <1>4, <2>5, <2>6, Recorded DEF Moved, Step
    <2>7. CASE a.ptr # Null
      <3>0. Took(a.mem, mem, blocks, b) /\ Requested(b)
        BY ZenonT(60), <2>5, <2>7
      <3>1. Record(Gone(a.mem), (blocks \ olds) \cup {b}) /\ failed' = <<>>
        BY ZenonT(60), <1>1, <1>4, <2>7
      <3>2. CASE olds = {}
        <4>1. Gone(a.mem) = a.mem /\ (blocks \ olds) \cup {b} = blocks \cup {b}
          BY <3>2
        <4> HIDE DEF Gone
        <4>2. mem' = a.mem /\ blocks' = blocks \cup {b} /\ lost' = LostOf(mem', blocks')
          BY ZenonT(60), <3>1, <4>1, Recorded
        <4>3. Step(mem, blocks, mem', blocks')
          BY Zenon, <3>0, <4>2 DEF Step
        <4>4. QED
          BY ZenonT(60), <3>1, <4>2, <4>3 DEF Moved
      <3>3. CASE olds # {}
        <4>1. HeapInv(a.mem, blocks \cup {b}) /\ b \notin blocks
          BY Zenon, <3>0, TookInv
        <4>2. (blocks \ olds) \cup {b} = (blocks \cup {b}) \ {old} /\ old \in blocks \cup {b}
          BY <1>2, <3>3, <4>1
        <4>3. Gone(a.mem) = free_memblock(a.mem, old.ptr, old.size)
          BY Zenon, <3>3
        <4>4. Freed(free_memblock(a.mem, old.ptr, old.size), a.mem, blocks \cup {b}, old)
          BY Zenon, <4>1, <4>2, FreeEffect
        <4> HIDE DEF Gone
        <4>5. mem' = Gone(a.mem) /\ blocks' = (blocks \cup {b}) \ {old} /\ lost' = LostOf(mem', blocks')
          BY Zenon, <3>1, <4>2, Recorded
        <4>6. Step(mem, blocks, mem', blocks')
          BY ZenonT(90), <1>2, <3>0, <3>3, <4>3, <4>4, <4>5 DEF Step
        <4>7. QED
          BY Zenon, <3>1, <4>5, <4>6 DEF Moved
      <3>4. QED
        BY <3>2, <3>3
    <2>8. QED
      BY <2>6, <2>7
  <1>5. QED
    BY <1>3, <1>4

\* Every operation is a step of the heap.
LEMMA EveryStep ==
    ASSUME HeapInv(mem, blocks), MemNext
    PROVE  Moved
  <1>1. ASSUME NEW size \in RequestSizes, malloc(size) PROVE Moved
    <2>1. size # 0
      BY MallocConstants
    <2>2. QED
      BY Zenon, <1>1, <2>1, ReallocStep DEF malloc
  <1>2. ASSUME NEW size \in RequestSizes, NEW b \in blocks, Realloc(b, size) PROVE Moved
    BY Zenon, <1>2, ReallocStep DEF Realloc
  <1>3. ASSUME NEW b \in blocks, free(b) PROVE Moved
    BY Zenon, <1>3, ReallocStep DEF free
  <1>4. ASSUME NEW b \in blocks, free_dma(b) PROVE Moved
    <2>1. Record(free_memblock(mem, b.ptr, b.size), blocks \ {b}) /\ failed' = <<>>
      BY Zenon, <1>4 DEF free_dma
    <2>2. Freed(free_memblock(mem, b.ptr, b.size), mem, blocks, b)
      BY Zenon, FreeEffect
    <2>3. /\ mem' = free_memblock(mem, b.ptr, b.size) /\ blocks' = blocks \ {b}
          /\ lost' = LostOf(mem', blocks')
      BY Zenon, <2>1, Recorded
    <2>4. Step(mem, blocks, mem', blocks')
      BY Zenon, <2>2, <2>3 DEF Step
    <2>5. QED
      BY Zenon, <2>1, <2>3, <2>4 DEF Moved
  <1>5. ASSUME NEW b \in blocks, Cache(b) PROVE Moved
    <2> DEFINE f == [mem EXCEPT !.cached = Append(@, b)]
    <2>1. Record(f, blocks \ {b}) /\ failed' = <<>>
      BY Zenon, <1>5 DEF Cache
    <2>2. Cached(f, mem, blocks, b)
      BY Zenon, CacheEffect
    <2> HIDE DEF f
    <2>3. mem' = f /\ blocks' = blocks \ {b} /\ lost' = LostOf(mem', blocks')
      BY Zenon, <2>1, Recorded
    <2>4. Step(mem, blocks, mem', blocks')
      BY Zenon, <2>2, <2>3 DEF Step
    <2>5. QED
      BY Zenon, <2>1, <2>3, <2>4 DEF Moved
  <1>6. QED
    BY Zenon, <1>1, <1>2, <1>3, <1>4, <1>5, DmaStep DEF MemNext

\* The addresses that are free.
LEMMA FreeAddresses ==
    ASSUME NEW m, Ordered(m.free)
    PROVE  \A a : a \in FreeSet(m) <=> a \in Int /\ Covers(m.free, a)
  <1> DEFINE list == m.free
             n == Len(list)
  <1>1. list \in Seq(Pairs)
    BY Zenon DEF Ordered, Pairs
  <1>2. n \in Nat /\ DOMAIN list = 1..n /\ \A i \in 1..n : list[i] \in Pairs
    BY <1>1
  <1>3. \A x \in Pairs : \A a : a \in Addresses(x) <=> a \in Int /\ InBlock(x, a)
    BY DEF Addresses, InBlock, End, Pairs
  <1>4. FreeSet(m) = UNION {Addresses(list[i]) : i \in 1..n}
    BY Zenon, <1>2 DEF FreeSet
  <1> HIDE DEF list, n
  <1>5. \A a : a \in FreeSet(m) <=> \E i \in 1..n : a \in Addresses(list[i])
    BY Zenon, <1>4
  <1>6. QED
    BY ZenonT(60), <1>2, <1>3, <1>5 DEF Covers, list, n

\* The free addresses lie in the heap.
LEMMA CoveredInHeap ==
    ASSUME NEW list, Ordered(list), NEW a \in Int, Covers(list, a)
    PROVE  a \in Managed
  <1>1. PICK i \in 1..Len(list) : InBlock(list[i], a)
    BY Zenon DEF Covers
  <1> DEFINE x == list[i][1]
             e == End(list[i])
  <1>2. HeapStart <= x /\ e <= HeapEnd /\ list[i] \in Pairs
    BY DEF Ordered, Pairs
  <1>3. x <= a /\ a < e /\ x \in Nat /\ e \in Nat
    BY <1>1, <1>2 DEF InBlock, End, Pairs
  <1>4. HeapStart \in Nat /\ HeapSize \in Nat
    BY MallocConstants, Rounding
  <1> HIDE DEF x, e
  <1>5. QED
    BY <1>2, <1>3, <1>4 DEF Managed, HeapEnd

\* mpopulate() leaves one free block, the whole heap.
LEMMA HeapInit ==
    ASSUME MemInit
    PROVE  /\ HeapInv(mem, blocks) /\ HeapGrid(mem, blocks)
           /\ lost = LostOf(mem, blocks) /\ AllBlocks(mem, blocks) = {}
           /\ FreeSet(mem) = Managed
  <1> DEFINE m == [free |-> <<>>, freemem |-> 0, cached |-> <<>>]
             b == <<HeapStart, RoundUp(HeapSize)>>
             new == FreedOf(<<>>, b)
  <1>1. /\ mem = free_memblock(m, HeapStart, HeapSize)
        /\ blocks = {} /\ lost = {} /\ failed = <<>>
    BY Zenon DEF MemInit
  <1>2. /\ HeapSize \in Nat /\ RoundUp(HeapSize) = HeapSize /\ HeapSize >= MIN_MEMBLOCK_SIZE
        /\ HeapStart \in Nat
    BY Rounding, MallocConstants
  <1>3. /\ b \in Pairs /\ b[1] = HeapStart /\ b[2] = HeapSize /\ End(b) = HeapEnd
        /\ b[2] >= MIN_MEMBLOCK_SIZE /\ HeapStart <= b[1] /\ End(b) <= HeapEnd
    BY <1>2 DEF Pairs, End, HeapEnd
  <1>4. mem = [m EXCEPT !.free = new, !.freemem = @ + RoundUp(HeapSize)]
    <2>1. m.free = <<>>
      OBVIOUS
    <2>2. QED
      BY Zenon, <1>1, <2>1 DEF free_memblock, FreedOf
  <1> HIDE DEF b, new
  <1>5. mem = [free |-> new, freemem |-> HeapSize, cached |-> <<>>]
    <2>1. 0 + RoundUp(HeapSize) = HeapSize
      BY <1>2
    <2>2. mem = [free |-> new, freemem |-> 0 + RoundUp(HeapSize), cached |-> <<>>]
      BY Zenon, <1>4
    <2>3. QED
      BY Zenon, <2>1, <2>2
  <1>6. Ordered(<<>>) /\ Gridded(<<>>) /\ \A a : ~Covers(<<>>, a)
    BY DEF Ordered, Gridded, Covers
  <1>7. IsFreed(new, <<>>, b)
    BY Zenon, <1>3, <1>6, FreedInto DEF new
  <1>8. /\ Ordered(new) /\ (Gridded(<<b>>) => Gridded(new))
        /\ \A a \in Int : Covers(new, a) <=> InBlock(b, a)
    BY ZenonT(60), <1>6, <1>7 DEF IsFreed
  <1>9. Gridded(new)
    <2>1. Len(<<b>>) = 1 /\ <<b>>[1] = b
      OBVIOUS
    <2>2. QED
      BY <1>3, <1>8, <2>1 DEF Gridded
  <1>10. mem.free = new /\ mem.freemem = HeapSize /\ mem.cached = <<>>
    BY <1>5
  <1>11. AllBlocks(mem, blocks) = {}
    <2>1. DOMAIN mem.cached = {}
      BY <1>10
    <2>2. QED
      BY Zenon, <1>1, <2>1 DEF AllBlocks
  <1>12. FreeSet(mem) = Managed
    <2>1. \A a : a \in FreeSet(mem) <=> a \in Int /\ InBlock(b, a)
      BY Zenon, <1>8, <1>10, FreeAddresses
    <2>2. \A a : a \in FreeSet(mem) <=> a \in Int /\ HeapStart <= a /\ a < HeapStart + HeapSize
      BY Zenon, <1>3, <2>1 DEF InBlock, HeapEnd
    <2>3. \A a : a \in Managed <=> a \in Int /\ HeapStart <= a /\ a < HeapStart + HeapSize
      BY <1>2 DEF Managed
    <2>4. QED
      BY Zenon, <2>2, <2>3
  <1>13. Occ({}) = {}
    BY Zenon DEF Occ
  <1>14. lost = LostOf(mem, blocks)
    BY <1>1, <1>11, <1>12, <1>13 DEF LostOf
  <1>15. Count(Managed) = HeapSize
    <2>1. /\ HeapStart \in Nat /\ HeapSize \in Nat
          /\ HeapStart <= HeapStart /\ HeapStart + HeapSize <= HeapStart + HeapSize
      BY <1>2
    <2>2. QED
      BY Zenon, <2>1, CountRange DEF Managed
  <1>16. HeapInv(mem, blocks)
    <2>1. new \in Seq(Pairs)
      BY Zenon, <1>8 DEF Ordered, Pairs
    <2>2. mem \in Mem
      BY <1>2, <1>5, <2>1 DEF Mem
    <2>3. Sound(mem.free, {})
      BY Zenon, <1>8, <1>10 DEF Sound
    <2>4. Managed \ {} = Managed
      OBVIOUS
    <2>5. Len(mem.cached) = 0 /\ 1..0 = {}
      BY <1>10
    <2>6. QED
      BY ZenonT(60), <1>10, <1>11, <1>13, <1>15, <2>2, <2>3, <2>4, <2>5 DEF HeapInv
  <1>17. HeapGrid(mem, blocks)
    BY Zenon, <1>9, <1>10, <1>11 DEF HeapGrid
  <1>18. QED
    BY <1>11, <1>12, <1>14, <1>16, <1>17

\* The inductive invariant.
HInv ==
    /\ HeapInv(mem, blocks) /\ lost = LostOf(mem, blocks)
    /\ failed # <<>> => NothingFits(mem, failed)

\* A step of the heap keeps its invariant.
LEMMA StepInv ==
    ASSUME NEW m, NEW bs, NEW u, NEW us, Step(m, bs, u, us)
    PROVE  HeapInv(u, us)
  <1>1. CASE Given(m, u, bs) /\ us = bs
    BY Zenon, <1>1 DEF Given
  <1>2. ASSUME NEW b, Took(u, m, bs, b), us = bs \cup {b} PROVE HeapInv(u, us)
    BY Zenon, <1>2, TookInv
  <1>3. ASSUME NEW b, NEW v, NEW o, Freed(u, v, bs \cup {b}, o), us = (bs \cup {b}) \ {o}
        PROVE  HeapInv(u, us)
    BY Zenon, <1>3 DEF Freed
  <1>4. ASSUME NEW o, Freed(u, m, bs, o), us = bs \ {o} PROVE HeapInv(u, us)
    BY Zenon, <1>4 DEF Freed
  <1>5. ASSUME NEW b, Cached(u, m, bs, b), us = bs \ {b} PROVE HeapInv(u, us)
    BY Zenon, <1>5 DEF Cached
  <1>6. QED
    BY ZenonT(60), <1>1, <1>2, <1>3, <1>4, <1>5 DEF Step

\* The inductive invariant holds of every heap and every history of calls.
LEMMA HInvHolds == MemSpec => []HInv
  <1>1. MemInit => HInv
    BY Zenon, HeapInit DEF HInv, MemInit
  <1>2. ASSUME HInv, [MemNext]_memVars PROVE HInv'
    <2>1. CASE MemNext
      <3>1. Moved
        BY Zenon, <1>2, <2>1, EveryStep DEF HInv
      <3>2. QED
        BY Zenon, <3>1, StepInv DEF Moved, HInv
    <2>2. CASE UNCHANGED memVars
      <3>1. mem' = mem /\ blocks' = blocks /\ lost' = lost /\ failed' = failed
        BY <2>2 DEF memVars
      <3>2. QED
        BY Zenon, <1>2, <3>1 DEF HInv
    <2>3. QED
      BY <1>2, <2>1, <2>2
  <1>3. QED
    BY <1>1, <1>2, PTL DEF MemSpec

\* The addresses of the allocated blocks.
LEMMA OccAddresses ==
    ASSUME NEW S, \A b \in S : b \in Block
    PROVE  \A a : a \in Occ(S) <=> \E b \in S : a \in Int /\ InBlock(Extent(b), a)
  <1>1. \A b \in S : \A a : a \in Occupied(b) <=> a \in Int /\ InBlock(Extent(b), a)
    BY ZenonT(60), OccupiedBy
  <1>2. QED
    BY Zenon, <1>1 DEF Occ

\* A block that is placed lies in the heap.
LEMMA PlacedInHeap ==
    ASSUME NEW b \in Block, Placed(b)
    PROVE  Occupied(b) \subseteq Managed
  <1>1. /\ b.ptr \in Nat /\ RoundUp(b.size) \in Nat
        /\ Extent(b)[1] = b.ptr /\ End(Extent(b)) = b.ptr + RoundUp(b.size)
    BY ExtentOf
  <1>2. \A a \in Occupied(b) : a \in Int /\ b.ptr <= a /\ a < b.ptr + RoundUp(b.size)
    BY Zenon, <1>1, OccupiedBy DEF InBlock
  <1>3. HeapStart <= b.ptr /\ b.ptr + RoundUp(b.size) <= HeapStart + HeapSize
    BY Zenon DEF Placed, HeapEnd
  <1>4. HeapStart \in Nat /\ HeapSize \in Nat
    BY MallocConstants, Rounding
  <1>5. QED
    BY <1>1, <1>2, <1>3, <1>4 DEF Managed

\* The invariant implies that the blocks are in order, counted and aligned.
LEMMA InOrder == HInv => BlocksInOrder
  <1> SUFFICES ASSUME HInv PROVE BlocksInOrder
    OBVIOUS
  <1> DEFINE S == AllBlocks(mem, blocks)
             list == mem.free
             n == Len(list)
             X == Managed \ Occ(S)
             F == FreeSet(mem)
  <1>1. /\ mem \in Mem /\ Sound(list, S) /\ mem.freemem = Count(X)
        /\ lost = Managed \ (F \cup Occ(S))
    BY Zenon DEF HInv, HeapInv, LostOf
  <1>2. /\ Ordered(list) /\ \A b \in S : b \in Block /\ Placed(b)
        /\ \A b \in S : \A a \in Int : InBlock(Extent(b), a) => ~Covers(list, a)
    BY Zenon, <1>1 DEF Sound
  <1>3. list \in Seq(Pairs) /\ n \in Nat /\ DOMAIN list = 1..n
    BY <1>1 DEF Mem
  <1>4. HeapStart \in Nat /\ HeapSize \in Nat /\ HeapSize <= HeapLen /\ HeapLen \in Nat
    BY MallocConstants, Rounding
  <1>5. Managed \subseteq Memory
    BY <1>4 DEF Managed, Memory
  <1>6. F \subseteq Managed
    BY Zenon, <1>2, FreeAddresses, CoveredInHeap
  <1>7. \A b \in S : Occupied(b) \subseteq Managed
    BY ZenonT(60), <1>2, PlacedInHeap
  <1>8. F \cap Occ(S) = {}
    <2>1. \A a \in F : a \in Int /\ Covers(list, a)
      BY Zenon, <1>2, FreeAddresses
    <2>2. \A a \in Occ(S) : \E b \in S : InBlock(Extent(b), a)
      BY Zenon, <1>2, OccAddresses
    <2>3. QED
      BY Zenon, <1>2, <2>1, <2>2
  <1> HIDE DEF X, F, S
  <1>10. mem.freemem \in 0..HeapLen
    <2>1. X \cap {} = {}
      BY Zenon
    <2>2. Count(X) \in 0..HeapSize
      BY Zenon, <1>4, <2>1, CountJoin
    <2>3. QED
      BY <1>1, <1>4, <2>2
  <1>11. MemTypeOK
    BY ZenonT(60), <1>5, <1>6, <1>7, <1>10 DEF MemTypeOK, F, S
  <1>12. \A i \in DOMAIN list : list[i][2] >= MIN_MEMBLOCK_SIZE
    BY Zenon, <1>2, <1>3 DEF Ordered
  <1>13. \A i \in 1..(n - 1) : End(list[i]) < list[i + 1][1]
    <2> TAKE i \in 1..(n - 1)
    <2>1. i \in 1..n /\ i + 1 \in 1..n /\ i < i + 1
      BY <1>3
    <2>2. QED
      BY Zenon, <1>2, <2>1 DEF Ordered
  <1>14. mem.freemem = Count(F) + Count(lost)
    <2>1. X = F \cup lost /\ F \cap lost = {}
      BY <1>1, <1>6, <1>8 DEF X
    <2>2. QED
      BY ZenonT(60), <1>1, <1>4, <2>1, CountJoin
  <1>15. \A b \in S : (b.ptr - b.offset) % b.align = 0
    BY Zenon, <1>2 DEF Placed
  <1>16. QED
    BY ZenonT(60), <1>11, <1>12, <1>13, <1>14, <1>15 DEF BlocksInOrder, F, S

\* A range of free addresses lies in one free block, because blocks that
\* touch have been merged.
LEMMA OneBlock ==
    ASSUME NEW list, Ordered(list), NEW a \in Int, NEW size \in Nat \ {0},
           \A x \in Int : InRange(a, size, x) => Covers(list, x)
    PROVE  \E i \in 1..Len(list) : list[i][1] <= a /\ a + size <= End(list[i])
  <1> DEFINE n == Len(list)
             st(j) == list[j][1]
             en(j) == End(list[j])
  <1>1. list \in Seq(Pairs)
    BY Zenon DEF Ordered, Pairs
  <1>2. n \in Nat /\ \A j \in 1..n : st(j) \in Nat /\ en(j) \in Nat
    BY <1>1 DEF Pairs, End
  <1>3. \A i, j \in 1..n : i < j => en(i) < st(j)
    BY Zenon DEF Ordered
  <1>4. \A x \in Int : InRange(a, size, x) => \E j \in 1..n : st(j) <= x /\ x < en(j)
    BY Zenon DEF Covers, InBlock
  <1>5. \A x : InRange(a, size, x) <=> a <= x /\ x < a + size
    BY Zenon DEF InRange
  <1> HIDE DEF n, st, en
  <1>6. PICK i \in 1..n : st(i) <= a /\ a < en(i)
    BY <1>4, <1>5
  <1>7. CASE a + size > en(i)
    <2>1. en(i) \in Int /\ a <= en(i) /\ en(i) < a + size
      BY <1>2, <1>6, <1>7
    <2>2. PICK j \in 1..n : st(j) <= en(i) /\ en(i) < en(j)
      BY Zenon, <1>4, <1>5, <2>1
    <2>3. j # i
      BY <1>2, <2>2
    <2>4. CASE i < j
      <3>1. en(i) < st(j)
        BY ZenonT(60), <1>3, <2>4
      <3>2. QED
        BY <1>2, <2>2, <3>1
    <2>5. CASE j < i
      <3>1. en(j) < st(i) /\ st(i) \in Nat /\ en(i) \in Nat /\ en(j) \in Nat
        BY ZenonT(60), <1>2, <1>3, <2>5
      <3>2. QED
        BY <1>6, <2>2, <3>1
    <2>6. i < j \/ j < i
      BY <2>3, <1>2
    <2>7. QED
      BY <2>4, <2>5, <2>6
  <1>8. CASE ~(a + size > en(i))
    <2>1. a + size <= en(i)
      BY <1>2, <1>8
    <2>2. QED
      BY ZenonT(60), <1>6, <2>1 DEF n, st, en
  <1>9. QED
    BY <1>7, <1>8

\* The distance to the first aligned address is the shortest.
LEMMA ShortestPre ==
    ASSUME NEW b, b[1] \in Nat, NEW align \in Nat \ {0}, NEW offset \in Int,
           NEW a \in Int, b[1] <= a, (a - offset) % AlignMask(align) = 0
    PROVE  pre_size(b, align, offset) <= a - b[1]
  <1> DEFINE A == AlignMask(align)
             s == b[1]
             x == a - offset
             p == x \div A
             pre == pre_size(b, align, offset)
  <1>1. A \in Nat \ {0}
    BY MallocConstants DEF AlignMask
  <1>2. x \in Int /\ x = a - offset /\ x % A = 0
    OBVIOUS
  <1>3. pre = (offset - s) % A /\ s \in Nat /\ s <= a
    BY DEF pre_size
  <1> HIDE DEF A, s, x, pre
  <1>4. x = A * p + (x % A) /\ p \in Int
    BY ZenonT(60), <1>1, <1>2, DivMod
  <1> DEFINE y == offset - s
             q == y \div A
  <1>5. y \in Int /\ y = offset - s
    BY <1>3
  <1> HIDE DEF y
  <1>6. y = A * q + (y % A) /\ q \in Int /\ y % A \in 0..(A - 1)
    BY ZenonT(60), <1>1, <1>5, DivMod
  <1>7. pre = y % A
    BY <1>3 DEF y
  <1> HIDE DEF p, q
  <1> DEFINE k == p + q
  <1>8. k \in Int /\ A * k = A * p + A * q
    BY <1>1, <1>4, <1>6
  <1> HIDE DEF k
  <1>9. pre \in 0..(A - 1) /\ a - s = A * k + pre /\ A * k \in Int
    <2>1. A * p \in Int /\ A * q \in Int
      BY <1>1, <1>4, <1>6
    <2>2. QED
      BY <1>1, <1>2, <1>3, <1>4, <1>5, <1>6, <1>7, <1>8, <2>1
  <1>10. CASE k >= 0
    <2>1. A * k >= 0
      BY <1>1, <1>8, <1>10
    <2>2. QED
      BY <1>1, <1>3, <1>9, <2>1 DEF s, pre
  <1>11. CASE k <= -1
    <2>1. A * k <= -A
      BY <1>1, <1>8, <1>11
    <2>2. QED
      BY <1>1, <1>3, <1>9, <2>1
  <1>12. k >= 0 \/ k <= -1
    BY <1>8
  <1>13. QED
    BY <1>10, <1>11, <1>12

\* The invariant implies that a request fails only when nothing fits.
LEMMA OnlyWhenFull == HInv => FailsOnlyWhenFull
  <1> SUFFICES ASSUME HInv, failed # <<>>,
                      NEW a \in Memory, (a - failed[3]) % AlignMask(failed[2]) = 0,
                      Addresses(<<a, RoundUp(failed[1])>>) \subseteq FreeSet(mem)
               PROVE  FALSE
    <2>1. HInv /\ failed # <<>> => mem.cached = <<>>
      BY Zenon DEF HInv, NothingFits
    <2>2. QED
      BY Zenon, <2>1 DEF FailsOnlyWhenFull
  <1> DEFINE size == failed[1]
             align == failed[2]
             offset == failed[3]
             R == RoundUp(size)
             list == mem.free
  <1>1. /\ size \in Nat \ {0} /\ align \in Nat \ {0} /\ offset \in Int
        /\ Fitting(list, R, align, offset) = {}
    BY Zenon DEF HInv, NothingFits
  <1>2. Ordered(list)
    BY Zenon DEF HInv, HeapInv, Sound
  <1>3. R \in Nat \ {0} /\ a \in Int
    <2>1. R \in Nat /\ R >= MIN_MEMBLOCK_SIZE
      BY <1>1, Rounding
    <2>2. HeapStart \in Nat /\ HeapLen \in Nat
      BY MallocConstants
    <2>3. a \in Int
      BY <2>2 DEF Memory
    <2>4. QED
      BY <2>1, <2>3, MallocConstants
  <1> HIDE DEF size, align, offset, R
  <1>4. \A x \in Int : InRange(a, R, x) => Covers(list, x)
    <2> TAKE x \in Int
    <2>1. Addresses(<<a, R>>) = a..(a + R - 1)
      <3> DEFINE p == <<a, R>>
      <3>1. p[1] = a /\ p[2] = R
        OBVIOUS
      <3> HIDE DEF p
      <3>2. Addresses(p) = p[1]..(End(p) - 1) /\ End(p) = p[1] + p[2]
        BY Zenon DEF Addresses, End
      <3>3. Addresses(p) = a..(a + R - 1)
        <4>1. p[1]..(End(p) - 1) = a..(a + R - 1)
          BY <1>3, <3>1, <3>2
        <4>2. QED
          BY Zenon, <3>2, <4>1
      <3>4. QED
        BY <3>3 DEF p
    <2>2. InRange(a, R, x) => x \in Addresses(<<a, R>>)
      BY <1>3, <2>1 DEF InRange
    <2>3. QED
      BY Zenon, <1>2, <2>2, FreeAddresses DEF R, size
  <1>5. PICK i \in 1..Len(list) : list[i][1] <= a /\ a + R <= End(list[i])
    BY ZenonT(60), <1>2, <1>3, <1>4, OneBlock
  <1> DEFINE b == list[i]
             s == b[1]
             pre == pre_size(b, align, offset)
  <1>6. i \in DOMAIN list /\ b \in Pairs
    BY <1>2 DEF Ordered, Pairs
  <1>7. s \in Nat /\ b[2] \in Nat /\ End(b) = s + b[2]
    BY <1>6 DEF Pairs, End
  <1>8. pre \in Nat
    BY Zenon, <1>1, <1>7, PreSize
  <1>9. pre <= a - s
    BY ZenonT(60), <1>1, <1>3, <1>5, <1>7, ShortestPre DEF offset, align
  <1>10. post_size(b, R, align, offset) = b[2] - pre - R
    BY Zenon DEF post_size
  <1>11. s <= a /\ a + R <= s + b[2]
    BY ZenonT(60), <1>5, <1>7
  <1> HIDE DEF pre, b, s
  <1>12. post_size(b, R, align, offset) >= 0
    BY <1>3, <1>7, <1>8, <1>9, <1>10, <1>11
  <1>13. QED
    BY Zenon, <1>1, <1>6, <1>12 DEF Fitting, b

\* For every size and place of the heap and whatever is asked of it: the free
\* list is in order of address and merged, freemem counts the memory that no
\* block occupies, and every block is aligned as its owner asked.
THEOREM BlocksStayInOrder == MemSpec => []BlocksInOrder
  BY HInvHolds, InOrder, PTL

\* alloc_memblock() fails only when the caches are empty and no aligned range
\* of free memory is long enough.
THEOREM FullWhenItFails == MemSpec => []FailsOnlyWhenFull
  BY HInvHolds, OnlyWhenFull, PTL

-----------------------------------------------------------------------------
(* The allocator implements Heap.                                          *)

Extents(S) == {Extent(b) : b \in S}

\* Blocks that do not overlap are told apart by their extents.
LEMMA ExtentsApart ==
    ASSUME NEW list, NEW S, Sound(list, S), NEW T, T \subseteq S
    PROVE  Extents(S \ T) = Extents(S) \ Extents(T)
  <1>1. \A b \in S : b \in Block
    BY Zenon DEF Sound
  <1>2. \A b \in S : InBlock(Extent(b), b.ptr) /\ b.ptr \in Int
    BY Zenon, <1>1, OccupiedBy
  <1>3. ASSUME NEW b \in S, NEW c \in S, Extent(b) = Extent(c) PROVE b = c
    <2>1. b.ptr \in Int /\ InBlock(Extent(b), b.ptr) /\ InBlock(Extent(c), b.ptr)
      BY Zenon, <1>2, <1>3
    <2>2. QED
      BY Zenon, <2>1 DEF Sound
  <1>4. QED
    BY Zenon, <1>3 DEF Extents

\* The addresses of a block of Heap, and of several.
LEMMA RangeOf ==
    ASSUME NEW b \in Block
    PROVE  \A a : a \in H!Range(Extent(b)) <=> a \in Int /\ InBlock(Extent(b), a)
  <1> DEFINE x == Extent(b)
  <1>1. x[1] \in Nat /\ x[2] \in Nat
    BY ExtentOf
  <1>2. H!Range(x) = x[1]..(x[1] + x[2] - 1) /\ End(x) = x[1] + x[2]
    BY Zenon DEF H!Range, End
  <1> HIDE DEF x
  <1>3. \A a : a \in H!Range(x) <=> a \in Int /\ x[1] <= a /\ a < x[1] + x[2]
    BY <1>1, <1>2
  <1>4. QED
    BY Zenon, <1>2, <1>3 DEF InBlock, x

\* The addresses of several blocks of Heap.
LEMMA RangesOf ==
    ASSUME NEW T, \A b \in T : b \in Block
    PROVE  \A a : a \in H!Ranges(Extents(T)) <=> \E b \in T : a \in Int /\ InBlock(Extent(b), a)
  <1>1. \A b \in T : \A a : a \in H!Range(Extent(b)) <=> a \in Int /\ InBlock(Extent(b), a)
    BY Zenon, RangeOf
  <1>2. H!Ranges(Extents(T)) = UNION {H!Range(x) : x \in Extents(T)}
    BY Zenon DEF H!Ranges
  <1>3. QED
    BY Zenon, <1>1, <1>2 DEF Extents

\* The block that is taken, in the terms of Heap.
LEMMA TakenRange ==
    ASSUME NEW b \in Block, Placed(b), Requested(b)
    PROVE  /\ Extent(b)[1] \in Managed /\ Extent(b)[2] \in BlockSizes
           /\ Extent(b) = <<Extent(b)[1], Extent(b)[2]>>
  <1>1. b.ptr \in Managed
    BY Zenon, OccupiedBy, PlacedInHeap
  <1>2. Extent(b)[1] = b.ptr /\ Extent(b)[2] = RoundUp(b.size)
    BY ExtentOf
  <1>3. RoundUp(b.size) \in BlockSizes
    <2>1. PICK s \in RequestSizes, h \in {0, Header} : b.size = s + h
      BY Zenon DEF Requested
    <2>2. RoundUp(s + h) \in BlockSizes
      BY DEF BlockSizes
    <2>3. QED
      BY ZenonT(60), <2>1, <2>2
  <1>4. Extent(b) = <<Extent(b)[1], Extent(b)[2]>>
    BY <1>2 DEF Extent
  <1>5. QED
    BY ZenonT(60), <1>1, <1>2, <1>3, <1>4

\* The offsets that are asked for are multiples of the minimum block size.
GridOffsets == \A o \in Offsets : OnGrid(o)

\* Heap's steps in the terms of the proof: given are blocks that the caches
\* give up, b the block taken, old the one it replaces.
Gained(m, given, a) == Covers(m.free, a) \/ \E c \in given : InBlock(Extent(c), a)

Releases(m, S, u, V, given) ==
    /\ given \subseteq S /\ V = S \ given
    /\ \A a \in Int : Covers(u.free, a) <=> Gained(m, given, a)

Takes(m, S, u, V, b, given, old) ==
    /\ b \in Block /\ Placed(b) /\ Requested(b) /\ given \subseteq S
    /\ old = {} \/ \E o \in S \ given : old = {o}
    /\ V = (S \ (given \cup old)) \cup {b}
    /\ \A a \in Int : InBlock(Extent(b), a) => Gained(m, given, a)
    /\ \A a \in Int : Covers(u.free, a) =>
          ~InBlock(Extent(b), a) /\ Gained(m, given \cup old, a)
    /\ \A a \in Int : /\ ~InBlock(Extent(b), a) /\ ~Covers(u.free, a)
                      /\ Gained(m, given \cup old, a)
                      => a \in Ends

TakesOrReleases(m, S, u, V) ==
    \/ V = S /\ u.free = m.free
    \/ \E given : Releases(m, S, u, V, given)
    \/ \E b, given, old : Takes(m, S, u, V, b, given, old)

\* A block taken is one that Heap may take.
LEMMA TookTakes ==
    ASSUME NEW m, NEW bs, NEW b, NEW v, HeapInv(m, bs), HeapGrid(m, bs), GridOffsets,
           Requested(b), Took(v, m, bs, b)
    PROVE  \E given : /\ \A o \in bs : o \notin given /\ o # b
                      /\ Takes(m, AllBlocks(m, bs), v, AllBlocks(v, bs \cup {b}), b, given, {})
                      /\ HeapGrid(v, bs \cup {b}) /\ HeapInv(v, bs \cup {b})
  <1> DEFINE S == AllBlocks(m, bs)
             V == AllBlocks(v, bs \cup {b})
  <1>0. OnGrid(b.offset)
    <2>1. OnGrid(0)
      <3>1. 0 = MIN_MEMBLOCK_SIZE * 0 /\ 0 \in Int
        BY MallocConstants
      <3>2. QED
        BY <3>1, MallocConstants DEF OnGrid
    <2>2. QED
      BY Zenon, <2>1 DEF Requested, GridOffsets
  <1>1. PICK d : Given(m, d, bs) /\ TookBlock(v, b, d, bs)
    BY Zenon DEF Took
  <1> DEFINE D == AllBlocks(d, bs)
             G == S \ D
  <1>2. /\ D \subseteq S /\ HeapGrid(d, bs)
        /\ \A a \in Int : Covers(d.free, a) <=> Gained(m, G, a)
    BY Zenon, <1>1 DEF Given, Gained
  <1>3. /\ b \in Block /\ HeapInv(v, bs \cup {b}) /\ V = D \cup {b} /\ b \notin D
        /\ \A a \in Int : InBlock(Extent(b), a) => Covers(d.free, a)
        /\ \A a \in Int : Covers(v.free, a) => Covers(d.free, a) /\ ~InBlock(Extent(b), a)
        /\ HeapGrid(v, bs \cup {b}) /\ Slivers(v.free, d.free, b)
    BY ZenonT(60), <1>0, <1>1, <1>2 DEF TookBlock
  <1>4. Placed(b)
    BY Zenon, <1>3 DEF HeapInv, Sound
  <1>5. bs \subseteq D
    BY Zenon DEF AllBlocks
  <1> HIDE DEF S, V, D
  <1>6. V = (S \ (G \cup {})) \cup {b} /\ G \cup {} = G /\ G \subseteq S
    BY ZenonT(60), <1>2, <1>3
  <1>7. Takes(m, S, v, V, b, G, {})
    BY ZenonT(60), <1>2, <1>3, <1>4, <1>6 DEF Takes, Slivers
  <1>8. \A o \in bs : o \notin G /\ o # b
    BY ZenonT(60), <1>3, <1>5
  <1>9. QED
    BY ZenonT(60), <1>3, <1>7, <1>8 DEF S, V

\* realloc() frees the old block once it has the new one.
LEMMA ReplaceTakes ==
    ASSUME NEW m, NEW bs, NEW b, NEW v, HeapInv(m, bs), HeapGrid(m, bs), GridOffsets,
           Requested(b), Took(v, m, bs, b), NEW o \in bs, NEW u, Freed(u, v, bs \cup {b}, o)
    PROVE  \E given : /\ Takes(m, AllBlocks(m, bs), u, AllBlocks(u, (bs \cup {b}) \ {o}), b, given, {o})
                      /\ HeapGrid(u, (bs \cup {b}) \ {o})
  <1> DEFINE S == AllBlocks(m, bs)
             V == AllBlocks(v, bs \cup {b})
             U == AllBlocks(u, (bs \cup {b}) \ {o})
  <1>1. PICK G : /\ \A x \in bs : x \notin G /\ x # b
                 /\ Takes(m, S, v, V, b, G, {})
                 /\ HeapGrid(v, bs \cup {b}) /\ HeapInv(v, bs \cup {b})
    BY Zenon, TookTakes
  <1>2. /\ U = V \ {o} /\ HeapGrid(u, (bs \cup {b}) \ {o})
        /\ \A a \in Int : Covers(u.free, a) <=> Covers(v.free, a) \/ InBlock(Extent(o), a)
    BY Zenon, <1>1 DEF Freed
  <1>3. b \in V /\ o \in V /\ o \in S
    BY Zenon DEF AllBlocks
  <1>4. \A a \in Int : ~(InBlock(Extent(b), a) /\ InBlock(Extent(o), a))
    BY ZenonT(60), <1>1, <1>3 DEF HeapInv, Sound
  <1> HIDE DEF S, V, U
  <1>5. /\ b \in Block /\ Placed(b) /\ G \subseteq S
        /\ V = (S \ (G \cup {})) \cup {b}
        /\ \A a \in Int : InBlock(Extent(b), a) => Gained(m, G, a)
        /\ \A a \in Int : Covers(v.free, a) => ~InBlock(Extent(b), a) /\ Gained(m, G \cup {}, a)
        /\ \A a \in Int : /\ ~InBlock(Extent(b), a) /\ ~Covers(v.free, a)
                          /\ Gained(m, G \cup {}, a)
                          => a \in Ends
    BY ZenonT(60), <1>1 DEF Takes
  <1>6. U = (S \ (G \cup {o})) \cup {b}
    BY ZenonT(60), <1>1, <1>2, <1>5
  <1>7. \A a : /\ Gained(m, G \cup {o}, a) <=> Gained(m, G, a) \/ InBlock(Extent(o), a)
               /\ Gained(m, G \cup {}, a) <=> Gained(m, G, a)
    BY Zenon DEF Gained
  <1>8. /\ \A a \in Int : Covers(u.free, a) =>
             ~InBlock(Extent(b), a) /\ Gained(m, G \cup {o}, a)
        /\ \A a \in Int : /\ ~InBlock(Extent(b), a) /\ ~Covers(u.free, a)
                          /\ Gained(m, G \cup {o}, a)
                          => a \in Ends
    BY ZenonT(60), <1>2, <1>4, <1>5, <1>7
  <1>9. Takes(m, S, u, U, b, G, {o})
    BY ZenonT(90), <1>1, <1>3, <1>5, <1>6, <1>8 DEF Takes
  <1>10. QED
    BY ZenonT(60), <1>2, <1>9 DEF S, U

\* Every step of the allocator is one of Heap's, and stays on the grid.
LEMMA StepTakesOrReleases ==
    ASSUME NEW m, NEW bs, NEW u, NEW us, Step(m, bs, u, us),
           HeapInv(m, bs), HeapGrid(m, bs), GridOffsets
    PROVE  HeapGrid(u, us) /\ TakesOrReleases(m, AllBlocks(m, bs), u, AllBlocks(u, us))
  <1> DEFINE S == AllBlocks(m, bs)
             V == AllBlocks(u, us)
             Goal == HeapGrid(u, us) /\ TakesOrReleases(m, S, u, V)
  <1>1. CASE Given(m, u, bs) /\ us = bs
    <2>1. V \subseteq S /\ HeapGrid(u, us) /\ \A a \in Int : Covers(u.free, a) <=> Gained(m, S \ V, a)
      BY Zenon, <1>1 DEF Given, Gained
    <2> HIDE DEF S, V
    <2>2. Releases(m, S, u, V, S \ V)
      BY Zenon, <2>1 DEF Releases
    <2>3. QED
      BY ZenonT(60), <2>1, <2>2 DEF S, V, TakesOrReleases
  <1>2. ASSUME NEW b, Requested(b), Took(u, m, bs, b), us = bs \cup {b} PROVE Goal
    BY Zenon, <1>2, TookTakes DEF TakesOrReleases
  <1>3. ASSUME NEW b, NEW v, NEW o \in bs, Requested(b), Took(v, m, bs, b),
               Freed(u, v, bs \cup {b}, o), us = (bs \cup {b}) \ {o}
        PROVE  Goal
    BY ZenonT(60), <1>3, ReplaceTakes DEF TakesOrReleases
  <1>4. ASSUME NEW o \in bs, Freed(u, m, bs, o), us = bs \ {o} PROVE Goal
    <2>1. /\ V = S \ {o} /\ HeapGrid(u, us)
          /\ \A a \in Int : Covers(u.free, a) <=> Gained(m, {o}, a)
      BY Zenon, <1>4 DEF Freed, Gained
    <2>2. o \in S
      BY Zenon DEF AllBlocks
    <2> HIDE DEF S, V
    <2>3. Releases(m, S, u, V, {o})
      BY ZenonT(60), <2>1, <2>2 DEF Releases
    <2>4. QED
      BY ZenonT(60), <2>1, <2>3 DEF S, V, TakesOrReleases
  <1>5. ASSUME NEW b \in bs, Cached(u, m, bs, b), us = bs \ {b} PROVE Goal
    BY ZenonT(90), <1>5 DEF Cached, HeapGrid, TakesOrReleases
  <1>6. QED
    BY Zenon, <1>1, <1>2, <1>3, <1>4, <1>5 DEF Step

\* The free addresses after a step.
LEMMA FreeAfter == FreeSet(mem)' = FreeSet(mem')
  BY DEF FreeSet, Addresses, End

\* The blocks of Heap are the extents of the allocated blocks.
LEMMA UsedNow ==
    {<<b.ptr, RoundUp(b.size)>> : b \in AllBlocks(mem, blocks)} = Extents(AllBlocks(mem, blocks))
  BY Zenon DEF Extents, Extent

\* The blocks of Heap after a step.
LEMMA UsedAfter ==
    {<<b.ptr, RoundUp(b.size)>> : b \in AllBlocks(mem, blocks)}' = Extents(AllBlocks(mem', blocks'))
  BY DEF Extents, Extent, AllBlocks, RoundUp

\* Heap's Release() and Take(), of any two states of the abstract heap.
ReleaseOf(A, U, B, V, gone) == B = A \cup H!Ranges(gone) /\ V = U \ gone

TakeOf(A, U, B, V, b, given, old) ==
    LET rest == (A \cup H!Ranges(given \cup old)) \ H!Range(b) IN
    /\ H!Range(b) \subseteq A \cup H!Ranges(given)
    /\ V = (U \ (given \cup old)) \cup {b}
    /\ B \subseteq rest
    /\ rest \ B \subseteq Ends

\* What the proof calls a release is Heap's Release().
LEMMA ReleasesIsRelease ==
    ASSUME NEW m, NEW S, NEW u, NEW V, Sound(m.free, S), Sound(u.free, V),
           NEW G, Releases(m, S, u, V, G)
    PROVE  ReleaseOf(FreeSet(m), Extents(S), FreeSet(u), Extents(V), Extents(G))
  <1>1. /\ G \subseteq S /\ V = S \ G
        /\ \A a \in Int : Covers(u.free, a) <=> Gained(m, G, a)
    BY Zenon DEF Releases
  <1>2. /\ \A a : a \in FreeSet(m) <=> a \in Int /\ Covers(m.free, a)
        /\ \A a : a \in FreeSet(u) <=> a \in Int /\ Covers(u.free, a)
    BY Zenon, FreeAddresses DEF Sound
  <1>3. \A a : a \in H!Ranges(Extents(G)) <=> \E b \in G : a \in Int /\ InBlock(Extent(b), a)
    <2>1. \A b \in G : b \in Block
      BY ZenonT(60), <1>1 DEF Sound
    <2>2. QED
      BY ZenonT(60), <2>1, RangesOf
  <1>4. Extents(V) = Extents(S) \ Extents(G)
    BY ZenonT(60), <1>1, ExtentsApart
  <1>5. \A a : a \in FreeSet(u) <=> a \in FreeSet(m) \/ a \in H!Ranges(Extents(G))
    BY ZenonT(60), <1>1, <1>2, <1>3 DEF Gained
  <1>6. QED
    BY Zenon, <1>4, <1>5 DEF ReleaseOf

\* What the proof calls a taking is Heap's Take().
LEMMA TakesIsTake ==
    ASSUME NEW m, NEW S, NEW u, NEW V, Sound(m.free, S), Sound(u.free, V),
           NEW b, NEW G, NEW old, Takes(m, S, u, V, b, G, old)
    PROVE  /\ TakeOf(FreeSet(m), Extents(S), FreeSet(u), Extents(V), Extent(b), Extents(G), Extents(old))
           /\ Extents(old) = {} \/ \E x \in Extents(S) \ Extents(G) : Extents(old) = {x}
           /\ Extents(G) \subseteq Extents(S)
  <1> DEFINE T == G \cup old
  <1>1. /\ b \in Block /\ G \subseteq S /\ T \subseteq S
        /\ old = {} \/ \E o \in S \ G : old = {o}
        /\ V = (S \ T) \cup {b}
        /\ \A a \in Int : InBlock(Extent(b), a) => Gained(m, G, a)
        /\ \A a \in Int : Covers(u.free, a) => ~InBlock(Extent(b), a) /\ Gained(m, T, a)
        /\ \A a \in Int : ~InBlock(Extent(b), a) /\ ~Covers(u.free, a) /\ Gained(m, T, a) => a \in Ends
    BY Zenon DEF Takes
  <1>2. /\ \A a : a \in FreeSet(m) <=> a \in Int /\ Covers(m.free, a)
        /\ \A a : a \in FreeSet(u) <=> a \in Int /\ Covers(u.free, a)
    BY ZenonT(60), FreeAddresses DEF Sound
  <1>3. \A x \in S : x \in Block
    BY Zenon DEF Sound
  <1> HIDE DEF T
  <1>4. /\ \A a : a \in H!Ranges(Extents(G)) <=> \E x \in G : a \in Int /\ InBlock(Extent(x), a)
        /\ \A a : a \in H!Ranges(Extents(T)) <=> \E x \in T : a \in Int /\ InBlock(Extent(x), a)
    <2>1. (\A x \in G : x \in Block) /\ (\A x \in T : x \in Block)
      BY ZenonT(60), <1>1, <1>3
    <2>2. QED
      BY Zenon, <2>1, RangesOf
  <1>5. \A a : a \in H!Range(Extent(b)) <=> a \in Int /\ InBlock(Extent(b), a)
    BY ZenonT(60), <1>1, RangeOf
  <1>6. Extents(V) = (Extents(S) \ Extents(T)) \cup {Extent(b)}
    <2>1. Extents(V) = Extents(S \ T) \cup {Extent(b)}
      BY Zenon, <1>1 DEF Extents
    <2>2. QED
      BY ZenonT(60), <1>1, <2>1, ExtentsApart
  <1>7. Extents(T) = Extents(G) \cup Extents(old)
    BY Zenon DEF Extents, T
  <1>8. H!Range(Extent(b)) \subseteq FreeSet(m) \cup H!Ranges(Extents(G))
    BY ZenonT(60), <1>1, <1>2, <1>4, <1>5 DEF Gained
  <1>9. FreeSet(u) \subseteq (FreeSet(m) \cup H!Ranges(Extents(T))) \ H!Range(Extent(b))
    BY ZenonT(60), <1>1, <1>2, <1>4, <1>5 DEF Gained
  <1>10. ((FreeSet(m) \cup H!Ranges(Extents(T))) \ H!Range(Extent(b))) \ FreeSet(u) \subseteq Ends
    BY ZenonT(90), <1>1, <1>2, <1>4, <1>5 DEF Gained
  <1>11. TakeOf(FreeSet(m), Extents(S), FreeSet(u), Extents(V), Extent(b), Extents(G), Extents(old))
    BY ZenonT(60), <1>6, <1>7, <1>8, <1>9, <1>10 DEF TakeOf
  <1>12. Extents(G) \subseteq Extents(S)
    BY Zenon, <1>1 DEF Extents
  <1>13. Extents(old) = {} \/ \E x \in Extents(S) \ Extents(G) : Extents(old) = {x}
    <2>1. CASE old = {}
      BY Zenon, <2>1 DEF Extents
    <2>2. ASSUME NEW o \in S \ G, old = {o} PROVE \E x \in Extents(S) \ Extents(G) : Extents(old) = {x}
      <3>1. Extents(S \ G) = Extents(S) \ Extents(G)
        BY Zenon, <1>1, ExtentsApart
      <3>2. Extent(o) \in Extents(S \ G) /\ Extents(old) = {Extent(o)}
        BY Zenon, <2>2 DEF Extents
      <3>3. QED
        BY Zenon, <3>1, <3>2
    <2>3. QED
      BY ZenonT(60), <1>1, <2>1, <2>2
  <1>14. QED
    BY ZenonT(60), <1>11, <1>12, <1>13

NextOf(U) ==
    \E given \in SUBSET U :
        \/ H!Release(given)
        \/ \E a \in Managed, n \in BlockSizes, old \in {{}} \cup {{c} : c \in U \ given} :
              H!Take(<<a, n>>, given, old)

\* A step of the allocator on the grid is a step of Heap.
LEMMA AbstractStep ==
    ASSUME HeapInv(mem, blocks), HeapInv(mem', blocks'),
           TakesOrReleases(mem, AllBlocks(mem, blocks), mem', AllBlocks(mem', blocks'))
    PROVE  H!Next \/ UNCHANGED <<FreeSet(mem), {<<b.ptr, RoundUp(b.size)>> : b \in AllBlocks(mem, blocks)}>>
  <1> DEFINE S == AllBlocks(mem, blocks)
             V == AllBlocks(mem', blocks')
             A == FreeSet(mem)
             B == FreeSet(mem')
             U == {<<b.ptr, RoundUp(b.size)>> : b \in S}
  <1>1. A' = B /\ U = Extents(S) /\ U' = Extents(V)
    BY Zenon, FreeAfter, UsedNow, UsedAfter
  <1>2. Sound(mem.free, S) /\ Sound(mem'.free, V)
    BY Zenon DEF HeapInv
  <1>3. ASSUME V = S, mem'.free = mem.free PROVE A' = A /\ U' = U
    <2>1. FreeSet(mem') = FreeSet(mem)
      BY Zenon, <1>3 DEF FreeSet
    <2>2. QED
      BY ZenonT(60), <1>1, <1>3, <2>1
  <1>4. ASSUME NEW G, Releases(mem, S, mem', V, G) PROVE NextOf(U)
    <2>1. ReleaseOf(A, Extents(S), B, Extents(V), Extents(G))
      BY ZenonT(60), <1>2, <1>4, ReleasesIsRelease
    <2>2. Extents(G) \subseteq Extents(S)
      BY Zenon, <1>4 DEF Releases, Extents
    <2> HIDE DEF A, B, S, V, U
    <2>3. A' = A \cup H!Ranges(Extents(G)) /\ U' = U \ Extents(G)
      BY ZenonT(60), <1>1, <2>1 DEF ReleaseOf
    <2>4. H!Release(Extents(G))
      BY Zenon, <2>3 DEF H!Release, S, A, U
    <2>5. Extents(G) \in SUBSET U
      BY Zenon, <1>1, <2>2
    <2>6. QED
      BY ZenonT(60), <2>4, <2>5 DEF NextOf
  <1>5. ASSUME NEW b, NEW G, NEW old, Takes(mem, S, mem', V, b, G, old) PROVE NextOf(U)
    <2> DEFINE g == Extents(G)
               x == Extent(b)
               o == Extents(old)
    <2>1. /\ TakeOf(A, Extents(S), B, Extents(V), x, g, o) /\ g \subseteq Extents(S)
          /\ o = {} \/ \E c \in Extents(S) \ g : o = {c}
      BY ZenonT(90), <1>2, <1>5, TakesIsTake
    <2>2. x[1] \in Managed /\ x[2] \in BlockSizes /\ x = <<x[1], x[2]>>
      BY Zenon, <1>5, TakenRange DEF Takes
    <2> HIDE DEF A, B, S, V, U, x, g, o
    <2>3. TakeOf(A, U, A', U', x, g, o)
      BY ZenonT(60), <1>1, <2>1
    <2>4. H!Take(x, g, o)
      BY Zenon, <2>3 DEF TakeOf, H!Take, A, U, S
    <2>5. o \in {{}} \cup {{c} : c \in U \ g} /\ g \in SUBSET U
      BY ZenonT(60), <1>1, <2>1
    <2>6. H!Take(<<x[1], x[2]>>, g, o)
      BY ZenonT(60), <2>2, <2>4
    <2>7. QED
      BY ZenonT(60), <2>2, <2>5, <2>6 DEF NextOf
  <1>6. NextOf(U) => H!Next
    BY Zenon DEF NextOf, H!Next
  <1>7. QED
    BY ZenonT(60), <1>3, <1>4, <1>5, <1>6 DEF TakesOrReleases

\* The allocator implements Heap when the offsets are multiples of the minimum
\* block size: memory that is handed out was free, so no address is ever in
\* two blocks; what is freed is free; only slivers at the ends are lost.
THEOREM HeapImplemented == ASSUME GridOffsets PROVE MemSpec => ImplementsHeap
  <1> DEFINE RInv == HeapInv(mem, blocks) /\ HeapGrid(mem, blocks)
             U == {<<b.ptr, RoundUp(b.size)>> : b \in AllBlocks(mem, blocks)}
  <1>1. MemInit => RInv /\ H!Init
    <2>1. ASSUME MemInit PROVE H!Init
      <3>1. AllBlocks(mem, blocks) = {} /\ FreeSet(mem) = Managed
        BY Zenon, <2>1, HeapInit
      <3>2. U = {}
        BY ZenonT(60), <3>1
      <3>3. QED
        BY Zenon, <3>1, <3>2 DEF H!Init
    <2>2. QED
      BY Zenon, <2>1, HeapInit
  <1>2. ASSUME RInv, [MemNext]_memVars PROVE RInv' /\ [H!Next]_<<FreeSet(mem), U>>
    <2>1. CASE MemNext
      <3>1. Step(mem, blocks, mem', blocks')
        BY Zenon, <1>2, <2>1, EveryStep DEF Moved
      <3>2. HeapInv(mem', blocks')
        BY ZenonT(60), <3>1, StepInv
      <3>3. /\ HeapGrid(mem', blocks')
            /\ TakesOrReleases(mem, AllBlocks(mem, blocks), mem', AllBlocks(mem', blocks'))
        BY ZenonT(60), <1>2, <3>1, StepTakesOrReleases
      <3>4. [H!Next]_<<FreeSet(mem), U>>
        BY ZenonT(60), <1>2, <3>2, <3>3, AbstractStep
      <3>5. RInv'
        BY ZenonT(60), <3>2, <3>3
      <3>6. QED
        BY Zenon, <3>4, <3>5
    <2>2. CASE UNCHANGED memVars
      <3>1. mem' = mem /\ blocks' = blocks
        BY <2>2 DEF memVars
      <3>2. RInv'
        BY ZenonT(60), <1>2, <3>1
      <3>3. FreeSet(mem)' = FreeSet(mem)
        BY ZenonT(60), <3>1, FreeAfter
      <3>4. U' = U
        BY ZenonT(60), <3>1, UsedNow, UsedAfter
      <3>5. QED
        BY <3>2, <3>3, <3>4
    <2>3. QED
      BY <1>2, <2>1, <2>2
  <1>3. QED
    BY <1>1, <1>2, PTL DEF MemSpec, ImplementsHeap, H!Spec
=============================================================================
