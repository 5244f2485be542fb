------------------------------- MODULE Malloc -------------------------------
(***************************************************************************)
(* The memory allocator (core/malloc.c): a list of free blocks in order of *)
(* address, first fit, merging of neighbours when a block is freed, and    *)
(* cache discarders that are called when nothing fits.  Addresses are in   *)
(* units of a pointer, so that MIN_MEMBLOCK_SIZE is a few units.           *)
(*                                                                         *)
(* A definition Name_Variant before Name is a plausible mistake in it.     *)
(***************************************************************************)
EXTENDS Integers, Sequences

CONSTANTS
    MIN_MEMBLOCK_SIZE,
    HeapStart, HeapLen,  \* address of the heap, and its length
    RequestSizes,        \* sizes that are asked for
    Aligns, Offsets      \* physical alignments, and offsets from them

ASSUME MallocConstants ==
    /\ MIN_MEMBLOCK_SIZE \in Nat \ {0} /\ HeapStart \in Nat \ {0}
    /\ HeapLen \in Nat /\ HeapLen >= MIN_MEMBLOCK_SIZE
    /\ RequestSizes \subseteq Nat \ {0} /\ Offsets \subseteq Int
    /\ Aligns \subseteq Nat \ {0} \* powers of two, as is MIN_MEMBLOCK_SIZE:
    /\ \A a \in Aligns : IF a > MIN_MEMBLOCK_SIZE THEN a % MIN_MEMBLOCK_SIZE = 0
                                                   ELSE MIN_MEMBLOCK_SIZE % a = 0

VARIABLES
    mem,      \* free: the list of free blocks, <<address, size>>; freemem;
              \* cached: the blocks the discarders can give up, in order
    blocks,   \* the other blocks allocated, [ptr, size, align, offset, auto]
    lost,     \* history: addresses that were leaked
    failed    \* history: the request that has just failed, or <<>>

memVars == <<mem, blocks, lost, failed>>

RoundUp(size) ==
    ((size + MIN_MEMBLOCK_SIZE - 1) \div MIN_MEMBLOCK_SIZE) * MIN_MEMBLOCK_SIZE

End(b) == b[1] + b[2]
Addresses(b) == b[1]..(End(b) - 1)

-----------------------------------------------------------------------------
(* alloc_memblock() on one list of free blocks.                            *)

AlignMask(align) == IF align > MIN_MEMBLOCK_SIZE THEN align ELSE MIN_MEMBLOCK_SIZE

pre_size(b, align, offset) == (offset - b[1]) % AlignMask(align)
post_size(b, size, align, offset) == b[2] - pre_size(b, align, offset) - size

Fitting(free, size, align, offset) ==
    {i \in DOMAIN free : post_size(free[i], size, align, offset) >= 0}

\* The pre and post blocks stay in the list unless they are too small.
Kept(pre, post) ==
    (IF pre[2] >= MIN_MEMBLOCK_SIZE THEN <<pre>> ELSE <<>>)
        \o (IF post[2] >= MIN_MEMBLOCK_SIZE THEN <<post>> ELSE <<>>)

\* The least number of a set
Least(S) == CHOOSE n \in S : \A m \in S : n <= m

\* The block taken from the first fitting free block.
Taken(m, size, align, offset) ==
    LET i == Least(Fitting(m.free, size, align, offset))
        b == m.free[i]
        ptr == b[1] + pre_size(b, align, offset)
    IN [ptr |-> ptr,
        mem |-> [m EXCEPT
                   !.free = SubSeq(@, 1, i - 1)
                       \o Kept(<<b[1], pre_size(b, align, offset)>>,
                               <<ptr + size, post_size(b, size, align, offset)>>)
                       \o SubSeq(@, i + 1, Len(@)),
                   !.freemem = @ - size]]

-----------------------------------------------------------------------------
(* free_memblock(): blocks that end before the freed one stay where they   *)
(* are; a block that ends where it starts, or starts where it ends, merges.*)

\* The freed block b joins the list of the blocks before it, then the blocks
\* after it join the result.
JoinBefore(before, b) ==
    LET n == Len(before) IN
    IF n > 0 /\ End(before[n]) = b[1]
    THEN SubSeq(before, 1, n - 1) \o <<<<before[n][1], before[n][2] + b[2]>>>>
    ELSE before \o <<b>>
JoinAfter_Apart(list, after) == list \o after
JoinAfter(list, after) ==
    LET n == Len(list) IN
    IF after # <<>> /\ End(list[n]) = Head(after)[1]
    THEN SubSeq(list, 1, n - 1) \o <<<<list[n][1], list[n][2] + Head(after)[2]>>>> \o Tail(after)
    ELSE list \o after

\* The loop stops at the first block that starts after the freed one.
Following(free, b) ==
    Least({i \in DOMAIN free : free[i][1] >= End(b)} \cup {Len(free) + 1})

free_memblock(m, ptr, size) ==
    LET b == <<ptr, RoundUp(size)>>
        i == Following(m.free, b)
        before == SubSeq(m.free, 1, i - 1)
        after == SubSeq(m.free, i, Len(m.free))
    IN [m EXCEPT !.free = JoinAfter(JoinBefore(before, b), after),
                 !.freemem = @ + RoundUp(size)]

\* A discarder gives up its oldest block.
DiscardOne(m) ==
    [free_memblock(m, Head(m.cached).ptr, Head(m.cached).size) EXCEPT !.cached = Tail(@)]

\* The heap after n discards, and the number of them that the loop of
\* alloc_memblock() makes before the request fits or nothing is left.
Discarded(m, n) ==
    LET after[k \in 0..n] == IF k = 0 THEN m ELSE DiscardOne(after[k - 1])
    IN after[n]
Discards(m, size, align, offset) ==
    Least({n \in 0..Len(m.cached) : Fitting(Discarded(m, n).free, size, align, offset) # {}}
            \cup {Len(m.cached)})

Null == 0
alloc_memblock_GivesUp(m, size, align, offset) ==
    IF Fitting(m.free, RoundUp(size), align, offset) # {}
    THEN Taken(m, RoundUp(size), align, offset)
    ELSE [ptr |-> Null, mem |-> IF m.cached = <<>> THEN m ELSE DiscardOne(m)]

alloc_memblock(m, size, align, offset) ==
    LET d == Discarded(m, Discards(m, RoundUp(size), align, offset)) IN
    IF Fitting(d.free, RoundUp(size), align, offset) # {}
    THEN Taken(d, RoundUp(size), align, offset)
    ELSE [ptr |-> Null, mem |-> d]

-----------------------------------------------------------------------------
FreeSet(m) == UNION {Addresses(m.free[i]) : i \in DOMAIN m.free}
Occupied(b) == Addresses(<<b.ptr, RoundUp(b.size)>>)
AllBlocks(m, bs) == bs \cup {m.cached[i] : i \in DOMAIN m.cached}

\* mpopulate() rounds the length down; free_memblock() does the rest.
HeapSize == (HeapLen \div MIN_MEMBLOCK_SIZE) * MIN_MEMBLOCK_SIZE
Memory == HeapStart..(HeapStart + HeapLen - 1)
Managed == HeapStart..(HeapStart + HeapSize - 1)

\* The number of addresses that a set has in the heap, added up from its start.
Count(X) ==
    LET c[n \in 0..HeapSize] ==
          IF n = 0 THEN 0 ELSE c[n - 1] + (IF HeapStart + n - 1 \in X THEN 1 ELSE 0)
    IN c[HeapSize]

MemInit ==
    /\ mem = free_memblock([free |-> <<>>, freemem |-> 0, cached |-> <<>>],
                           HeapStart, HeapSize)
    /\ blocks = {} /\ lost = {} /\ failed = <<>>

Record(m, bs) ==
    /\ mem' = m /\ blocks' = bs
    /\ lost' = Managed \ (FreeSet(m) \cup UNION {Occupied(b) : b \in AllBlocks(m, bs)})

\* malloc_dma_offset(): the owner remembers the size.
malloc_dma(size, align, offset) ==
    LET a == alloc_memblock(mem, size, align, offset)
        b == [ptr |-> a.ptr, size |-> size, align |-> align, offset |-> offset, auto |-> FALSE]
    IN IF a.ptr = Null
       THEN Record(a.mem, blocks) /\ failed' = <<size, align, offset>>
       ELSE Record(a.mem, blocks \cup {b}) /\ failed' = <<>>

free_dma(b) ==
    /\ ~b.auto
    /\ Record(free_memblock(mem, b.ptr, b.size), blocks \ {b})
    /\ failed' = <<>>

\* A block allocated by malloc() starts with its own size (one unit).
Header == 1
NewBlock(ptr, size) ==
    [ptr |-> ptr, size |-> size + Header, align |-> 1, offset |-> 0, auto |-> TRUE]

\* realloc(): the new block first, then the old one goes; olds is the block
\* given, if any.  malloc() and free() are the cases without one of them.
realloc_Early(olds, size) ==
    \E m \in {IF olds = {} THEN mem
              ELSE LET o == CHOOSE o \in olds : TRUE IN free_memblock(mem, o.ptr, o.size)} :
       LET a == IF size = 0 THEN [ptr |-> Null, mem |-> m]
                ELSE alloc_memblock(m, size + Header, 1, 0)
       IN IF a.ptr = Null /\ size # 0
          THEN Record(a.mem, blocks) /\ failed' = <<size + Header, 1, 0>>
          ELSE /\ Record(a.mem, (blocks \ olds) \cup
                               (IF size = 0 THEN {} ELSE {NewBlock(a.ptr, size)}))
               /\ failed' = <<>>

realloc(olds, size) ==
    LET a == IF size = 0 THEN [ptr |-> Null, mem |-> mem]
             ELSE alloc_memblock(mem, size + Header, 1, 0)
        Freed(m) == IF olds = {} THEN m
                    ELSE LET o == CHOOSE o \in olds : TRUE IN free_memblock(m, o.ptr, o.size)
    IN IF a.ptr = Null /\ size # 0
       THEN Record(a.mem, blocks) /\ failed' = <<size + Header, 1, 0>>
       ELSE /\ Record(Freed(a.mem), (blocks \ olds) \cup
                                   (IF size = 0 THEN {} ELSE {NewBlock(a.ptr, size)}))
            /\ failed' = <<>>

malloc(size) == realloc({}, size)
Realloc(b, size) == b.auto /\ realloc({b}, size)
free(b) == b.auto /\ realloc({b}, 0)

\* A cache takes over a block, to be discarded when memory is short.
Cache(b) ==
    /\ Record([mem EXCEPT !.cached = Append(@, b)], blocks \ {b})
    /\ failed' = <<>>

MemNext ==
    \/ \E size \in RequestSizes :
          \/ malloc(size)
          \/ \E b \in blocks : Realloc(b, size)
          \/ \E align \in Aligns, offset \in Offsets : malloc_dma(size, align, offset)
    \/ \E b \in blocks : free_dma(b) \/ free(b) \/ Cache(b)

MemSpec == MemInit /\ [][MemNext]_memVars

-----------------------------------------------------------------------------
(* Properties.                                                             *)

\* Free blocks and allocated blocks lie in the heap; freemem is never
\* negative (it is unsigned in the code).
MemTypeOK ==
    /\ FreeSet(mem) \subseteq Memory
    /\ \A b \in AllBlocks(mem, blocks) : Occupied(b) \subseteq Memory
    /\ mem.freemem \in 0..HeapLen

\* The list of free blocks is in order of address, no two blocks touch (they
\* would have been merged), and each is large enough to be a list element;
\* freemem counts what is in it, and what was leaked, after any calls.  Every
\* allocated block is aligned as its owner asked, also one that was cut out of
\* the middle of a free block or found only after caches were discarded.
BlocksInOrder ==
    /\ MemTypeOK
    /\ \A i \in DOMAIN mem.free : mem.free[i][2] >= MIN_MEMBLOCK_SIZE
    /\ \A i \in 1..(Len(mem.free) - 1) : End(mem.free[i]) < mem.free[i + 1][1]
    /\ mem.freemem = Count(FreeSet(mem)) + Count(lost)
    /\ \A b \in AllBlocks(mem, blocks) : (b.ptr - b.offset) % b.align = 0

\* The comments in alloc_memblock(): a block is leaked "if it is too small,
\* which can happen only at the very start of the heap", or the very end.
Ends ==
    HeapStart..(HeapStart + MIN_MEMBLOCK_SIZE - 2)
        \cup (HeapStart + HeapSize - MIN_MEMBLOCK_SIZE + 1)..(HeapStart + HeapSize - 1)

\* A request fails only when the caches are empty and there really is no
\* aligned range of free memory: merging leaves no hole unusable.
FailsOnlyWhenFull ==
    failed # <<>> =>
        /\ mem.cached = <<>>
        /\ \A a \in Memory :
              (a - failed[3]) % AlignMask(failed[2]) = 0 =>
                  ~(Addresses(<<a, RoundUp(failed[1])>>) \subseteq FreeSet(mem))

\* The lengths of blocks, with and without a header.
BlockSizes == {RoundUp(s + h) : s \in RequestSizes, h \in {0, Header}}

\* The state of the abstract heap.
H == INSTANCE Heap WITH
        Memory <- Managed, Slack <- Ends, Sizes <- BlockSizes,
        avail <- FreeSet(mem),
        used <- {<<b.ptr, RoundUp(b.size)>> : b \in AllBlocks(mem, blocks)}

\* The allocator implements Heap: memory that is handed out was free, so no
\* address belongs to two blocks; memory that is released is free; realloc()
\* lets go of the old block only once it has the new one; and only slivers at
\* the ends of the heap are ever lost.
ImplementsHeap == H!Spec
=============================================================================
