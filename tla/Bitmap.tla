------------------------------- MODULE Bitmap -------------------------------
(***************************************************************************)
(* The bitmap of received blocks (core/bitmap.c): a set of bits, a length  *)
(* and the index of the first gap.                                         *)
(***************************************************************************)
EXTENDS Integers

NoBitmap == [length |-> 0, bits |-> {}, first_gap |-> 0]

bitmap_test(b, bit) == bit < b.length /\ bit \in b.bits

\* The first bit from b.first_gap on that does not test as set.
FirstGap(b) ==
    CHOOSE g \in b.first_gap..b.length :
        /\ ~bitmap_test(b, g)
        /\ \A i \in b.first_gap..(g - 1) : bitmap_test(b, i)

bitmap_set(b, bit) ==
    LET set == [b EXCEPT !.bits = @ \cup {bit}]
    IN [set EXCEPT !.first_gap = FirstGap(set)]

bitmap_full(b) == b.first_gap = b.length

\* bitmap_resize(); what was within the old length stays.
bitmap_resize(b, length) == [b EXCEPT !.length = length]
=============================================================================
