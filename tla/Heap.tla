-------------------------------- MODULE Heap --------------------------------
(***************************************************************************)
(* What a memory allocator promises: a block that is handed out is a range *)
(* of free addresses, a block that is released is free again, and nothing  *)
(* else changes, but for slivers at the ends that may be withdrawn for good *)
(* when a block is taken.                                                  *)
(***************************************************************************)
EXTENDS Integers

CONSTANTS Memory, \* the addresses of the heap
          Slack,  \* those of them that may be withdrawn
          Sizes   \* lengths of the blocks that may be handed out

VARIABLES avail,  \* the addresses that are free
          used    \* the blocks handed out, <<first address, length>>

Range(b) == b[1]..(b[1] + b[2] - 1)
Ranges(bs) == UNION {Range(b) : b \in bs}

Init == avail = Memory /\ used = {}

Release(bs) ==
    /\ avail' = avail \cup Ranges(bs)
    /\ used' = used \ bs

\* Caches may give up blocks before b is taken; a block that b replaces goes
\* after it (old is that block, or none), so that the two never overlap.
Take(b, given, old) ==
    LET rest == (avail \cup Ranges(given \cup old)) \ Range(b) IN
    /\ Range(b) \subseteq avail \cup Ranges(given)
    /\ used' = (used \ (given \cup old)) \cup {b}
    /\ avail' \subseteq rest
    /\ rest \ avail' \subseteq Slack

Next ==
    \E given \in SUBSET used :
        \/ Release(given)
        \/ \E a \in Memory, n \in Sizes, old \in {{}} \cup {{c} : c \in used \ given} :
              Take(<<a, n>>, given, old)

Spec == Init /\ [][Next]_<<avail, used>>
=============================================================================
