--------------------------- MODULE NeighbourCache ---------------------------
(***************************************************************************)
(* The operations of net/neighbour.c on the neighbour cache, as operators  *)
(* on a record c with (at least) the fields                                *)
(*    list    the entries, most recently used first                        *)
(*    total   total_neighbours                                             *)
(*    log     history: the packets that have left the cache, in order,     *)
(*            with what became of them                                     *)
(* A destination d stands for a network device, a protocol and a network   *)
(* address together: an entry is found by all three.                       *)
(*                                                                         *)
(* A definition Name_Variant before Name is a plausible mistake in it.     *)
(***************************************************************************)
EXTENDS Integers, Sequences, SequencesExt

CONSTANTS
    NoAddr,     \* the all-zeroes link-layer address
    MaxTries,   \* expiries of a timer before it reports failure
    net_tx(_, _, _, _)  \* cache after packet p is sent to d, given (c, d, p, n):
                        \* memory may be reclaimed meanwhile, n says how much

\* tries counts the expiries of the running retry timer.
NewEntry(d) ==
    [dest |-> d, ll |-> NoAddr, timer |-> FALSE, tries |-> 0, queue |-> <<>>]

Has(c, d) == \E i \in DOMAIN c.list : c.list[i].dest = d

Index(c, d) == CHOOSE i \in DOMAIN c.list : c.list[i].dest = d
Entry(c, d) == c.list[Index(c, d)]
SetEntry(c, d, e) == [c EXCEPT !.list[Index(c, d)] = e]

Logged(c, d, packets, fate) ==
    [c EXCEPT !.log = @ \o [i \in 1..Len(packets) |-> <<packets[i], d, fate>>]]

\* An entry that is found moves to the start of the cache.
neighbour_find(c, d) ==
    IF ~Has(c, d) THEN c
    ELSE [c EXCEPT !.list = <<Entry(c, d)>> \o RemoveAt(@, Index(c, d))]

neighbour_create(c, d) ==
    [c EXCEPT !.list = <<NewEntry(d)>> \o @, !.total = @ + 1]

\* start_timer_nodelay()
neighbour_discover(c, d) == SetEntry(c, d, [Entry(c, d) EXCEPT !.timer = TRUE])

neighbour_has_ll_dest(c, d) == ~Entry(c, d).timer

neighbour_destroy(c, d, rc) ==
    [Logged(c, d, Entry(c, d).queue, rc) EXCEPT
        !.list = RemoveAt(@, Index(c, d)), !.total = IF @ > 0 THEN @ - 1 ELSE @]

\* The queue is sent packet by packet.  An entry that is
\* destroyed meanwhile has an empty queue, which ends the loop.
DrainStep(c, d, p, n) ==
    IF ~Has(c, d) THEN c
    ELSE net_tx(SetEntry(c, d, [Entry(c, d) EXCEPT !.queue = Tail(@)]), d, p, n)

Discovered_TimerKept(e, ll) == [e EXCEPT !.ll = ll]
Discovered(e, ll) == [e EXCEPT !.ll = ll, !.timer = FALSE, !.tries = 0]

neighbour_discovered(c, d, ll, n) ==
    FoldLeft(LAMBDA b, p : DrainStep(b, d, p, n),
             SetEntry(c, d, Discovered(Entry(c, d), ll)), Entry(c, d).queue)

\* fail is reported by the retry timer (net/retry.c) once the back-off has
\* passed its maximum; otherwise the timer is restarted and a request sent.
neighbour_expired_NoBackoff(c, d) ==
    IF Entry(c, d).tries >= MaxTries THEN neighbour_destroy(c, d, "ETIMEDOUT") ELSE c

neighbour_expired(c, d) ==
    IF Entry(c, d).tries >= MaxTries THEN neighbour_destroy(c, d, "ETIMEDOUT")
    ELSE SetEntry(c, d, [Entry(c, d) EXCEPT !.tries = @ + 1])

Deferred_Stacked(c, d, p) == SetEntry(c, d, [Entry(c, d) EXCEPT !.queue = <<p>> \o @])
Deferred(c, d, p) == SetEntry(c, d, [Entry(c, d) EXCEPT !.queue = Append(@, p)])

\* neighbour_tx() once the entry exists
TxTo(c, d, p, n) ==
    IF neighbour_has_ll_dest(c, d) THEN net_tx(c, d, p, n) ELSE Deferred(c, d, p)

\* Every entry goes, whatever device was closed.
neighbour_flush(c) ==
    FoldLeft(LAMBDA b, e : neighbour_destroy(b, e.dest, "ENODEV"), c, c.list)

-----------------------------------------------------------------------------
(* Discarding entries when memory runs out.                                *)

NEIGHBOUR_DROP_MIN_CACHE_ENTRY == 3

DiscardsLast_Waiting(c) ==
    c.total >= NEIGHBOUR_DROP_MIN_CACHE_ENTRY /\ c.list # <<>>
DiscardsLast(c) ==
    c.total >= NEIGHBOUR_DROP_MIN_CACHE_ENTRY /\ c.list # <<>> /\ Last(c.list).ll # NoAddr

neighbour_discard_last(c) == neighbour_destroy(c, Last(c.list).dest, "ENOBUFS")

\* The first entry with the link-layer address ll, and only that.
WithAddr(c, ll) == {i \in DOMAIN c.list : c.list[i].ll = ll}
neighbour_discard(c, ll) ==
    IF WithAddr(c, ll) = {} THEN c
    ELSE LET i == CHOOSE i \in WithAddr(c, ll) : \A j \in WithAddr(c, ll) : i <= j IN
         neighbour_destroy(c, c.list[i].dest, "ENOBUFS")
=============================================================================
