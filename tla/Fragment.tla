------------------------------ MODULE Fragment ------------------------------
(***************************************************************************)
(* Reassembly of IP fragments (net/fragment.c), as ipv4.c and ipv6.c use   *)
(* it.  The network duplicates, loses and reorders fragments and may cut   *)
(* copies of the same datagram differently; buffers are extended in order  *)
(* only, anything else is dropped.                                         *)
(***************************************************************************)
EXTENDS Integers, Sequences

CONSTANTS
    Sources, Idents,   \* sources and the identifiers they give datagrams
    Length,            \* payload length of a datagram, in fragment units
    MaxBuffers         \* bound: how many reassembly buffers are ever made

ASSUME FragmentAssumption == Length \in Nat \ {0} /\ MaxBuffers \in Nat

VARIABLES
    list,      \* reassembly buffers [id, src, ident, data]
    running,   \* the buffers, by id, whose reassembly timer is running
    made,      \* how many buffers have been made
    rx         \* the packet last returned to ipv4_rx() or ipv6_rx(), or <<>>

fragVars == <<list, running, made, rx>>

\* The bytes of a datagram, told apart from those of any other.
Bytes(src, ident, from, to) ==
    [k \in 1..(to - from) |-> <<src, ident, from + k - 1>>]

\* A fragment is [src, ident, offset, len]; ipv6.c passes on a fragment that
\* is the whole datagram, too.
more_fragments(f) == f.offset + f.len < Length
Fragments ==
    {f \in [src : Sources, ident : Idents, offset : 0..(Length - 1), len : 1..Length] :
        f.offset + f.len <= Length}

\* ipv4_is_fragment(), ipv6_is_fragment()
is_fragment_AnySource(b, f) == b.ident = f.ident
is_fragment(b, f) == b.src = f.src /\ b.ident = f.ident

fragment_find(f) ==
    LET found == {i \in DOMAIN list : is_fragment(list[i], f)}
    IN IF found = {} THEN 0 ELSE CHOOSE i \in found : \A j \in found : i <= j

expected_offset(i) == IF i = 0 THEN 0 ELSE Len(list[i].data)

\* start_timer_fixed() after stop_timer(), or stop_timer() only
TimersAfter_NotWhenDone(id, more) == running \cup {id}
TimersAfter(id, more) == IF more THEN running \cup {id} ELSE running \ {id}

list_del(s, i) == SubSeq(s, 1, i - 1) \o SubSeq(s, i + 1, Len(s))

Drop == rx' = <<>> /\ UNCHANGED <<list, running, made>>

\* The first fragment makes a buffer; whether more follow is not looked at.
Create(f) ==
    LET b == [id |-> made, src |-> f.src, ident |-> f.ident,
              data |-> Bytes(f.src, f.ident, f.offset, f.offset + f.len)]
    IN /\ made < MaxBuffers /\ made' = made + 1
       /\ list' = <<b>> \o list /\ running' = running \cup {b.id}
       /\ rx' = <<>>

Extend(i, f) ==
    LET data == list[i].data \o Bytes(f.src, f.ident, f.offset, f.offset + f.len)
    IN /\ running' = TimersAfter(list[i].id, more_fragments(f))
       /\ IF more_fragments(f)
          THEN list' = [list EXCEPT ![i].data = data] /\ rx' = <<>>
          ELSE list' = list_del(list, i) /\ rx' = data
       /\ UNCHANGED made

\* nomem: zalloc() or alloc_iob() fails
fragment_reassemble(f, nomem) ==
    LET i == fragment_find(f) IN
    IF f.offset # expected_offset(i) \/ nomem THEN Drop
    ELSE IF i = 0 THEN Create(f)
    ELSE Extend(i, f)

fragment_expired(id) ==
    /\ id \in running /\ running' = running \ {id}
    /\ \E i \in DOMAIN list : list[i].id = id /\ list' = list_del(list, i)
    /\ rx' = <<>> /\ UNCHANGED made

FragInit == list = <<>> /\ running = {} /\ made = 0 /\ rx = <<>>

FragNext ==
    \/ \E f \in Fragments, nomem \in BOOLEAN : fragment_reassemble(f, nomem)
    \/ \E id \in 0..(MaxBuffers - 1) : fragment_expired(id)

FragSpec == FragInit /\ [][FragNext]_fragVars

-----------------------------------------------------------------------------
\* The timer of a buffer runs as long as the buffer exists and no longer: an
\* abandoned buffer is always freed, and no timer outlives the buffer that
\* contains it (the timers have no reference counter to keep it).
TimersAreBuffers ==
    /\ running = {list[i].id : i \in DOMAIN list}
    /\ \A i, j \in DOMAIN list : i # j => list[i].id # list[j].id

\* What is returned as reassembled is one datagram of one source, whole, each
\* byte once and in its place, however it was cut and whatever was repeated.
ReturnedWhole ==
    rx # <<>> => \E s \in Sources, d \in Idents : rx = Bytes(s, d, 0, Length)
=============================================================================
