------------------------------ MODULE Objects ------------------------------
(***************************************************************************)
(* The object model of the program: reference counts (core/refcnt.c), the  *)
(* interfaces through which objects are plugged together                   *)
(* (core/interface.c) and the processes of the run queue (core/process.c). *)
(*                                                                         *)
(* An object is <<class, n>>; its interface is <<class, n, port>>.  The    *)
(* operators below work on the record h:                                   *)
(*   count   the objects that are allocated, and their reference counts    *)
(*   dest    what an interface is plugged into                             *)
(*   ops     the interfaces that have their own operations, not those of   *)
(*           null_intf_desc                                                *)
(*   queue   the run queue, by the objects that contain the processes; the *)
(*           permanent processes, which never leave it, are left out       *)
(*   stray   history: an object was touched after it was freed             *)
(***************************************************************************)
EXTENDS Integers, SequencesExt

NullIntf == <<"null", 0, "intf">>
Obj(i) == <<i[1], i[2]>>

\* Statically allocated objects have a NULL reference counter.
Static == {"null", "monojob"}
Counted(o) == o[1] \notin Static

Live(h, o) == ~Counted(o) \/ o \in DOMAIN h.count

-----------------------------------------------------------------------------
(* Reference counts.  The count is one less than the number of references; *)
(* an object whose count falls below zero is freed.                        *)

Touch(h, o) == IF Live(h, o) THEN h ELSE [h EXCEPT !.stray = TRUE]

ref_init(h, o) == [h EXCEPT !.count = (o :> 0) @@ @]

ref_get(h, o) ==
    IF ~Counted(o) THEN h
    ELSE IF ~Live(h, o) THEN Touch(h, o)
    ELSE [h EXCEPT !.count[o] = @ + 1]

ref_put(h, o) ==
    IF ~Counted(o) THEN h
    ELSE IF ~Live(h, o) THEN Touch(h, o)
    ELSE IF h.count[o] > 0 THEN [h EXCEPT !.count[o] = @ - 1]
    ELSE [h EXCEPT !.count = Restrict(@, DOMAIN @ \ {o})]

-----------------------------------------------------------------------------
(* Interfaces.                                                             *)

intf_get(h, i) == ref_get(h, Obj(i))
intf_put(h, i) == ref_put(h, Obj(i))

intf_plug(h, i, dest) ==
    LET g == intf_put(intf_get(Touch(h, Obj(i)), dest), h.dest[i])
    IN [Touch(g, Obj(i)) EXCEPT !.dest[i] = dest]

intf_nullify(h, i) == [Touch(h, Obj(i)) EXCEPT !.ops = @ \ {i}]

-----------------------------------------------------------------------------
(* Processes.                                                              *)

process_add(h, o) ==
    IF Contains(h.queue, o) THEN h
    ELSE [ref_get(h, o) EXCEPT !.queue = Append(@, o)]

process_del(h, o) ==
    IF Contains(h.queue, o) THEN ref_put([h EXCEPT !.queue = Remove(@, o)], o)
    ELSE h
=============================================================================
