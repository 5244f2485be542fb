---------------------------- MODULE MemoryUsers ----------------------------
(***************************************************************************)
(* Memory that runs out, on both sides of discard_cache(): the heap of     *)
(* Malloc, whose caches are blocks that can be given up, and the caches of *)
(* Ipoib, whose discarders the heap calls.  Each is explored while the     *)
(* other is at rest.                                                       *)
(***************************************************************************)
EXTENDS MCIpoib, Malloc

MemoryInit == Init /\ MemInit

MemoryNext ==
    \/ Next /\ MemInit /\ UNCHANGED memVars
    \/ MemNext /\ Init /\ UNCHANGED vars

MemorySpec == MemoryInit /\ [][MemoryNext]_<<vars, memVars>>
=============================================================================
