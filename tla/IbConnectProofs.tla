-------------------------- MODULE IbConnectProofs ---------------------------
(***************************************************************************)
(* Proofs about IbConnect: for any number of destinations, cached paths    *)
(* and users of the device, what the transactions, the paths, the cache,   *)
(* the connection and the open count say of one another agrees.  First who *)
(* owns transactions and paths, as a relation between the four tables of a *)
(* device; then what each function of ib_mi.c, ib_pathrec.c, ib_cm.c,      *)
(* ib_cmrc.c and infiniband.c does to it; then the steps.                  *)
(***************************************************************************)
EXTENDS IbConnect, FiniteSetTheorems, TLAPS

\* The provers tried, in this order, where a step names none
USE SMT, Zenon, SMTT(90), ZenonT(60)

-----------------------------------------------------------------------------
(* Types.                                                                  *)

Owner == [kind : {"path", "conn"}, id : Nat]
Madx == [owner : Owner, sent : BOOLEAN]
Path == [live : BOOLEAN, gid : Gids, lid : BOOLEAN, madx : BOOLEAN, slot : Slots \cup {-1}]
Conn == [live : BOOLEAN, path : Paths \cup {NoPath}, madx : BOOLEAN, asked : BOOLEAN,
         established : BOOLEAN]
Cmrc == [state : {"none", "up", "down"}, xfer : BOOLEAN, connected : BOOLEAN,
         posted : BOOLEAN, shutdown : BOOLEAN]
Device == [open_count : Int, users : Nat, madx : SUBSET Madx, path : [Paths -> Path],
           cache : [Slots -> Paths \cup {NoPath}], cache_idx : Slots, conn : Conn,
           cmrc : Cmrc, wild : BOOLEAN]

(***************************************************************************)
(* Ownership, of transactions M, paths P, the cache C and the connection   *)
(* N.  Each path knows the one place that points to it, its slot, so that  *)
(* nothing has to be counted.                                              *)
(***************************************************************************)
Typed(M, P, C, N) ==
    M \subseteq Madx /\ P \in [Paths -> Path] /\ C \in [Slots -> Paths \cup {NoPath}] /\ N \in Conn

MadxOwned(M, P, N) ==
    /\ \A m \in M : \/ m.owner = ConnOwner /\ N.live /\ N.madx
                    \/ \E p \in Paths : m.owner = PathOwner(p) /\ P[p].live /\ P[p].madx
    /\ \A m, n \in M : m.owner = n.owner => m = n
    /\ \A p \in Paths : P[p].madx => P[p].live /\ \E m \in M : m.owner = PathOwner(p)
    /\ N.madx => N.live /\ N.path = NoPath /\ \E m \in M : m.owner = ConnOwner

PathsPlaced(P, C, N) ==
    /\ \A i \in Slots : C[i] # NoPath => P[C[i]].live /\ P[C[i]].slot = i
    /\ \A p \in Paths : P[p].live /\ P[p].slot # -1 => C[P[p].slot] = p
    /\ \A p \in Paths : P[p].live /\ P[p].slot = -1 => N.live /\ N.path = p
    /\ N.path # NoPath => N.live /\ P[N.path].live /\ P[N.path].slot = -1
    /\ \A i, j \in Slots :
          C[i] # NoPath /\ C[j] # NoPath /\ P[C[i]].gid = P[C[j]].gid => i = j

Own(M, P, C, N) == Typed(M, P, C, N) /\ MadxOwned(M, P, N) /\ PathsPlaced(P, C, N)

-----------------------------------------------------------------------------
\* Owners are told apart.
LEMMA Owners ==
    /\ ConnOwner \in Owner
    /\ \A p \in Paths : PathOwner(p) \in Owner /\ PathOwner(p) # ConnOwner
    /\ \A p, q \in Paths : PathOwner(p) = PathOwner(q) => p = q
<1>1. \A p \in Paths : p \in Nat
  BY IbAssumption DEF Paths
<1> QED BY <1>1 DEF ConnOwner, PathOwner, Owner

\* A path that has been freed, and the names of the places of paths.
LEMMA Places ==
    /\ NewPath \in Path /\ dgid \in Gids /\ NoPath \notin Paths /\ -1 \notin Slots
    /\ ~NewPath.live /\ ~NewPath.madx /\ NewPath.slot = -1
    /\ NoConn \in Conn /\ ~NoConn.live /\ ~NoConn.madx /\ NoConn.path = NoPath
<1>1. dgid \in Gids
  BY IbAssumption DEF dgid
<1>2. NoPath \notin Paths /\ -1 \notin Slots
  BY IbAssumption DEF NoPath, Paths, Slots
<1> QED BY <1>1, <1>2 DEF NewPath, Path, NoConn, Conn

-----------------------------------------------------------------------------
(* What the operations do to ownership.                                    *)

Without(M, owner) == {m \in M : m.owner # owner}

\* A transaction that is taken away with its owner's mark leaves the others
\* owned.  (P and Q differ in path p only.)
LEMMA MadxWithout ==
    ASSUME NEW M, NEW P, NEW C, NEW N, Own(M, P, C, N), NEW p \in Paths,
           NEW q \in Path, ~q.madx
    PROVE  MadxOwned(Without(M, PathOwner(p)), [P EXCEPT ![p] = q], N)
<1> DEFINE R == Without(M, PathOwner(p))
           Q == [P EXCEPT ![p] = q]
<1>1. P \in [Paths -> Path] /\ MadxOwned(M, P, N)
  BY DEF Own, Typed
<1>2. R \subseteq M /\ (\A m \in M : m.owner # PathOwner(p) => m \in R)
      /\ \A m \in R : m.owner # PathOwner(p)
  BY DEF Without
<1>3. Q[p] = q /\ \A r \in Paths : r # p => Q[r] = P[r]
  BY <1>1
<1> HIDE DEF R, Q
<1>4. \A m \in R : \/ m.owner = ConnOwner /\ N.live /\ N.madx
                   \/ \E r \in Paths : m.owner = PathOwner(r) /\ Q[r].live /\ Q[r].madx
  BY <1>1, <1>2, <1>3, ZenonT(90) DEF MadxOwned
<1>5. \A m, n \in R : m.owner = n.owner => m = n
  BY <1>1, <1>2, Zenon DEF MadxOwned
<1>6. \A r \in Paths : Q[r].madx => Q[r].live /\ \E m \in R : m.owner = PathOwner(r)
  <2> SUFFICES ASSUME NEW r \in Paths, Q[r].madx
               PROVE  Q[r].live /\ \E m \in R : m.owner = PathOwner(r)
    OBVIOUS
  <2>1. r # p /\ Q[r] = P[r]
    BY <1>3
  <2>2. PICK m \in M : m.owner = PathOwner(r)
    BY <1>1, <2>1 DEF MadxOwned
  <2>3. PathOwner(r) # PathOwner(p)
    BY <2>1, Owners
  <2> QED BY <1>1, <1>2, <2>1, <2>2, <2>3 DEF MadxOwned
<1>7. N.madx => N.live /\ N.path = NoPath /\ \E m \in R : m.owner = ConnOwner
  BY <1>1, <1>2, Owners, Zenon DEF MadxOwned
<1> QED BY <1>4, <1>5, <1>6, <1>7 DEF MadxOwned, R, Q

\* A path leaves the cache, with its transaction.
LEMMA Uncached ==
    ASSUME NEW M, NEW P, NEW C, NEW N, Own(M, P, C, N), NEW i \in Slots, C[i] # NoPath
    PROVE  Own(Without(M, PathOwner(C[i])), [P EXCEPT ![C[i]] = NewPath],
               [C EXCEPT ![i] = NoPath], N)
<1> DEFINE p == C[i]
           Q == [P EXCEPT ![p] = NewPath]
           D == [C EXCEPT ![i] = NoPath]
<1>1. Typed(M, P, C, N) /\ PathsPlaced(P, C, N) /\ p \in Paths
  BY DEF Own, Typed
<1>2. Typed(Without(M, PathOwner(p)), Q, D, N)
  BY <1>1, Places DEF Typed, Without
<1>3. MadxOwned(Without(M, PathOwner(p)), Q, N)
  BY <1>1, Places, MadxWithout
<1>4. Q[p] = NewPath /\ (\A r \in Paths : r # p => Q[r] = P[r])
      /\ D[i] = NoPath /\ \A j \in Slots : j # i => D[j] = C[j]
  BY <1>1 DEF Typed
<1>5. P[p].live /\ P[p].slot = i /\ i # -1
  BY <1>1, Places DEF PathsPlaced
<1>6. PathsPlaced(Q, D, N)
  <2> HIDE DEF p, Q, D
  <2>1. \A j \in Slots : D[j] # NoPath => D[j] = C[j] /\ C[j] # p /\ j # i /\ C[j] \in Paths
    BY <1>1, <1>4, <1>5 DEF PathsPlaced, Typed
  <2>2. \A j \in Slots : D[j] # NoPath => Q[D[j]].live /\ Q[D[j]].slot = j
    BY <1>1, <1>4, <2>1 DEF PathsPlaced
  <2>3. \A r \in Paths : Q[r].live => r # p /\ Q[r] = P[r]
    BY <1>4, Places, Zenon
  <2>4. \A r \in Paths : Q[r].live /\ Q[r].slot # -1 => D[Q[r].slot] = r
    <3>1. ASSUME NEW r \in Paths, Q[r].live, Q[r].slot # -1 PROVE D[Q[r].slot] = r
      <4>1. Q[r] = P[r] /\ r # p
        BY <2>3, <3>1
      <4>2. C[P[r].slot] = r /\ P[r].slot \in Slots
        BY <1>1, <3>1, <4>1 DEF PathsPlaced, Typed, Path
      <4>3. P[r].slot # i
        BY <4>1, <4>2 DEF p
      <4> QED BY <1>4, <4>1, <4>2, <4>3
    <3> QED BY <3>1
  <2>5. \A r \in Paths : Q[r].live /\ Q[r].slot = -1 => N.live /\ N.path = r
    BY <1>1, <2>3, ZenonT(90) DEF PathsPlaced
  <2>6. N.path # NoPath => N.live /\ Q[N.path].live /\ Q[N.path].slot = -1
    <3>1. ASSUME N.path # NoPath PROVE N.live /\ Q[N.path].live /\ Q[N.path].slot = -1
      <4>1. N.path \in Paths /\ N.live /\ P[N.path].live /\ P[N.path].slot = -1
        BY <1>1, <3>1 DEF PathsPlaced, Typed, Conn
      <4> QED BY <1>4, <1>5, <4>1
    <3> QED BY <3>1
  <2>7. \A j, k \in Slots :
           D[j] # NoPath /\ D[k] # NoPath /\ Q[D[j]].gid = Q[D[k]].gid => j = k
    <3>1. \A j \in Slots : D[j] # NoPath => Q[D[j]] = P[C[j]] /\ C[j] # NoPath
      BY <1>4, <2>1
    <3>2. \A j, k \in Slots :
             C[j] # NoPath /\ C[k] # NoPath /\ P[C[j]].gid = P[C[k]].gid => j = k
      BY <1>1 DEF PathsPlaced
    <3> QED BY <3>1, <3>2
  <2> QED BY <2>2, <2>4, <2>5, <2>6, <2>7 DEF PathsPlaced
<1> QED BY <1>2, <1>3, <1>6 DEF Own

\* The connection's path goes, with its transaction.
LEMMA ConnPathGone ==
    ASSUME NEW M, NEW P, NEW C, NEW N, Own(M, P, C, N), N.path # NoPath
    PROVE  Own(Without(M, PathOwner(N.path)), [P EXCEPT ![N.path] = NewPath], C,
               [N EXCEPT !.path = NoPath])
<1> DEFINE p == N.path
           Q == [P EXCEPT ![p] = NewPath]
           L == [N EXCEPT !.path = NoPath]
           R == Without(M, PathOwner(p))
<1>1. Typed(M, P, C, N) /\ PathsPlaced(P, C, N) /\ p \in Paths
  BY DEF Own, Typed, Conn
<1>2. L \in Conn /\ L.live = N.live /\ L.madx = N.madx /\ L.path = NoPath
  BY <1>1 DEF Typed, Conn
<1>3. Typed(R, Q, C, L)
  BY <1>1, <1>2, Places DEF Typed, Without
<1>4. MadxOwned(R, Q, L)
  <2>1. MadxOwned(R, Q, N)
    BY <1>1, Places, MadxWithout
  <2> QED BY <2>1, <1>2 DEF MadxOwned
<1>5. Q[p] = NewPath /\ \A r \in Paths : r # p => Q[r] = P[r]
  BY <1>1 DEF Typed
<1>6. P[p].live /\ P[p].slot = -1
  BY <1>1 DEF PathsPlaced
<1>7. PathsPlaced(Q, C, L)
  <2> HIDE DEF p, Q, L, R
  <2>1. \A j \in Slots : C[j] # NoPath => C[j] # p /\ C[j] \in Paths /\ Q[C[j]] = P[C[j]]
    BY <1>1, <1>5, <1>6, Places DEF PathsPlaced, Typed
  <2>2. \A r \in Paths : Q[r].live => r # p /\ Q[r] = P[r]
    BY <1>5, Places, Zenon
  <2>3. \A j \in Slots : C[j] # NoPath => Q[C[j]].live /\ Q[C[j]].slot = j
    BY <1>1, <2>1 DEF PathsPlaced
  <2>4. \A r \in Paths : Q[r].live /\ Q[r].slot # -1 => C[Q[r].slot] = r
    BY <1>1, <2>2 DEF PathsPlaced
  <2>5. \A r \in Paths : ~(Q[r].live /\ Q[r].slot = -1)
    BY <1>1, <2>2 DEF PathsPlaced, p
  <2>6. \A j, k \in Slots :
           C[j] # NoPath /\ C[k] # NoPath /\ Q[C[j]].gid = Q[C[k]].gid => j = k
    BY <1>1, <2>1 DEF PathsPlaced
  <2> QED BY <1>2, <2>3, <2>4, <2>5, <2>6 DEF PathsPlaced
<1> QED BY <1>3, <1>4, <1>7 DEF Own

\* A lookup is over: the path loses its transaction and may get its LID.
LEMMA LookedUp ==
    ASSUME NEW M, NEW P, NEW C, NEW N, Own(M, P, C, N), NEW p \in Paths, NEW lid \in BOOLEAN
    PROVE  Own(Without(M, PathOwner(p)),
               [P EXCEPT ![p] = [P[p] EXCEPT !.madx = FALSE, !.lid = lid]], C, N)
<1> DEFINE q == [P[p] EXCEPT !.madx = FALSE, !.lid = lid]
           Q == [P EXCEPT ![p] = q]
           R == Without(M, PathOwner(p))
<1>1. Typed(M, P, C, N) /\ PathsPlaced(P, C, N) /\ P[p] \in Path
  BY DEF Own, Typed
<1>2. /\ q \in Path /\ ~q.madx /\ q.live = P[p].live /\ q.slot = P[p].slot
      /\ q.gid = P[p].gid
  BY <1>1, Zenon DEF Path
<1> HIDE DEF q
<1>3. Typed(R, Q, C, N)
  BY <1>1, <1>2 DEF Typed, Without
<1>4. MadxOwned(R, Q, N)
  BY <1>2, MadxWithout
<1>5. \A r \in Paths : Q[r].live = P[r].live /\ Q[r].slot = P[r].slot /\ Q[r].gid = P[r].gid
  BY <1>1, <1>2 DEF Typed
<1>6. PathsPlaced(Q, C, N)
  <2>1. (\A j \in Slots : C[j] # NoPath => C[j] \in Paths) /\ (N.path # NoPath => N.path \in Paths)
    BY <1>1 DEF Typed, Conn
  <2> HIDE DEF Q
  <2> QED BY <1>1, <1>5, <2>1 DEF PathsPlaced
<1> QED BY <1>3, <1>4, <1>6 DEF Own, q

\* There is memory for a path as long as one of the places for paths is free.
LEMMA FreePath ==
    ASSUME NEW M, NEW P, NEW C, NEW N, Own(M, P, C, N), NEW j \in Slots \cup {-1},
           IF j = -1 THEN N.path = NoPath ELSE C[j] = NoPath
    PROVE  \E p \in Paths : ~P[p].live
<1> SUFFICES ASSUME \A p \in Paths : P[p].live
             PROVE  FALSE
  OBVIOUS
<1> DEFINE D == (Slots \cup {-1}) \ {j}
           at(x) == IF x = -1 THEN N.path ELSE C[x]
           f == [x \in D |-> IF at(x) \in Paths THEN at(x) ELSE 1]
<1>1. Typed(M, P, C, N) /\ PathsPlaced(P, C, N) /\ IB_NUM_CACHED_PATHS \in Nat \ {0}
  BY IbAssumption DEF Own
<1>2. f \in [D -> Paths]
  <2>1. 1 \in Paths
    BY <1>1 DEF Paths
  <2> QED BY <2>1
<1>3. ASSUME NEW p \in Paths PROVE \E x \in D : f[x] = p
  <2>1. P[p].live /\ P[p].slot \in Slots \cup {-1}
    BY <1>1 DEF Typed, Path
  <2>2. at(P[p].slot) = p
    BY <1>1, <2>1 DEF PathsPlaced
  <2>3. P[p].slot # j
    BY <2>2, Places
  <2>4. P[p].slot \in D /\ f[P[p].slot] = p
    BY <2>1, <2>2, <2>3
  <2> QED BY Zenon, <2>4
<1>4. f \in Surjection(D, Paths)
  BY <1>2, <1>3, Zenon DEF Surjection
<1>5. Slots \cup {-1} = (-1)..(IB_NUM_CACHED_PATHS - 1)
  BY <1>1 DEF Slots
<1>6. IsFiniteSet(Slots \cup {-1}) /\ Cardinality(Slots \cup {-1}) = IB_NUM_CACHED_PATHS + 1
  <2>1. -1 \in Int /\ IB_NUM_CACHED_PATHS - 1 \in Int
        /\ ~(-1 > IB_NUM_CACHED_PATHS - 1)
        /\ (IB_NUM_CACHED_PATHS - 1) - (-1) + 1 = IB_NUM_CACHED_PATHS + 1
    BY <1>1
  <2>2. /\ IsFiniteSet((-1)..(IB_NUM_CACHED_PATHS - 1))
        /\ Cardinality((-1)..(IB_NUM_CACHED_PATHS - 1)) = (IB_NUM_CACHED_PATHS - 1) - (-1) + 1
    BY <2>1, FS_Interval
  <2> QED BY <1>5, <2>1, <2>2, Zenon
<1>7. IsFiniteSet(D) /\ Cardinality(D) = IB_NUM_CACHED_PATHS
  <2>1. IsFiniteSet(D) /\ Cardinality(D) = Cardinality(Slots \cup {-1}) - 1
    BY <1>6, FS_RemoveElement, Zenon
  <2> QED BY <2>1, <1>1, <1>6
<1>8. Cardinality(Paths) = IB_NUM_CACHED_PATHS + 1
  BY <1>1, FS_Interval DEF Paths
<1>9. Cardinality(Paths) <= Cardinality(D)
  BY <1>4, <1>7, FS_Surjection
<1> QED BY <1>1, <1>7, <1>8, <1>9

\* A new path brings its transaction along.  (L is the connection afterwards.)
LEMMA MadxWith ==
    ASSUME NEW M, NEW P, NEW C, NEW N, Own(M, P, C, N), NEW p \in Paths, ~P[p].live,
           NEW q \in Path, q.live, q.madx, NEW L, L = N \/ (~N.live /\ ~L.madx)
    PROVE  MadxOwned(M \cup {[owner |-> PathOwner(p), sent |-> FALSE]}, [P EXCEPT ![p] = q], L)
<1> DEFINE a == [owner |-> PathOwner(p), sent |-> FALSE]
           R == M \cup {a}
           Q == [P EXCEPT ![p] = q]
<1>1. P \in [Paths -> Path] /\ MadxOwned(M, P, N)
  BY DEF Own, Typed
<1>2. a.owner = PathOwner(p) /\ Q[p] = q /\ \A r \in Paths : r # p => Q[r] = P[r]
  BY <1>1
<1>3. ASSUME NEW m \in M PROVE m.owner # PathOwner(p)
  <2> SUFFICES ASSUME m.owner = PathOwner(p) PROVE FALSE
    OBVIOUS
  <2>1. PICK r \in Paths : m.owner = PathOwner(r) /\ P[r].live
    BY <1>1, Owners DEF MadxOwned
  <2> QED BY <2>1, Owners, Zenon
<1> HIDE DEF a, Q
<1>4. \A m \in R : \/ m.owner = ConnOwner /\ L.live /\ L.madx
                   \/ \E r \in Paths : m.owner = PathOwner(r) /\ Q[r].live /\ Q[r].madx
  <2>1. ASSUME NEW m \in M
        PROVE  \/ m.owner = ConnOwner /\ L.live /\ L.madx
               \/ \E r \in Paths : m.owner = PathOwner(r) /\ Q[r].live /\ Q[r].madx
    BY <1>1, <1>2, <1>3, ZenonT(60) DEF MadxOwned
  <2>2. a.owner = PathOwner(p) /\ Q[p].live /\ Q[p].madx
    BY <1>2
  <2> QED BY <2>1, <2>2
<1>5. \A m, n \in R : m.owner = n.owner => m = n
  <2>1. \A m, n \in M : m.owner = n.owner => m = n
    BY <1>1 DEF MadxOwned
  <2> QED BY <2>1, <1>2, <1>3, Zenon
<1>6. ASSUME NEW r \in Paths, Q[r].madx
      PROVE  Q[r].live /\ \E m \in R : m.owner = PathOwner(r)
  BY <1>1, <1>2, <1>6 DEF MadxOwned
<1>7. L.madx => L.live /\ L.path = NoPath /\ \E m \in R : m.owner = ConnOwner
  BY <1>1 DEF MadxOwned
<1> QED BY <1>4, <1>5, <1>6, <1>7 DEF MadxOwned, a, Q

\* A path is made for a free cache slot.
LEMMA Cached ==
    ASSUME NEW M, NEW P, NEW C, NEW N, Own(M, P, C, N), NEW p \in Paths, ~P[p].live,
           NEW i \in Slots, C[i] = NoPath,
           NEW q \in Path, q.live, q.madx, q.slot = i,
           \A j \in Slots : C[j] # NoPath => P[C[j]].gid # q.gid
    PROVE  Own(M \cup {[owner |-> PathOwner(p), sent |-> FALSE]}, [P EXCEPT ![p] = q],
               [C EXCEPT ![i] = p], N)
<1> DEFINE a == [owner |-> PathOwner(p), sent |-> FALSE]
           Q == [P EXCEPT ![p] = q]
           D == [C EXCEPT ![i] = p]
<1>1. Typed(M, P, C, N) /\ PathsPlaced(P, C, N)
  BY DEF Own
<1>2. Typed(M \cup {a}, Q, D, N)
  <2>1. a \in Madx
    BY Owners DEF Madx
  <2> HIDE DEF a
  <2> QED BY <1>1, <2>1 DEF Typed
<1>3. MadxOwned(M \cup {a}, Q, N)
  BY MadxWith
<1>4. /\ Q[p] = q /\ (\A r \in Paths : r # p => Q[r] = P[r])
      /\ D[i] = p /\ (\A j \in Slots : j # i => D[j] = C[j]) /\ i # -1 /\ p # NoPath
  BY <1>1, Places DEF Typed
<1>5. PathsPlaced(Q, D, N)
  <2> HIDE DEF Q, D
  <2>1. \A j \in Slots : C[j] # NoPath => j # i /\ C[j] # p /\ C[j] \in Paths
    BY <1>1 DEF PathsPlaced, Typed
  <2>2. \A j \in Slots : D[j] # NoPath => Q[D[j]].live /\ Q[D[j]].slot = j
    <3>1. ASSUME NEW j \in Slots, D[j] # NoPath, j # i PROVE Q[D[j]].live /\ Q[D[j]].slot = j
      BY <1>1, <1>4, <2>1, <3>1 DEF PathsPlaced
    <3> QED BY <1>4, <3>1
  <2>3. \A r \in Paths : Q[r].live /\ Q[r].slot # -1 => D[Q[r].slot] = r
    <3>1. ASSUME NEW r \in Paths, r # p, P[r].live, P[r].slot # -1 PROVE D[P[r].slot] = r
      <4>1. P[r].slot \in Slots /\ C[P[r].slot] = r /\ r # NoPath
        BY <1>1, <3>1, Places DEF PathsPlaced, Typed, Path
      <4> QED BY <4>1, <1>4
    <3> QED BY <1>4, <3>1
  <2>4. \A r \in Paths : Q[r].live /\ Q[r].slot = -1 => N.live /\ N.path = r
    BY <1>1, <1>4 DEF PathsPlaced
  <2>5. N.path # NoPath => N.live /\ Q[N.path].live /\ Q[N.path].slot = -1
    <3>1. N.path # NoPath => N.path \in Paths
      BY <1>1 DEF Typed, Conn
    <3> QED BY <1>1, <1>4, <3>1 DEF PathsPlaced
  <2>6. ASSUME NEW j \in Slots, NEW k \in Slots, D[j] # NoPath, D[k] # NoPath,
               Q[D[j]].gid = Q[D[k]].gid
        PROVE  j = k
    <3>1. CASE j = i
      BY <3>1, <1>4, <2>1, <2>6
    <3>2. CASE k = i
      BY <3>2, <1>4, <2>1, <2>6
    <3>3. CASE j # i /\ k # i
      BY <3>3, <1>1, <1>4, <2>1, <2>6 DEF PathsPlaced
    <3> QED BY <3>1, <3>2, <3>3
  <2> QED BY <2>2, <2>3, <2>4, <2>5, <2>6 DEF PathsPlaced
<1> QED BY <1>2, <1>3, <1>5 DEF Own

\* A path is made for a new connection.
LEMMA Connects ==
    ASSUME NEW M, NEW P, NEW C, NEW N, Own(M, P, C, N), NEW p \in Paths, ~P[p].live, ~N.live,
           NEW q \in Path, q.live, q.madx, q.slot = -1,
           NEW L \in Conn, L.live, L.path = p, ~L.madx
    PROVE  Own(M \cup {[owner |-> PathOwner(p), sent |-> FALSE]}, [P EXCEPT ![p] = q], C, L)
<1> DEFINE a == [owner |-> PathOwner(p), sent |-> FALSE]
           Q == [P EXCEPT ![p] = q]
<1>1. Typed(M, P, C, N) /\ PathsPlaced(P, C, N)
  BY DEF Own
<1>2. Typed(M \cup {a}, Q, C, L)
  <2>1. a \in Madx
    BY Owners DEF Madx
  <2> HIDE DEF a
  <2> QED BY <1>1, <2>1 DEF Typed
<1>3. MadxOwned(M \cup {a}, Q, L)
  BY MadxWith, Zenon
<1>4. Q[p] = q /\ \A r \in Paths : r # p => Q[r] = P[r]
  BY <1>1 DEF Typed
<1>5. PathsPlaced(Q, C, L)
  <2> HIDE DEF Q
  <2>1. \A j \in Slots : C[j] # NoPath => C[j] # p /\ C[j] \in Paths
    BY <1>1 DEF PathsPlaced, Typed
  <2>2. \A j \in Slots : C[j] # NoPath => Q[C[j]].live /\ Q[C[j]].slot = j
    BY <1>1, <1>4, <2>1 DEF PathsPlaced
  <2>3. \A r \in Paths : Q[r].live /\ Q[r].slot # -1 => C[Q[r].slot] = r
    BY <1>1, <1>4 DEF PathsPlaced
  <2>4. \A r \in Paths : Q[r].live /\ Q[r].slot = -1 => L.live /\ L.path = r
    BY <1>1, <1>4 DEF PathsPlaced
  <2>5. L.path # NoPath => L.live /\ Q[L.path].live /\ Q[L.path].slot = -1
    BY <1>4
  <2>6. \A j, k \in Slots :
           C[j] # NoPath /\ C[k] # NoPath /\ Q[C[j]].gid = Q[C[k]].gid => j = k
    BY <1>1, <1>4, <2>1 DEF PathsPlaced
  <2> QED BY <2>2, <2>3, <2>4, <2>5, <2>6 DEF PathsPlaced
<1> QED BY <1>2, <1>3, <1>5 DEF Own

\* A connection whose path is known gets a transaction for its request.
LEMMA Requested ==
    ASSUME NEW M, NEW P, NEW C, NEW N, Own(M, P, C, N), N.live, N.path = NoPath, ~N.madx
    PROVE  Own(M \cup {[owner |-> ConnOwner, sent |-> FALSE]}, P, C, [N EXCEPT !.madx = TRUE])
<1> DEFINE a == [owner |-> ConnOwner, sent |-> FALSE]
           L == [N EXCEPT !.madx = TRUE]
<1>1. Typed(M, P, C, N) /\ PathsPlaced(P, C, N) /\ MadxOwned(M, P, N)
  BY DEF Own
<1>2. L \in Conn /\ L.live = N.live /\ L.path = NoPath /\ L.madx
  BY <1>1, Zenon DEF Typed, Conn
<1>3. a \in Madx /\ a.owner = ConnOwner
  BY Owners DEF Madx
<1> HIDE DEF a, L
<1>4. \A m \in M : m.owner # ConnOwner
  BY <1>1, Owners DEF MadxOwned
<1>5. MadxOwned(M \cup {a}, P, L)
  <2>1. \A m, n \in M \cup {a} : m.owner = n.owner => m = n
    <3>1. \A m, n \in M : m.owner = n.owner => m = n
      BY <1>1 DEF MadxOwned
    <3> QED BY <1>3, <1>4, <3>1, Zenon
  <2>2. \A m \in M \cup {a} :
           \/ m.owner = ConnOwner /\ L.live /\ L.madx
           \/ \E r \in Paths : m.owner = PathOwner(r) /\ P[r].live /\ P[r].madx
    BY <1>1, <1>2, <1>3 DEF MadxOwned
  <2>3. \A r \in Paths : P[r].madx => P[r].live /\ \E m \in M \cup {a} : m.owner = PathOwner(r)
    BY <1>1 DEF MadxOwned
  <2> QED BY <1>2, <1>3, <2>1, <2>2, <2>3 DEF MadxOwned
<1>6. PathsPlaced(P, C, L)
  BY <1>1, <1>2 DEF PathsPlaced
<1>7. Typed(M \cup {a}, P, C, L)
  BY <1>1, <1>2, <1>3 DEF Typed
<1> QED BY <1>5, <1>6, <1>7 DEF Own, a, L

\* The connection's transaction goes.
LEMMA RequestGone ==
    ASSUME NEW M, NEW P, NEW C, NEW N, Own(M, P, C, N),
           NEW L \in Conn, L.live = N.live, L.path = N.path, ~L.madx
    PROVE  Own(Without(M, ConnOwner), P, C, L)
<1> DEFINE R == Without(M, ConnOwner)
<1>1. Typed(M, P, C, N) /\ PathsPlaced(P, C, N) /\ MadxOwned(M, P, N)
  BY DEF Own
<1>2. R \subseteq M /\ (\A m \in M : m.owner # ConnOwner => m \in R)
      /\ \A m \in R : m.owner # ConnOwner
  BY DEF Without
<1> HIDE DEF R
<1>3. MadxOwned(R, P, L)
  <2>1. \A m \in R : \E r \in Paths : m.owner = PathOwner(r) /\ P[r].live /\ P[r].madx
    BY <1>1, <1>2, Zenon DEF MadxOwned
  <2>2. \A m, n \in R : m.owner = n.owner => m = n
    BY <1>1, <1>2, ZenonT(60) DEF MadxOwned
  <2>3. ASSUME NEW r \in Paths, P[r].madx
        PROVE  P[r].live /\ \E m \in R : m.owner = PathOwner(r)
    <3>1. PICK m \in M : m.owner = PathOwner(r)
      BY <1>1, <2>3 DEF MadxOwned
    <3> QED BY <1>1, <1>2, <2>3, <3>1, Owners DEF MadxOwned
  <2> QED BY <2>1, <2>2, <2>3 DEF MadxOwned
<1>4. PathsPlaced(P, C, L)
  BY <1>1 DEF PathsPlaced
<1>5. Typed(R, P, C, L)
  BY <1>1, <1>2 DEF Typed
<1> QED BY <1>3, <1>4, <1>5 DEF Own, R

\* What is not about ownership may change, and a connection that has nothing
\* may go.
LEMMA ConnChanges ==
    ASSUME NEW M, NEW P, NEW C, NEW N, Own(M, P, C, N),
           NEW L \in Conn, L.path = N.path, L.madx = N.madx,
           L.live = N.live \/ (N.path = NoPath /\ ~N.madx)
    PROVE  Own(M, P, C, L)
<1>1. Typed(M, P, C, N) /\ PathsPlaced(P, C, N) /\ MadxOwned(M, P, N)
  BY DEF Own
<1>2. Typed(M, P, C, L)
  BY <1>1 DEF Typed
<1>3. MadxOwned(M, P, L)
  BY <1>1 DEF MadxOwned
<1>4. PathsPlaced(P, C, L)
  <2>1. \A p \in Paths : P[p].live /\ P[p].slot = -1 => L.live /\ L.path = p
    BY <1>1, Places DEF PathsPlaced
  <2>2. L.path # NoPath => L.live /\ P[L.path].live /\ P[L.path].slot = -1
    BY <1>1 DEF PathsPlaced
  <2> QED BY <1>1, <2>1, <2>2 DEF PathsPlaced
<1> QED BY <1>2, <1>3, <1>4 DEF Own

\* A connection that has nothing may go.
LEMMA ConnFreed ==
    ASSUME NEW M, NEW P, NEW C, NEW N, Own(M, P, C, N), N.path = NoPath, ~N.madx
    PROVE  Own(M, P, C, NoConn)
<1>1. Typed(M, P, C, N) /\ PathsPlaced(P, C, N) /\ MadxOwned(M, P, N)
  BY DEF Own
<1>2. Typed(M, P, C, NoConn)
  BY <1>1, Places DEF Typed
<1>3. MadxOwned(M, P, NoConn)
  BY <1>1, Places DEF MadxOwned
<1>4. \A p \in Paths : ~(P[p].live /\ P[p].slot = -1)
  BY <1>1, Places DEF PathsPlaced
<1>5. PathsPlaced(P, C, NoConn)
  BY <1>1, <1>4, Places DEF PathsPlaced
<1> QED BY <1>2, <1>3, <1>5 DEF Own

\* A request is sent, or sent again.
LEMMA Sent ==
    ASSUME NEW M, NEW P, NEW C, NEW N, Own(M, P, C, N), NEW m \in M
    PROVE  Own((M \ {m}) \cup {[m EXCEPT !.sent = TRUE]}, P, C, N)
<1> DEFINE a == [m EXCEPT !.sent = TRUE]
           R == (M \ {m}) \cup {a}
<1>1. Typed(M, P, C, N) /\ PathsPlaced(P, C, N) /\ MadxOwned(M, P, N)
  BY DEF Own
<1>2. a \in Madx /\ a.owner = m.owner
  BY <1>1, Zenon DEF Typed, Madx
<1> HIDE DEF a
<1>3. Typed(R, P, C, N)
  BY <1>1, <1>2 DEF Typed
<1>4. (\A n \in R : n = a \/ (n \in M /\ n # m)) /\ a \in R /\ \A n \in M : n # m => n \in R
  OBVIOUS
<1> HIDE DEF R
<1>5. \A n \in R : \E k \in M : k.owner = n.owner
  BY <1>2, <1>4
<1>6. \A k \in M : \E n \in R : n.owner = k.owner
  BY <1>2, <1>4
<1>7. \A n, k \in R : n.owner = k.owner => n = k
  <2>1. \A n, k \in M : n.owner = k.owner => n = k
    BY <1>1 DEF MadxOwned
  <2> QED BY <1>2, <1>4, <2>1, Zenon
<1>8. \A n \in R : \/ n.owner = ConnOwner /\ N.live /\ N.madx
                   \/ \E r \in Paths : n.owner = PathOwner(r) /\ P[r].live /\ P[r].madx
  <2>1. \A n \in M : \/ n.owner = ConnOwner /\ N.live /\ N.madx
                     \/ \E r \in Paths : n.owner = PathOwner(r) /\ P[r].live /\ P[r].madx
    BY <1>1 DEF MadxOwned
  <2> QED BY <1>5, <2>1
<1>9. MadxOwned(R, P, N)
  <2>1. \A r \in Paths : P[r].madx => P[r].live /\ \E n \in R : n.owner = PathOwner(r)
    BY <1>1, <1>6 DEF MadxOwned
  <2>2. N.madx => N.live /\ N.path = NoPath /\ \E n \in R : n.owner = ConnOwner
    BY <1>1, <1>6 DEF MadxOwned
  <2> QED BY <1>7, <1>8, <2>1, <2>2 DEF MadxOwned
<1> QED BY <1>1, <1>3, <1>9 DEF Own, a, R

Lookups(P) == {p \in Paths : P[p].live /\ P[p].madx /\ P[p].slot # -1}
OtherMadx(M, K) == {m \in M : m.owner \notin {PathOwner(p) : p \in K}}
OtherPaths(P, K) == [p \in Paths |-> IF p \in K THEN NewPath ELSE P[p]]
OtherSlots(C, K) == [i \in Slots |-> IF C[i] \in K THEN NoPath ELSE C[i]]

\* Without a connection, every transaction is that of a lookup for the cache;
\* when the device is closed for good they are all cancelled.
LEMMA AllCancelled ==
    ASSUME NEW M, NEW P, NEW C, NEW N, Own(M, P, C, N), ~N.live
    PROVE  /\ OtherMadx(M, Lookups(P)) = {}
           /\ Own({}, OtherPaths(P, Lookups(P)), OtherSlots(C, Lookups(P)), N)
<1> DEFINE K == Lookups(P)
           Q == OtherPaths(P, K)
           D == OtherSlots(C, K)
<1>1. Typed(M, P, C, N) /\ PathsPlaced(P, C, N) /\ MadxOwned(M, P, N)
  BY DEF Own
<1>2. \A p \in Paths : P[p].live /\ P[p].madx => p \in K
  BY <1>1 DEF PathsPlaced, Lookups
<1>3. OtherMadx(M, K) = {}
  <2> HIDE DEF K
  <2> SUFFICES ASSUME NEW m \in M PROVE \E p \in K : m.owner = PathOwner(p)
    BY DEF OtherMadx
  <2>1. PICK p \in Paths : m.owner = PathOwner(p) /\ P[p].live /\ P[p].madx
    BY <1>1 DEF MadxOwned
  <2> QED BY <2>1, <1>2
<1>4. Typed({}, Q, D, N)
  BY <1>1, Places DEF Typed, OtherPaths, OtherSlots
<1>5. /\ \A p \in Paths : Q[p].live => p \notin K /\ Q[p] = P[p]
      /\ \A p \in Paths : ~Q[p].madx
      /\ \A i \in Slots : D[i] # NoPath => D[i] = C[i] /\ C[i] \in Paths /\ Q[C[i]] = P[C[i]]
  <2>1. \A p \in Paths : P[p].madx => P[p].live
    BY <1>1 DEF MadxOwned
  <2>2. \A p \in Paths : Q[p] = IF p \in K THEN NewPath ELSE P[p]
    BY DEF OtherPaths
  <2>3. \A i \in Slots : D[i] = IF C[i] \in K THEN NoPath ELSE C[i]
    BY DEF OtherSlots
  <2>4. \A i \in Slots : C[i] # NoPath => C[i] \in Paths
    BY <1>1 DEF Typed
  <2> HIDE DEF K, Q, D
  <2> QED BY <1>2, <2>1, <2>2, <2>3, <2>4, Places, Zenon
<1>6. \A i \in Slots : C[i] # NoPath /\ C[i] \notin K => D[i] = C[i]
  BY DEF OtherSlots
<1> HIDE DEF K, Q, D
<1>7. MadxOwned({}, Q, N)
  BY <1>1, <1>5 DEF MadxOwned
<1>8. PathsPlaced(Q, D, N)
  <2>1. \A i \in Slots : D[i] # NoPath => Q[D[i]].live /\ Q[D[i]].slot = i
    BY <1>1, <1>5 DEF PathsPlaced
  <2>2. ASSUME NEW p \in Paths, Q[p].live, Q[p].slot # -1 PROVE D[Q[p].slot] = p
    <3>1. Q[p] = P[p] /\ p \notin K
      BY <1>5, <2>2
    <3>2. P[p].slot \in Slots /\ C[P[p].slot] = p
      BY <1>1, <2>2, <3>1 DEF PathsPlaced, Typed, Path
    <3> QED BY <1>6, <3>1, <3>2, Places
  <2>3. \A p \in Paths : Q[p].live /\ Q[p].slot = -1 => N.live /\ N.path = p
    BY <1>1, <1>5 DEF PathsPlaced
  <2>4. N.path = NoPath
    BY <1>1 DEF PathsPlaced
  <2>5. \A i, j \in Slots :
           D[i] # NoPath /\ D[j] # NoPath /\ Q[D[i]].gid = Q[D[j]].gid => i = j
    BY <1>1, <1>5 DEF PathsPlaced
  <2> QED BY <2>1, <2>2, <2>3, <2>4, <2>5 DEF PathsPlaced
<1> QED BY <1>3, <1>4, <1>7, <1>8 DEF Own, Q, D, K

-----------------------------------------------------------------------------
(* The inductive invariant: ownership, and what the reliable connection    *)
(* and the other users say of the open count.                              *)

Counts(s) ==
    /\ s.open_count = s.users + (IF s.cmrc.state = "up" THEN 1 ELSE 0)
    /\ s.open_count = 0 => s.madx = {}
    /\ s.conn.live => s.cmrc.state = "up"
    /\ s.cmrc.xfer => s.cmrc.state = "up" /\ ~s.cmrc.shutdown
    /\ s.cmrc.shutdown => s.cmrc.state # "none"

IbInv(s) == s \in Device /\ Own(s.madx, s.path, s.cache, s.conn) /\ Counts(s)

\* What an operation on transactions and paths leaves alone, and what one on
\* the reliable connection does.
Outside(s, t) == t.cmrc = s.cmrc /\ t.open_count = s.open_count /\ t.users = s.users
Inside(s, t) ==
    /\ t.madx = s.madx /\ t.path = s.path /\ t.cache = s.cache /\ t.conn = s.conn
    /\ t.open_count = s.open_count /\ t.users = s.users /\ t.cmrc.state = s.cmrc.state

\* Closing the reliable connection's interface, ib_cmrc_close().
LEMMA CmrcCloses ==
    ASSUME NEW s, IbInv(s), s.cmrc.state # "none"
    PROVE  IbInv(ib_cmrc_close(s)) /\ Inside(s, ib_cmrc_close(s))
<1> DEFINE t == ib_cmrc_close(s)
<1>1. t \in Device /\ Inside(s, t) /\ ~t.cmrc.xfer
  BY Zenon DEF IbInv, Device, Cmrc, ib_cmrc_close, Inside
<1> HIDE DEF t
<1>2. IbInv(t)
  BY <1>1 DEF IbInv, Counts, Inside
<1> QED BY <1>1, <1>2 DEF t

\* A change of the connection reported to it, ib_cmrc_changed().
LEMMA CmrcChanges ==
    ASSUME NEW s, IbInv(s), s.cmrc.state # "none", NEW ok \in BOOLEAN, NEW private \in BOOLEAN,
           NEW fault
    PROVE  /\ IbInv(ib_cmrc_changed(s, ok, private, fault))
           /\ Inside(s, ib_cmrc_changed(s, ok, private, fault))
<1> DEFINE t == [s EXCEPT !.cmrc.connected = ok]
           u == ib_cmrc_changed(s, ok, private, fault)
<1>1. /\ t \in Device /\ Inside(s, t) /\ t.cmrc.xfer = s.cmrc.xfer
      /\ t.cmrc.shutdown = s.cmrc.shutdown
  BY DEF IbInv, Device, Cmrc, Inside
<1>2. u = t \/ u = ib_cmrc_close(t)
  BY DEF ib_cmrc_changed
<1> HIDE DEF t, u
<1>3. IbInv(t) /\ t.cmrc.state # "none"
  BY <1>1 DEF IbInv, Counts, Inside
<1>4. IbInv(u) /\ Inside(s, u)
  BY <1>1, <1>2, <1>3, CmrcCloses DEF Inside
<1> QED BY <1>4 DEF u

Destroyed(s, p, t) ==
    /\ t \in Device /\ Outside(s, t) /\ t.cache = s.cache /\ t.conn = s.conn
    /\ t.madx = Without(s.madx, PathOwner(p)) /\ t.path = [s.path EXCEPT ![p] = NewPath]

\* ib_destroy_path() takes the transaction along, if there is one.
LEMMA PathDestroyed ==
    ASSUME NEW s, s \in Device, MadxOwned(s.madx, s.path, s.conn), NEW p \in Paths
    PROVE  Destroyed(s, p, ib_destroy_path(s, p))
<1> DEFINE t == ib_destroy_path(s, p)
<1>1. CASE s.path[p].madx
  <2>1. t = [s EXCEPT !.madx = Without(s.madx, PathOwner(p)), !.path[p] = NewPath]
    BY <1>1 DEF ib_destroy_path, ib_destroy_madx, Without, Device
  <2>2. Without(s.madx, PathOwner(p)) \in SUBSET Madx
    BY DEF Without, Device
  <2>3. [s.path EXCEPT ![p] = NewPath] \in [Paths -> Path]
    BY Places DEF Device
    <2> QED BY <2>1, <2>2, <2>3, ZenonT(60) DEF Device, Outside, Destroyed
<1>2. CASE ~s.path[p].madx
  <2>1. t = [s EXCEPT !.path[p] = NewPath]
    BY <1>2 DEF ib_destroy_path
  <2>2. \A m \in s.madx : m.owner # PathOwner(p)
    BY <1>2, Owners DEF MadxOwned
  <2>3. s.madx = Without(s.madx, PathOwner(p))
    BY <2>2 DEF Without
  <2>4. t.madx = s.madx
    BY <2>1 DEF Device
    <2> QED BY <2>1, <2>3, <2>4, Places DEF Device, Outside, Destroyed
<1> QED BY <1>1, <1>2

\* The invariant of a state with the same open count and the same or fewer
\* transactions.
LEMMA StillCounts ==
    ASSUME NEW s, IbInv(s), NEW t, t \in Device, Own(t.madx, t.path, t.cache, t.conn),
           Outside(s, t), t.conn.live => s.conn.live,
           s.open_count # 0 \/ t.madx \subseteq s.madx
    PROVE  IbInv(t)
BY DEF IbInv, Counts, Outside

\* ib_cached_path_complete() of a lookup that failed, and any other eviction.
LEMMA Evicted ==
    ASSUME NEW s, IbInv(s), NEW i \in Slots, s.cache[i] # NoPath,
           NEW t, t = [ib_destroy_path(s, s.cache[i]) EXCEPT !.cache[i] = NoPath]
    PROVE  /\ IbInv(t) /\ Outside(s, t) /\ t.conn = s.conn /\ t.cache_idx = s.cache_idx
           /\ t.cache = [s.cache EXCEPT ![i] = NoPath]
<1> DEFINE p == s.cache[i]
           u == ib_destroy_path(s, p)
<1>1. /\ s \in Device /\ Own(s.madx, s.path, s.cache, s.conn)
      /\ MadxOwned(s.madx, s.path, s.conn) /\ p \in Paths
  BY DEF IbInv, Own, Device
<1>2. /\ u \in Device /\ Outside(s, u) /\ u.cache = s.cache /\ u.conn = s.conn
      /\ u.madx = Without(s.madx, PathOwner(p))
      /\ u.path = [s.path EXCEPT ![p] = NewPath]
  BY <1>1, PathDestroyed DEF Destroyed
<1>3. u.cache_idx = s.cache_idx
  BY <1>1 DEF ib_destroy_path, ib_destroy_madx, Device
<1>4. t = [u EXCEPT !.cache[i] = NoPath]
  OBVIOUS
<1> HIDE DEF u
<1>5. /\ t \in Device /\ Outside(s, t) /\ t.madx = u.madx /\ t.path = u.path /\ t.conn = u.conn
      /\ t.cache = [s.cache EXCEPT ![i] = NoPath] /\ t.cache_idx = s.cache_idx
  BY <1>2, <1>3, <1>4 DEF Device, Outside
<1>6. Own(t.madx, t.path, t.cache, t.conn)
  <2>1. Own(Without(s.madx, PathOwner(p)), [s.path EXCEPT ![p] = NewPath],
            [s.cache EXCEPT ![i] = NoPath], s.conn)
    BY <1>1, Uncached
  <2> QED BY <1>2, <1>5, <2>1
<1>7. t.madx \subseteq s.madx
  BY <1>2, <1>5 DEF Without
<1> QED BY <1>2, <1>5, <1>6, <1>7, StillCounts, Zenon

\* The connection's path is destroyed.
LEMMA ConnPathDestroyed ==
    ASSUME NEW s, IbInv(s), s.conn.path # NoPath,
           NEW t, t = [ib_destroy_path(s, s.conn.path) EXCEPT !.conn.path = NoPath]
    PROVE  /\ IbInv(t) /\ Outside(s, t) /\ t.cache = s.cache
           /\ t.madx = Without(s.madx, PathOwner(s.conn.path))
           /\ t.path = [s.path EXCEPT ![s.conn.path] = NewPath]
           /\ t.conn = [s.conn EXCEPT !.path = NoPath]
<1> DEFINE p == s.conn.path
           u == ib_destroy_path(s, p)
<1>1. /\ s \in Device /\ Own(s.madx, s.path, s.cache, s.conn)
      /\ MadxOwned(s.madx, s.path, s.conn) /\ p \in Paths /\ s.conn \in Conn
  BY DEF IbInv, Own, Device, Conn
<1>2. /\ u \in Device /\ Outside(s, u) /\ u.cache = s.cache /\ u.conn = s.conn
      /\ u.madx = Without(s.madx, PathOwner(p))
      /\ u.path = [s.path EXCEPT ![p] = NewPath]
  BY <1>1, PathDestroyed DEF Destroyed
<1>3. t = [u EXCEPT !.conn.path = NoPath]
  OBVIOUS
<1> HIDE DEF u
<1>4. /\ t \in Device /\ Outside(s, t) /\ t.madx = u.madx /\ t.path = u.path
      /\ t.cache = u.cache /\ t.conn = [s.conn EXCEPT !.path = NoPath]
  BY <1>1, <1>2, <1>3 DEF Device, Outside, Conn
<1>5. Own(t.madx, t.path, t.cache, t.conn)
  <2>1. Own(Without(s.madx, PathOwner(p)), [s.path EXCEPT ![p] = NewPath], s.cache,
            [s.conn EXCEPT !.path = NoPath])
    BY <1>1, ConnPathGone
  <2> QED BY <1>2, <1>4, <2>1
<1>6. t.madx \subseteq s.madx /\ t.conn.live = s.conn.live
  BY <1>1, <1>2, <1>4 DEF Without, Conn
<1> QED BY <1>2, <1>4, <1>5, <1>6, StillCounts, Zenon

-----------------------------------------------------------------------------
(* Completions of transactions.                                            *)

Told(s, p, ok) == [ib_destroy_madx(s, PathOwner(p)) EXCEPT !.path[p].madx = FALSE,
                                                           !.path[p].lid = ok]

\* ib_path_complete() takes the transaction away before it tells the owner.
LEMMA PathTold ==
    ASSUME NEW s, IbInv(s), NEW p \in Paths, NEW ok \in BOOLEAN, NEW t, t = Told(s, p, ok)
    PROVE  /\ IbInv(t) /\ Outside(s, t) /\ t.cache = s.cache /\ t.conn = s.conn
           /\ ~t.path[p].madx /\ t.path[p].live = s.path[p].live
           /\ t.path[p].slot = s.path[p].slot
<1> DEFINE q == [s.path[p] EXCEPT !.madx = FALSE, !.lid = ok]
<1>1. s \in Device /\ Own(s.madx, s.path, s.cache, s.conn) /\ s.path[p] \in Path
  BY DEF IbInv, Device
<1>2. q \in Path /\ ~q.madx /\ q.live = s.path[p].live /\ q.slot = s.path[p].slot
  BY <1>1, Zenon DEF Path
<1>3. t = [s EXCEPT !.madx = Without(s.madx, PathOwner(p)), !.path = [s.path EXCEPT ![p] = q]]
  BY <1>1, ZenonT(90) DEF Told, ib_destroy_madx, Without, Device, Path
<1>4. Own(Without(s.madx, PathOwner(p)), [s.path EXCEPT ![p] = q], s.cache, s.conn)
  BY <1>1, LookedUp, Zenon
<1> HIDE DEF q
<1>5. Without(s.madx, PathOwner(p)) \in SUBSET Madx
  BY <1>1 DEF Without, Device
<1>6. [s.path EXCEPT ![p] = q] \in [Paths -> Path] /\ [s.path EXCEPT ![p] = q][p] = q
  BY <1>1, <1>2 DEF Device
<1>7. /\ t \in Device /\ Outside(s, t) /\ t.cache = s.cache /\ t.conn = s.conn
      /\ t.madx = Without(s.madx, PathOwner(p)) /\ t.path = [s.path EXCEPT ![p] = q]
  BY <1>1, <1>3, <1>5, <1>6, ZenonT(60) DEF Device, Outside
<1>8. t.madx \subseteq s.madx
  BY <1>7 DEF Without
<1>9. IbInv(t)
  BY <1>4, <1>7, <1>8, StillCounts
<1> QED BY <1>2, <1>6, <1>7, <1>9

\* ib_cm_path_complete(), with the request created or the failure reported.
LEMMA CmPathCompletes ==
    ASSUME NEW s, IbInv(s), s.conn.path # NoPath, ~s.path[s.conn.path].madx,
           NEW ok \in BOOLEAN, NEW fault
    PROVE  IbInv(ib_cm_path_complete(s, s.conn.path, ok, fault))
<1> DEFINE p == s.conn.path
           a == [owner |-> ConnOwner, sent |-> FALSE]
           w == [ib_destroy_path(s, p) EXCEPT !.conn.path = NoPath]
           r == ib_cm_path_complete(s, p, ok, fault)
           after(t) == [ib_destroy_path(t, p) EXCEPT !.conn.path = NoPath]
           c == ib_cmrc_changed(s, ok, FALSE, fault)
           u == [ib_create_madx(s, ConnOwner) EXCEPT !.conn.madx = TRUE]
<1>1. /\ s \in Device /\ Own(s.madx, s.path, s.cache, s.conn) /\ s.conn \in Conn /\ p \in Paths
      /\ s.conn.live /\ ~s.conn.madx
  BY ZenonT(90) DEF IbInv, Own, PathsPlaced, MadxOwned, Device, Conn
<1>2. s.cmrc.state = "up" /\ s.open_count # 0
  BY <1>1 DEF IbInv, Counts, Device
<1>3. CASE r = after(c)
  <2>1. IbInv(c) /\ c.conn = s.conn
    <3>1. s.cmrc.state # "none" /\ FALSE \in BOOLEAN
      BY <1>2
    <3>2. IbInv(c) /\ Inside(s, c)
      BY <3>1, CmrcChanges, Zenon
    <3> HIDE DEF c
    <3> QED BY <3>2 DEF Inside
  <2> HIDE DEF c
  <2>2. IbInv(after(c))
    BY <2>1, ConnPathDestroyed, ZenonT(90)
  <2> QED BY <1>3, <2>2
<1>4. CASE r = after(u)
  <2>1. /\ IbInv(w) /\ Outside(s, w) /\ w.cache = s.cache
        /\ w.madx = Without(s.madx, PathOwner(p))
        /\ w.path = [s.path EXCEPT ![p] = NewPath]
        /\ w.conn = [s.conn EXCEPT !.path = NoPath]
    BY ConnPathDestroyed, Zenon
  <2>2. s.madx = Without(s.madx, PathOwner(p))
    <3>1. \A m \in s.madx : m.owner # PathOwner(p)
      BY <1>1, Owners DEF Own, MadxOwned
    <3> QED BY <3>1 DEF Without
  <2>3. a \in Madx
    BY Owners DEF Madx
  <2>4. /\ u.path = s.path /\ u.madx = s.madx \cup {a} /\ u \in Device
        /\ u.conn = [s.conn EXCEPT !.madx = TRUE] /\ u.cache = s.cache /\ Outside(s, u)
    <3> HIDE DEF a
    <3>1. ib_create_madx(s, ConnOwner) = [s EXCEPT !.madx = s.madx \cup {a}]
      BY <1>1 DEF ib_create_madx, Device, a
    <3>2. s.madx \cup {a} \in SUBSET Madx
      BY <1>1, <2>3 DEF Device
    <3> QED BY <1>1, <3>1, <3>2, ZenonT(60) DEF Device, Conn, Outside
  <2> HIDE DEF a, u, w
  <2>5. after(u) = [u EXCEPT !.path = [s.path EXCEPT ![p] = NewPath],
                            !.conn = [s.conn EXCEPT !.madx = TRUE, !.path = NoPath]]
    <3>1. ib_destroy_path(u, p) = [u EXCEPT !.path[p] = NewPath]
      BY <2>4 DEF ib_destroy_path
    <3> QED BY <1>1, <2>4, <3>1, ZenonT(90) DEF Device, Conn
  <2>6. [s.conn EXCEPT !.madx = TRUE, !.path = NoPath] = [w.conn EXCEPT !.madx = TRUE]
    BY <1>1, <2>1, Zenon DEF Conn
  <2>7. w \in Device /\ w.conn.live /\ w.conn.path = NoPath /\ ~w.conn.madx
        /\ Own(w.madx, w.path, w.cache, w.conn) /\ [w.conn EXCEPT !.madx = TRUE].live
        /\ [w.conn EXCEPT !.madx = TRUE] \in Conn
    BY <1>1, <2>1, Zenon DEF Conn, IbInv, Device
  <2>8. Own(w.madx \cup {a}, w.path, w.cache, [w.conn EXCEPT !.madx = TRUE])
    BY <2>7, Requested DEF a
  <2>9. /\ after(u) \in Device /\ after(u).madx = w.madx \cup {a} /\ after(u).path = w.path
        /\ after(u).cache = w.cache /\ after(u).conn = [w.conn EXCEPT !.madx = TRUE]
        /\ Outside(s, after(u))
    <3>1. w.path \in [Paths -> Path]
      BY <2>7 DEF Device
    <3>2. after(u) = [u EXCEPT !.path = w.path, !.conn = [w.conn EXCEPT !.madx = TRUE]]
      BY <2>1, <2>5, <2>6, Zenon
    <3> DEFINE v == after(u)
               L == [w.conn EXCEPT !.madx = TRUE]
    <3>3. L \in Conn /\ v = [u EXCEPT !.path = w.path, !.conn = L]
      BY <2>7, <3>2
    <3> HIDE DEF v, L, after
    <3>4. /\ v \in Device /\ v.madx = u.madx /\ v.path = w.path /\ v.cache = u.cache /\ v.conn = L
          /\ Outside(u, v)
      BY <2>4, <3>1, <3>3, Zenon DEF Device, Outside
    <3>5. v.madx = w.madx \cup {a} /\ v.cache = w.cache /\ Outside(s, v)
      BY <2>1, <2>2, <2>4, <3>4 DEF Outside
    <3> QED BY <3>4, <3>5 DEF v, L
  <2> HIDE DEF after
  <2>10. IbInv(after(u))
    BY <1>1, <1>2, <2>7, <2>8, <2>9, StillCounts, ZenonT(60)
  <2> QED BY <1>4, <2>10
<1> QED BY <1>3, <1>4, ZenonT(60) DEF ib_cm_path_complete

\* ib_path_complete() for the owner of the path, the cache or the connection.
LEMMA PathCompletes ==
    ASSUME NEW s, IbInv(s), NEW p \in Paths, s.path[p].live, NEW ok \in BOOLEAN, NEW fault
    PROVE  IbInv(ib_path_complete(s, p, ok, fault))
<1> DEFINE t == Told(s, p, ok)
           i == t.path[p].slot
<1>1. t = Told(s, p, ok)
  OBVIOUS
<1>2. ib_path_complete(s, p, ok, fault) =
         IF s.path[p].slot # -1 THEN ib_cached_path_complete(t, p, ok)
         ELSE ib_cm_path_complete(t, p, ok, fault)
  BY DEF ib_path_complete, Told
<1> HIDE DEF t
<1>3. /\ IbInv(t) /\ t.cache = s.cache /\ t.conn = s.conn /\ ~t.path[p].madx
      /\ t.path[p].live = s.path[p].live /\ t.path[p].slot = s.path[p].slot
  <2>1. IbInv(t) /\ t.cache = s.cache /\ t.conn = s.conn
    BY <1>1, PathTold
  <2>2. ~t.path[p].madx
    BY <1>1, PathTold
  <2>3. t.path[p].live = s.path[p].live
    BY <1>1, PathTold, ZenonT(90)
  <2>4. t.path[p].slot = s.path[p].slot
    BY <1>1, PathTold
  <2> QED BY <2>1, <2>2, <2>3, <2>4
<1>4. PathsPlaced(t.path, t.cache, t.conn) /\ t.path[p] \in Path /\ t.path[p].live
  BY <1>3 DEF IbInv, Own, Device
<1>5. CASE s.path[p].slot # -1 /\ ok
  BY <1>3, <1>2, <1>5 DEF ib_cached_path_complete
<1>6. CASE s.path[p].slot # -1 /\ ~ok
  <2>1. i \in Slots /\ t.cache[i] = p /\ p # NoPath
    BY ZenonT(90), <1>3, <1>4, <1>6, Places DEF PathsPlaced, Path
  <2>2. ib_path_complete(s, p, ok, fault) = [ib_destroy_path(t, p) EXCEPT !.cache[i] = NoPath]
    BY <1>2, <1>6 DEF ib_cached_path_complete
  <2> HIDE DEF i
  <2>3. IbInv([ib_destroy_path(t, t.cache[i]) EXCEPT !.cache[i] = NoPath])
    BY <1>3, <2>1, Evicted, Zenon
  <2> QED BY <2>1, <2>2, <2>3
<1>7. CASE s.path[p].slot = -1
  <2>1. t.conn.path = p /\ p # NoPath
    BY <1>3, <1>4, <1>7, Places DEF PathsPlaced
  <2>2. ~t.path[t.conn.path].madx /\ t.conn.path # NoPath
    BY <1>3, <2>1
  <2>3. IbInv(ib_cm_path_complete(t, t.conn.path, ok, fault))
    BY <1>3, <2>2, CmPathCompletes, Zenon
  <2> QED BY <1>2, <1>7, <2>1, <2>3
<1> QED BY <1>5, <1>6, <1>7

\* ib_cm_req_complete().
LEMMA ReqCompletes ==
    ASSUME NEW s, IbInv(s), s.conn.live, NEW reply, NEW fault
    PROVE  IbInv(ib_cm_req_complete(s, reply, fault))
<1> DEFINE ok == reply = "rep" /\ fault # "modify"
           private == reply \in {"rep", "consumer"}
           L == [s.conn EXCEPT !.madx = FALSE, !.established = ok]
           t == [ib_destroy_madx(s, ConnOwner) EXCEPT !.conn.madx = FALSE,
                                                      !.conn.established = ok]
<1>1. s \in Device /\ Own(s.madx, s.path, s.cache, s.conn) /\ s.conn \in Conn
  BY DEF IbInv, Device
<1>2. ok \in BOOLEAN /\ private \in BOOLEAN
  OBVIOUS
<1>3. ib_cm_req_complete(s, reply, fault) = ib_cmrc_changed(t, ok, private, fault)
  BY DEF ib_cm_req_complete
<1> HIDE DEF ok, private
<1>4. L \in Conn /\ L.live = s.conn.live /\ L.path = s.conn.path /\ ~L.madx
  BY <1>1, <1>2, Zenon DEF Conn
<1>5. t = [s EXCEPT !.madx = Without(s.madx, ConnOwner), !.conn = L]
  BY <1>1, Zenon DEF ib_destroy_madx, Without, Device, Conn
<1>6. Own(Without(s.madx, ConnOwner), s.path, s.cache, L)
  BY <1>1, <1>4, RequestGone, Zenon
<1>7. Without(s.madx, ConnOwner) \in SUBSET Madx
  BY <1>1 DEF Without, Device
<1> HIDE DEF L, t
<1>8. /\ t \in Device /\ t.madx = Without(s.madx, ConnOwner) /\ t.conn = L /\ t.path = s.path
      /\ t.cache = s.cache /\ Outside(s, t)
  BY <1>1, <1>4, <1>5, <1>7, Zenon DEF Device, Outside
<1>9. t.madx \subseteq s.madx
  BY <1>8 DEF Without
<1>10. IbInv(t)
  BY <1>4, <1>6, <1>8, <1>9, StillCounts
<1>11. t.cmrc.state # "none"
  BY <1>8 DEF IbInv, Counts, Outside
<1>12. IbInv(ib_cmrc_changed(t, ok, private, fault))
  BY <1>2, <1>10, <1>11, CmrcChanges, Zenon
<1> QED BY <1>3, <1>12

\* A transaction completes, whoever owns it.
LEMMA Completes ==
    ASSUME NEW s, IbInv(s), NEW m \in s.madx, NEW reply, NEW fault
    PROVE  IbInv(Complete(s, m.owner, reply, fault))
<1>1. CASE m.owner = ConnOwner
  <2>1. s.conn.live
    BY Zenon, <1>1, Owners DEF IbInv, Own, MadxOwned
  <2>2. IbInv(ib_cm_req_complete(s, reply, fault))
    BY <2>1, ReqCompletes
  <2> QED BY <1>1, <2>2 DEF Complete
<1>2. CASE m.owner # ConnOwner
  <2>1. PICK p \in Paths : m.owner = PathOwner(p) /\ s.path[p].live
    BY ZenonT(60), <1>2 DEF IbInv, Own, MadxOwned
  <2>2. m.owner.id = p
    BY <2>1 DEF PathOwner
  <2> DEFINE ok == reply = "ok"
  <2>3. ok \in BOOLEAN
    OBVIOUS
  <2>4. Complete(s, m.owner, reply, fault) = ib_path_complete(s, p, ok, fault)
    BY <1>2, <2>2 DEF Complete
  <2> HIDE DEF ok
  <2>5. IbInv(ib_path_complete(s, p, ok, fault))
    BY <2>1, <2>3, PathCompletes
  <2> QED BY <2>4, <2>5
<1> QED BY <1>1, <1>2

-----------------------------------------------------------------------------
(* Paths and connections are created.                                      *)

Fresh(gid, slot) == [live |-> TRUE, gid |-> gid, lid |-> FALSE, madx |-> TRUE, slot |-> slot]
Lookup(p) == [owner |-> PathOwner(p), sent |-> FALSE]
Created(s, p, gid, slot, t) ==
    /\ p \in Paths /\ ~s.path[p].live
    /\ t \in Device /\ Outside(s, t) /\ t.cache = s.cache /\ t.conn = s.conn
    /\ t.madx = s.madx \cup {Lookup(p)} /\ t.path = [s.path EXCEPT ![p] = Fresh(gid, slot)]

\* ib_create_path() in free memory.
LEMMA PathCreated ==
    ASSUME NEW s, s \in Device, \E p \in Paths : ~s.path[p].live,
           NEW gid \in Gids, NEW slot \in Slots \cup {-1}
    PROVE  Created(s, Free(s), gid, slot, ib_create_path(s, gid, slot))
<1> DEFINE t == ib_create_path(s, gid, slot)
           p == Free(s)
           q == Fresh(gid, slot)
           a == Lookup(p)
<1>1. p \in Paths /\ ~s.path[p].live
  BY DEF Free
<1>2. t = [s EXCEPT !.path = [s.path EXCEPT ![p] = q], !.madx = s.madx \cup {a}]
  BY DEF ib_create_path, ib_create_madx, Device, Fresh, Lookup
<1> HIDE DEF p, t
<1>3. s.madx \cup {a} \in SUBSET Madx
  <2>1. a \in Madx
    BY <1>1, Owners DEF Madx, Lookup
  <2> QED BY <2>1 DEF Device
<1>4. [s.path EXCEPT ![p] = q] \in [Paths -> Path]
  <2>1. q \in Path
    BY DEF Path, Fresh
  <2> QED BY <2>1, <1>1 DEF Device
<1>5. /\ t \in Device /\ Outside(s, t) /\ t.cache = s.cache /\ t.conn = s.conn
      /\ t.madx = s.madx \cup {a} /\ t.path = [s.path EXCEPT ![p] = q]
  BY <1>2, <1>3, <1>4, Zenon DEF Device, Outside
<1> QED BY <1>1, <1>5 DEF Created, p, t

Advanced(s, i, n) == [s EXCEPT !.cache_idx = n, !.cache[i] = NoPath]
Evict(s, i, n) ==
    IF s.cache[i] = NoPath THEN Advanced(s, i, n)
    ELSE ib_destroy_path(Advanced(s, i, n), s.cache[i])
Kept(s, u) ==
    \A j \in Slots : u.cache[j] # NoPath =>
       u.cache[j] = s.cache[j] /\ u.path[s.cache[j]] = s.path[s.cache[j]]

\* The entry that the cache's next slot holds is evicted.
LEMMA SlotFreed ==
    ASSUME NEW s, IbInv(s), NEW i \in Slots, NEW n \in Slots, NEW u, u = Evict(s, i, n)
    PROVE  IbInv(u) /\ Outside(s, u) /\ u.cache[i] = NoPath /\ Kept(s, u)
<1> DEFINE p == s.cache[i]
           t == Advanced(s, i, n)
           D == [s.cache EXCEPT ![i] = NoPath]
<1>1. /\ s \in Device /\ Own(s.madx, s.path, s.cache, s.conn) /\ p \in Paths \cup {NoPath}
      /\ PathsPlaced(s.path, s.cache, s.conn) /\ MadxOwned(s.madx, s.path, s.conn)
  BY DEF IbInv, Own, Device
<1>2. /\ D \in [Slots -> Paths \cup {NoPath}] /\ D[i] = NoPath
      /\ \A j \in Slots : j # i => D[j] = s.cache[j]
  BY <1>1 DEF Device
<1>3. /\ t \in Device /\ Outside(s, t) /\ t.madx = s.madx /\ t.path = s.path /\ t.conn = s.conn
      /\ t.cache = D
  BY <1>1, <1>2, Zenon DEF Advanced, Device, Outside
<1>6. u = IF p = NoPath THEN t ELSE ib_destroy_path(t, p)
  BY DEF Evict
<1> HIDE DEF t
<1>4. CASE p = NoPath
  <2>1. D = s.cache
    BY <1>1, <1>2, <1>4 DEF Device
  <2> HIDE DEF D
  <2>2. u = t
    BY <1>4, <1>6
  <2>3. IbInv(u)
    BY <1>1, <1>3, <2>1, <2>2, StillCounts
  <2> QED BY <1>2, <1>3, <2>1, <2>2, <2>3 DEF Kept
<1>5. CASE p # NoPath
  <2>1. /\ u \in Device /\ Outside(t, u) /\ u.cache = t.cache /\ u.conn = t.conn
        /\ u.madx = Without(t.madx, PathOwner(p)) /\ u.path = [t.path EXCEPT ![p] = NewPath]
    <3>1. u = ib_destroy_path(t, p) /\ p \in Paths /\ MadxOwned(t.madx, t.path, t.conn)
      BY <1>1, <1>3, <1>5, <1>6
    <3> HIDE DEF p
    <3>2. Destroyed(t, p, u)
      BY <1>3, <3>1, PathDestroyed
    <3> QED BY <3>2 DEF Destroyed
  <2>2. Own(Without(s.madx, PathOwner(p)), [s.path EXCEPT ![p] = NewPath], D, s.conn)
    BY <1>1, <1>5, Uncached
  <2>3. Outside(s, u)
    BY <1>3, <2>1 DEF Outside
  <2>4. u.madx \subseteq s.madx
    BY <1>3, <2>1 DEF Without
  <2>5. IbInv(u)
    <3>1. Own(u.madx, u.path, u.cache, u.conn)
      BY <1>3, <2>1, <2>2
    <3>2. u.conn.live => s.conn.live
      BY <1>3, <2>1
    <3> QED BY <2>1, <2>3, <2>4, <3>1, <3>2, StillCounts
  <2>6. ASSUME NEW j \in Slots, u.cache[j] # NoPath
        PROVE  u.cache[j] = s.cache[j] /\ u.path[s.cache[j]] = s.path[s.cache[j]]
    <3>1. j # i /\ u.cache[j] = s.cache[j]
      BY <1>2, <1>3, <2>1, <2>6
    <3>2. s.cache[j] \in Paths /\ s.cache[j] # p
      BY ZenonT(60), <1>1, <1>5, <2>6, <3>1 DEF PathsPlaced, Device
    <3> QED BY <1>1, <1>3, <2>1, <3>1, <3>2 DEF Device
  <2> QED BY <1>2, <1>3, <2>1, <2>3, <2>5, <2>6 DEF Kept
<1> QED BY <1>4, <1>5

\* ib_resolve_path().
LEMMA Resolves ==
    ASSUME NEW s, IbInv(s), s.open_count > 0, NEW gid \in Gids, NEW fault
    PROVE  IbInv(ib_resolve_path(s, gid, fault))
<1> DEFINE r == ib_resolve_path(s, gid, fault)
           i == s.cache_idx % IB_NUM_CACHED_PATHS
           n == (s.cache_idx + 1) % IB_NUM_CACHED_PATHS
           u == Evict(s, i, n)
           v == ib_create_path(u, gid, i)
           w == [v EXCEPT !.cache[i] = Free(u)]
           q == Fresh(gid, i)
           a == Lookup(Free(u))
<1>1. s \in Device /\ s.cache_idx \in Slots
  BY DEF IbInv, Device
<1>2. i \in Slots /\ n \in Slots
  BY <1>1, IbAssumption DEF Slots
<1>3. r = IF CachedAt(s, gid) # {} THEN s ELSE IF fault = "nomem" THEN u ELSE w
  BY <1>1 DEF ib_resolve_path, Evict, Advanced, Device
<1> HIDE DEF i, n
<1>4. IbInv(u) /\ Outside(s, u) /\ u.cache[i] = NoPath /\ Kept(s, u)
  BY <1>2, SlotFreed
<1> HIDE DEF u
<1>5. CASE CachedAt(s, gid) = {} /\ fault # "nomem"
  <2>1. u \in Device /\ Own(u.madx, u.path, u.cache, u.conn)
    BY <1>4 DEF IbInv
  <2>2. i # -1
    BY <1>2, Places
  <2>3. \E p \in Paths : ~u.path[p].live
    BY <1>2, <1>4, <2>1, <2>2, FreePath
  <2>4. /\ Free(u) \in Paths /\ ~u.path[Free(u)].live
        /\ v \in Device /\ Outside(u, v) /\ v.cache = u.cache /\ v.conn = u.conn
        /\ v.madx = u.madx \cup {a} /\ v.path = [u.path EXCEPT ![Free(u)] = q]
    <3>1. Created(u, Free(u), gid, i, v)
      BY ZenonT(60), <1>2, <2>1, <2>3, PathCreated
    <3> QED BY <3>1, ZenonT(60) DEF Created
  <2>5. q \in Path /\ q.live /\ q.madx /\ q.slot = i /\ q.gid = gid
    BY ZenonT(90), <1>2 DEF Path, Fresh
  <2>6. \A j \in Slots : u.cache[j] # NoPath => u.path[u.cache[j]].gid # q.gid
    BY <1>4, <1>5, <2>5 DEF CachedAt, Kept
  <2> HIDE DEF q, v
  <2>7. Own(u.madx \cup {a}, [u.path EXCEPT ![Free(u)] = q],
            [u.cache EXCEPT ![i] = Free(u)], u.conn)
    BY <1>2, <1>4, <2>1, <2>4, <2>5, <2>6, Cached, ZenonT(60) DEF Lookup
  <2>8. /\ w \in Device /\ Outside(v, w) /\ w.madx = v.madx /\ w.path = v.path /\ w.conn = v.conn
        /\ w.cache = [u.cache EXCEPT ![i] = Free(u)]
    <3>1. [v.cache EXCEPT ![i] = Free(u)] \in [Slots -> Paths \cup {NoPath}]
      BY ZenonT(90), <1>2, <2>4 DEF Device
    <3> QED BY <2>4, <3>1 DEF Device, Outside
  <2> HIDE DEF w
  <2>9. u.open_count # 0 /\ Outside(u, w)
    BY <1>1, <1>4, <2>4, <2>8 DEF Outside, Device
  <2>10. IbInv(w)
    BY <1>4, <2>4, <2>7, <2>8, <2>9, StillCounts, ZenonT(60)
  <2> QED BY <1>3, <1>5, <2>10
<1> QED BY <1>3, <1>4, <1>5

\* ib_create_conn(), for a reliable connection that is up.
LEMMA ConnCreated ==
    ASSUME NEW s, IbInv(s), ~s.conn.live, s.cmrc.state = "up", NEW gid \in Gids
    PROVE  IbInv(ib_create_conn(s, gid))
<1> DEFINE p == Free(s)
           v == ib_create_path(s, gid, -1)
           L == [NoConn EXCEPT !.live = TRUE, !.path = p]
           q == Fresh(gid, -1)
           w == [v EXCEPT !.conn = L]
<1>1. s \in Device /\ Own(s.madx, s.path, s.cache, s.conn) /\ s.conn.path = NoPath
  BY Zenon DEF IbInv, Own, PathsPlaced
<1>2. -1 \in Slots \cup {-1}
  OBVIOUS
<1>3. \E r \in Paths : ~s.path[r].live
  BY <1>1, <1>2, FreePath
<1>4. Created(s, p, gid, -1, v)
  BY <1>1, <1>2, <1>3, PathCreated
<1>5. ib_create_conn(s, gid) = w
  BY DEF ib_create_conn
<1>6. q \in Path /\ q.live /\ q.madx /\ q.slot = -1
  BY <1>2 DEF Path, Fresh
<1> HIDE DEF p, v, q
<1>7. /\ p \in Paths /\ ~s.path[p].live
      /\ v \in Device /\ Outside(s, v) /\ v.cache = s.cache
      /\ v.madx = s.madx \cup {Lookup(p)} /\ v.path = [s.path EXCEPT ![p] = q]
  BY Zenon, <1>4 DEF Created, q
<1>8. L \in Conn /\ L.live /\ L.path = p /\ ~L.madx
  BY <1>7, Zenon DEF NoConn, Conn
<1> HIDE DEF L
<1>9. Own(s.madx \cup {Lookup(p)}, [s.path EXCEPT ![p] = q], s.cache, L)
  BY <1>1, <1>6, <1>7, <1>8, Connects, Zenon DEF Lookup
<1>10. /\ w \in Device /\ Outside(v, w) /\ w.madx = v.madx /\ w.path = v.path
       /\ w.cache = v.cache /\ w.conn = L
  BY <1>7, <1>8 DEF Device, Outside
<1> HIDE DEF w
<1>11. Own(w.madx, w.path, w.cache, w.conn) /\ Outside(s, w)
  BY ZenonT(90), <1>7, <1>9, <1>10 DEF Outside
<1>12. s.open_count # 0
  BY <1>1 DEF IbInv, Counts, Device
<1>13. IbInv(w)
  BY Zenon, <1>10, <1>11, <1>12 DEF IbInv, Counts, Outside
<1> QED BY <1>5, <1>13

\* ib_destroy_conn() takes along what the connection has: a transaction or a
\* path, with the path's own transaction, or neither.
LEMMA ConnDestroyed ==
    ASSUME NEW s, IbInv(s)
    PROVE  /\ IbInv(ib_destroy_conn(s)) /\ Outside(s, ib_destroy_conn(s))
           /\ ib_destroy_conn(s).conn = NoConn
<1> DEFINE r == ib_destroy_conn(s)
           p == s.conn.path
           Good(t) == /\ t \in Device /\ Outside(s, t) /\ t.conn = NoConn /\ t.madx \subseteq s.madx
                      /\ Own(t.madx, t.path, t.cache, t.conn)
<1>1. /\ s \in Device /\ Own(s.madx, s.path, s.cache, s.conn) /\ s.conn \in Conn
      /\ NoConn \in Conn /\ MadxOwned(s.madx, s.path, s.conn)
  BY Zenon, Places DEF IbInv, Own, Device
<1>2. Good(r)
  <2>1. CASE s.conn.madx
    <3> DEFINE R == Without(s.madx, ConnOwner)
               L == [s.conn EXCEPT !.madx = FALSE]
    <3>1. s.conn.path = NoPath
      BY <1>1, <2>1 DEF MadxOwned
    <3>2. R \in SUBSET Madx /\ R \subseteq s.madx
      BY <1>1 DEF Without, Device
    <3>3. L \in Conn /\ L.live = s.conn.live /\ L.path = NoPath /\ ~L.madx
      BY <1>1, <3>1, Zenon DEF Conn
    <3>4. r = [s EXCEPT !.madx = R, !.conn = NoConn]
      BY <1>1, <2>1, <3>1 DEF ib_destroy_conn, ib_destroy_madx, Without, Device
    <3> HIDE DEF R, L, r
    <3>5. Own(R, s.path, s.cache, L)
      BY <1>1, <3>1, <3>3, RequestGone DEF R
    <3>6. Own(R, s.path, s.cache, NoConn)
      BY <3>3, <3>5, ConnFreed
    <3> QED BY <1>1, <3>2, <3>4, <3>6, ZenonT(60) DEF Device, Outside
  <2>2. CASE ~s.conn.madx /\ p # NoPath
    <3> DEFINE u == ib_destroy_path(s, p)
               L == [s.conn EXCEPT !.path = NoPath]
    <3>1. p \in Paths
      BY <1>1, <2>2 DEF Conn
    <3>2. Destroyed(s, p, u)
      BY <1>1, <3>1, PathDestroyed
    <3>3. r = [u EXCEPT !.conn = NoConn]
      BY <2>2 DEF ib_destroy_conn
    <3>4. L \in Conn /\ L.path = NoPath /\ ~L.madx
      BY <1>1, <2>2 DEF Conn
    <3>5. Own(Without(s.madx, PathOwner(p)), [s.path EXCEPT ![p] = NewPath], s.cache, L)
      BY <1>1, <2>2, ConnPathGone
    <3> HIDE DEF L, r, u
    <3>6. Own(Without(s.madx, PathOwner(p)), [s.path EXCEPT ![p] = NewPath], s.cache, NoConn)
      BY <3>4, <3>5, ConnFreed
    <3>7. /\ u \in Device /\ Outside(s, u) /\ u.cache = s.cache
          /\ u.madx = Without(s.madx, PathOwner(p)) /\ u.path = [s.path EXCEPT ![p] = NewPath]
      BY <3>2 DEF Destroyed
    <3>8. /\ r \in Device /\ Outside(u, r) /\ r.cache = u.cache /\ r.madx = u.madx /\ r.path = u.path
          /\ r.conn = NoConn
      BY <1>1, <3>3, <3>7 DEF Device, Outside
    <3>9. r.madx \subseteq s.madx /\ Outside(s, r)
      BY <3>7, <3>8 DEF Without, Outside
    <3>10. Own(r.madx, r.path, r.cache, r.conn)
      BY <3>6, <3>7, <3>8
    <3> QED BY <3>8, <3>9, <3>10
  <2>3. CASE ~s.conn.madx /\ p = NoPath
    <3>1. r = [s EXCEPT !.conn = NoConn]
      BY <2>3 DEF ib_destroy_conn
    <3>2. Own(s.madx, s.path, s.cache, NoConn)
      BY <1>1, <2>3, ConnFreed
    <3> HIDE DEF r
    <3> QED BY <1>1, <3>1, <3>2 DEF Device, Outside
  <2> QED BY <2>1, <2>2, <2>3, Zenon
<1> HIDE DEF r
<1>3. IbInv(r)
  BY Zenon, <1>2, Places, StillCounts
<1> QED BY <1>2, <1>3 DEF r

\* What holds of a state from which ib_close() is called.
Closing(s) ==
    /\ s \in Device /\ Own(s.madx, s.path, s.cache, s.conn)
    /\ s.open_count - 1 = s.users + (IF s.cmrc.state = "up" THEN 1 ELSE 0)
    /\ s.conn.live => s.cmrc.state = "up"
    /\ s.cmrc.xfer => s.cmrc.state = "up" /\ ~s.cmrc.shutdown
    /\ s.cmrc.shutdown => s.cmrc.state # "none"

\* ib_close(): whoever closes last cancels what is left, the lookups for the
\* cache.
LEMMA Closes ==
    ASSUME NEW s, Closing(s)
    PROVE  IbInv(ib_close(s))
<1> DEFINE t == [s EXCEPT !.open_count = s.open_count - 1]
           K == Lookups(t.path)
           R == OtherMadx(t.madx, K)
           Q == OtherPaths(t.path, K)
           D == OtherSlots(t.cache, K)
           u == [t EXCEPT !.madx = R, !.path = Q, !.cache = D]
<1>1. s \in Device /\ Own(s.madx, s.path, s.cache, s.conn)
  BY DEF Closing
<1>2. /\ t \in Device /\ t.madx = s.madx /\ t.path = s.path /\ t.cache = s.cache
      /\ t.conn = s.conn /\ t.cmrc = s.cmrc /\ t.users = s.users
      /\ t.open_count = s.open_count - 1
  BY <1>1 DEF Device
<1>3. ib_close(s) = IF t.open_count = 0 THEN ib_destroy_mi(t) ELSE t
  BY <1>1 DEF ib_close, Device
<1> HIDE DEF t
<1>4. CASE t.open_count # 0
  <2>1. IbInv(t)
    BY Zenon, <1>1, <1>2, <1>4 DEF Closing, IbInv, Counts
  <2> QED BY <1>3, <1>4, <2>1
<1>5. CASE t.open_count = 0
  <2>1. ~t.conn.live /\ s.users = 0 /\ s.cmrc.state # "up"
    BY <1>1, <1>2, <1>5 DEF Closing, Device
  <2>2. ib_destroy_mi(t) = u
    BY <1>2, <2>1 DEF ib_destroy_mi, Cancelled, Lookups, OtherMadx, OtherPaths, OtherSlots, Device
  <2>3. R = {} /\ Own({}, Q, D, t.conn)
    <3>1. Own(t.madx, t.path, t.cache, t.conn)
      BY <1>1, <1>2
    <3> QED BY ZenonT(60), <2>1, <3>1, AllCancelled
  <2> HIDE DEF K, R, Q, D
  <2>4. Q \in [Paths -> Path] /\ D \in [Slots -> Paths \cup {NoPath}]
    BY <2>3 DEF Own, Typed
  <2>5. /\ u \in Device /\ u.madx = {} /\ u.path = Q /\ u.cache = D /\ u.conn = t.conn
        /\ u.cmrc = t.cmrc /\ u.users = t.users /\ u.open_count = t.open_count
    BY <1>2, <2>3, <2>4, Zenon DEF Device
  <2> HIDE DEF u
  <2>6. IbInv(u)
    BY <1>2, <1>5, <2>1, <2>3, <2>5, ZenonT(60) DEF Closing, IbInv, Counts
  <2> QED BY <1>3, <1>5, <2>2, <2>6
<1> QED BY <1>4, <1>5

-----------------------------------------------------------------------------
(* Steps.                                                                  *)

\* ib_cmrc_shutdown() on a connection that exists: the connection and the
\* queue pair go, then the device is closed.
LEMMA ShutsDown ==
    ASSUME IbInv(ib), ib.cmrc.shutdown, ib.conn.live, NEW s,
           s = ib_destroy_qp(ib_destroy_conn([ib EXCEPT !.cmrc.shutdown = FALSE]))
    PROVE  IbInv(ib_close([s EXCEPT !.cmrc.state = "down"]))
<1> DEFINE r == [ib EXCEPT !.cmrc.shutdown = FALSE]
           t == ib_destroy_conn(r)
           u == [s EXCEPT !.cmrc.state = "down"]
<1>1. ib \in Device /\ ib.cmrc \in Cmrc /\ ib.cmrc.state = "up" /\ ~ib.cmrc.xfer
  BY DEF IbInv, Counts, Device
<1>2. /\ r \in Device /\ Inside(ib, r) /\ ~r.cmrc.xfer /\ ~r.cmrc.shutdown
  BY <1>1, Zenon DEF Device, Cmrc, Inside
<1>3. s = ib_destroy_qp(t)
  OBVIOUS
<1> HIDE DEF r
<1>4. IbInv(r)
  BY <1>2 DEF IbInv, Counts, Inside
<1>5. IbInv(t) /\ t.conn = NoConn /\ t.cmrc = r.cmrc
  BY <1>4, ConnDestroyed DEF Outside
<1> HIDE DEF t
<1>6. t.cmrc.state = "up" /\ ~t.cmrc.xfer
  BY <1>1, <1>2, <1>5 DEF Inside
<1>7. IbInv(s) /\ s.conn = NoConn /\ s.cmrc.state = "up"
  <2>1. s = t \/ s = ib_cmrc_close(t)
    BY <1>3 DEF ib_destroy_qp
  <2>2. IbInv(ib_cmrc_close(t)) /\ Inside(t, ib_cmrc_close(t))
    BY <1>5, <1>6, CmrcCloses
  <2> QED BY <1>5, <1>6, <2>1, <2>2 DEF Inside
<1>8. ~s.cmrc.xfer
  <2>1. CASE s = t
    BY <2>1, <1>6
  <2>2. CASE s = ib_cmrc_close(t)
    <3>1. t \in Device
      BY <1>5 DEF IbInv
    <3> QED BY <2>2, <3>1, ZenonT(90) DEF ib_cmrc_close, Device, Cmrc
  <2> QED BY <2>1, <2>2, <1>3 DEF ib_destroy_qp
<1>9. s \in Device /\ s.cmrc \in Cmrc
  BY <1>7, Zenon DEF IbInv, Device
<1>10. /\ u \in Device /\ u.madx = s.madx /\ u.path = s.path /\ u.cache = s.cache /\ u.conn = s.conn
       /\ u.users = s.users /\ u.open_count = s.open_count
       /\ u.cmrc.state = "down" /\ ~u.cmrc.xfer
  BY <1>8, <1>9, Zenon DEF Device, Cmrc
<1> HIDE DEF u
<1>11. Closing(u)
  <2>1. u.open_count - 1 = u.users
    BY <1>7, <1>9, <1>10 DEF IbInv, Counts, Device
  <2>2. u.open_count - 1 = u.users + (IF u.cmrc.state = "up" THEN 1 ELSE 0)
    BY <1>10, <2>1 DEF Device
  <2>3. Own(u.madx, u.path, u.cache, u.conn) /\ ~u.conn.live
    BY <1>7, <1>10, Places DEF IbInv
  <2> QED BY <1>10, <2>2, <2>3 DEF Closing
<1>12. IbInv(ib_close(u))
  BY <1>11, Closes
<1> QED BY <1>12 DEF u

\* Every step preserves the invariant.
LEMMA IbInductive ==
    ASSUME IbInv(ib), [IbNext]_ib
    PROVE  IbInv(ib')
<1>1. /\ ib \in Device /\ Own(ib.madx, ib.path, ib.cache, ib.conn)
      /\ ib.cmrc \in Cmrc /\ ib.conn \in Conn
  BY DEF IbInv, Device
<1>2. CASE ib_cmrc_open
  <2>1. ib' = [ib EXCEPT !.open_count = ib.open_count + 1,
                         !.cmrc = [ib.cmrc EXCEPT !.state = "up", !.xfer = TRUE]]
    BY <1>1, <1>2, ZenonT(90) DEF ib_cmrc_open, Do, ib_open, Device
  <2>2. /\ ib' \in Device /\ Own(ib'.madx, ib'.path, ib'.cache, ib'.conn)
        /\ ib'.open_count = ib.open_count + 1 /\ ib'.users = ib.users
        /\ ib'.cmrc.state = "up" /\ ib'.cmrc.shutdown = ib.cmrc.shutdown
    <3>1. /\ ib' \in Device /\ ib'.madx = ib.madx /\ ib'.path = ib.path /\ ib'.cache = ib.cache
          /\ ib'.conn = ib.conn /\ ib'.open_count = ib.open_count + 1 /\ ib'.users = ib.users
          /\ ib'.cmrc.state = "up" /\ ib'.cmrc.shutdown = ib.cmrc.shutdown
      <4> DEFINE n == ib.open_count + 1
                 c == [ib.cmrc EXCEPT !.state = "up", !.xfer = TRUE]
      <4>1. n \in Int
        BY <1>1 DEF Device
      <4>2. c \in Cmrc /\ c.state = "up" /\ c.shutdown = ib.cmrc.shutdown
        BY <1>1, Zenon DEF Cmrc
      <4>3. ib' = [ib EXCEPT !.open_count = n, !.cmrc = c]
        BY <2>1
      <4> HIDE DEF n, c
      <4>4. /\ ib' \in Device /\ ib'.madx = ib.madx /\ ib'.path = ib.path /\ ib'.cache = ib.cache
            /\ ib'.conn = ib.conn /\ ib'.open_count = n /\ ib'.users = ib.users /\ ib'.cmrc = c
        BY <1>1, <4>1, <4>2, <4>3, Zenon DEF Device
      <4> QED BY <4>2, <4>4 DEF n
    <3> QED BY <1>1, <3>1
  <2>3. ib.cmrc.state = "none" /\ ~ib.cmrc.shutdown /\ ib.open_count = ib.users
    BY <1>1, <1>2 DEF ib_cmrc_open, IbInv, Counts, Device
  <2>4. ib'.open_count = ib'.users + 1 /\ ib'.open_count # 0
    BY <1>1, <2>2, <2>3 DEF Device
  <2> QED BY <2>2, <2>3, <2>4, ZenonT(60) DEF IbInv, Counts
<1>3. CASE CmrcClose
  <2>1. ib.cmrc.state # "none" /\ ib' = ib_cmrc_close(ib)
    BY <1>3 DEF CmrcClose, Do, IbInv, Counts
  <2> QED BY <2>1, CmrcCloses
<1>4. CASE ib_refill_recv
  <2>1. ib' = [ib EXCEPT !.cmrc.posted = TRUE]
    BY <1>4 DEF ib_refill_recv, Do
  <2>2. /\ ib' \in Device /\ Inside(ib, ib') /\ ib'.cmrc.xfer = ib.cmrc.xfer
        /\ ib'.cmrc.shutdown = ib.cmrc.shutdown
    BY <1>1, <2>1, Zenon DEF Device, Cmrc, Inside
  <2> QED BY <2>2 DEF IbInv, Counts, Inside
<1>5. CASE ib_cmrc_shutdown
  <2>1. CASE ~ib.conn.live
    <3>1. ib' = [ib EXCEPT !.wild = TRUE]
      BY <1>5, <2>1 DEF ib_cmrc_shutdown, Do
    <3>2. ib' \in Device /\ Inside(ib, ib') /\ ib'.cmrc = ib.cmrc
      BY <1>1, <3>1, Zenon DEF Device, Inside
    <3> QED BY <3>2, Zenon DEF IbInv, Counts, Inside
  <2>2. CASE ib.conn.live
    <3> DEFINE s == ib_destroy_qp(ib_destroy_conn([ib EXCEPT !.cmrc.shutdown = FALSE]))
    <3>1. ib.cmrc.shutdown /\ ib' = ib_close([s EXCEPT !.cmrc.state = "down"])
      BY <1>5, <2>2 DEF ib_cmrc_shutdown, Do
    <3>2. IbInv(ib_close([s EXCEPT !.cmrc.state = "down"]))
      BY <2>2, <3>1, ShutsDown, Zenon
    <3> QED BY <3>1, <3>2
  <2> QED BY <2>1, <2>2
<1>6. ASSUME NEW fault, ib_cmrc_xfer_deliver(fault)
      PROVE  IbInv(ib')
  <2>1. ib.cmrc.state = "up" /\ dgid \in Gids
    BY <1>6, Places, Zenon DEF ib_cmrc_xfer_deliver, IbInv, Counts
  <2>2. \/ ~ib.conn.live /\ ib' = ib_create_conn(ib, dgid)
        \/ ib' = ib_cmrc_close(ib)
        \/ ib' = ib
    BY <1>6 DEF ib_cmrc_xfer_deliver, Do
  <2>3. IbInv(ib_cmrc_close(ib))
    BY <2>1, CmrcCloses
  <2>4. ~ib.conn.live => IbInv(ib_create_conn(ib, dgid))
    BY <2>1, ConnCreated
  <2> QED BY <2>2, <2>3, <2>4
<1>7. ASSUME NEW m \in ib.madx, NEW fail, ib_mi_timer_expired(m, fail)
      PROVE  IbInv(ib')
  <2>1. CASE fail
    <3>1. ib' = Complete(ib, m.owner, "none", "none")
      BY <1>7, <2>1 DEF ib_mi_timer_expired, Do
    <3> QED BY <3>1, Completes
  <2>2. CASE ~fail
    <3> DEFINE R == (ib.madx \ {m}) \cup {[m EXCEPT !.sent = TRUE]}
               asked == ib.conn.asked \/ m.owner = ConnOwner
               L == [ib.conn EXCEPT !.asked = asked]
    <3>1. ib' = [ib EXCEPT !.madx = R, !.conn = L]
      BY <1>1, <1>7, <2>2 DEF ib_mi_timer_expired, Do, Device, Conn
    <3>2. Own(R, ib.path, ib.cache, ib.conn)
      BY <1>1, Sent
    <3>3. asked \in BOOLEAN
      OBVIOUS
    <3> HIDE DEF R, asked
    <3>4. L \in Conn /\ L.live = ib.conn.live /\ L.path = ib.conn.path /\ L.madx = ib.conn.madx
      BY <1>1, <3>3 DEF Conn
    <3> HIDE DEF L
    <3>5. Own(R, ib.path, ib.cache, L)
      BY <3>2, <3>4, ConnChanges
    <3>6. R \in SUBSET Madx
      BY <3>2 DEF Own, Typed
    <3>7. /\ ib' \in Device /\ Outside(ib, ib') /\ ib'.madx = R /\ ib'.path = ib.path
          /\ ib'.cache = ib.cache /\ ib'.conn = L
      BY <1>1, <3>1, <3>4, <3>6, ZenonT(60) DEF Device, Outside
    <3>8. ib.open_count # 0
      BY DEF IbInv, Counts
    <3> QED BY <3>4, <3>5, <3>7, <3>8, StillCounts
  <2> QED BY <2>1, <2>2
<1>8. ASSUME NEW m \in ib.madx, NEW reply, NEW fault, ib_mi_handle(m, reply, fault)
      PROVE  IbInv(ib')
  BY <1>8, Completes DEF ib_mi_handle, Do
<1>9. ASSUME NEW fault, ib_cm_recv_dreq(fault)
      PROVE  IbInv(ib')
  <2>1. ib.cmrc.state # "none" /\ FALSE \in BOOLEAN /\ TRUE \in BOOLEAN
    BY Zenon, <1>9 DEF ib_cm_recv_dreq, IbInv, Counts
  <2>2. ib' = ib_cmrc_changed(ib, FALSE, TRUE, fault)
    BY <1>9 DEF ib_cm_recv_dreq, Do
  <2>3. IbInv(ib_cmrc_changed(ib, FALSE, TRUE, fault))
    BY <2>1, CmrcChanges, Zenon
  <2> QED BY <2>2, <2>3, ZenonT(60)
<1>10. ASSUME NEW gid \in Gids, NEW fault, ResolvePath(gid, fault)
       PROVE  IbInv(ib')
  BY <1>10, Resolves DEF ResolvePath, Do
<1>11. CASE UserOpens
  <2>1. ib' = [ib EXCEPT !.open_count = ib.open_count + 1, !.users = ib.users + 1]
    BY <1>1, <1>11 DEF UserOpens, Do, ib_open, Device
  <2>2. /\ ib' \in Device /\ Own(ib'.madx, ib'.path, ib'.cache, ib'.conn) /\ ib'.cmrc = ib.cmrc
        /\ ib'.conn = ib.conn /\ ib'.open_count = ib.open_count + 1 /\ ib'.users = ib.users + 1
    <3>1. /\ ib' \in Device /\ ib'.madx = ib.madx /\ ib'.path = ib.path /\ ib'.cache = ib.cache
          /\ ib'.conn = ib.conn /\ ib'.open_count = ib.open_count + 1 /\ ib'.users = ib.users + 1
          /\ ib'.cmrc = ib.cmrc
      <4>1. ib.open_count + 1 \in Int /\ ib.users + 1 \in Nat
        BY <1>1 DEF Device
      <4> DEFINE n == ib.open_count + 1
                 k == ib.users + 1
      <4>2. n \in Int /\ k \in Nat /\ ib' = [ib EXCEPT !.open_count = n, !.users = k]
        BY <2>1, <4>1
      <4> HIDE DEF n, k
      <4>3. /\ ib' \in Device /\ ib'.madx = ib.madx /\ ib'.path = ib.path /\ ib'.cache = ib.cache
            /\ ib'.conn = ib.conn /\ ib'.open_count = n /\ ib'.users = k /\ ib'.cmrc = ib.cmrc
        BY <1>1, <4>2, ZenonT(90) DEF Device
      <4> QED BY <4>3 DEF n, k
    <3> QED BY <1>1, <3>1
  <2>3. /\ ib'.open_count = ib'.users + (IF ib'.cmrc.state = "up" THEN 1 ELSE 0)
        /\ ib'.open_count # 0
    BY <1>1, <2>2 DEF IbInv, Counts, Device
  <2> QED BY <2>2, <2>3 DEF IbInv, Counts
<1>12. CASE UserCloses
  <2> DEFINE s == [ib EXCEPT !.users = ib.users - 1]
  <2>1. ib' = ib_close(s) /\ ib.users > 0
    BY <1>1, <1>12 DEF UserCloses, Do, Device
  <2>2. /\ s \in Device /\ s.madx = ib.madx /\ s.path = ib.path /\ s.cache = ib.cache
        /\ s.conn = ib.conn /\ s.cmrc = ib.cmrc /\ s.open_count = ib.open_count
        /\ s.users = ib.users - 1
    BY <1>1, <2>1 DEF Device
  <2> HIDE DEF s
  <2>3. s.open_count - 1 = s.users + (IF s.cmrc.state = "up" THEN 1 ELSE 0)
    BY <1>1, <2>2 DEF IbInv, Counts, Device
  <2>4. Closing(s)
    BY Zenon, <2>2, <2>3 DEF Closing, IbInv, Counts
  <2> QED BY <2>1, <2>4, Closes
<1>13. CASE UNCHANGED ib
  BY <1>13
<1> QED BY <1>2, <1>3, <1>4, <1>5, <1>6, <1>7, <1>8, <1>9, <1>10, <1>11, <1>12, <1>13 DEF IbNext

\* The device as it starts.
LEMMA IbInitInv ==
    ASSUME IbInit
    PROVE  IbInv(ib)
<1> DEFINE P == [p \in Paths |-> NewPath]
           C == [i \in Slots |-> NoPath]
<1>1. P \in [Paths -> Path] /\ C \in [Slots -> Paths \cup {NoPath}] /\ 0 \in Slots
  BY Places, IbAssumption DEF Slots
<1>2. Own({}, P, C, NoConn)
  BY <1>1, Places, Zenon DEF Own, Typed, MadxOwned, PathsPlaced
<1>3. /\ ib.madx = {} /\ ib.path = P /\ ib.cache = C /\ ib.conn = NoConn
      /\ ib.cmrc = [state |-> "none", xfer |-> FALSE, connected |-> FALSE, posted |-> FALSE,
                    shutdown |-> FALSE]
      /\ ib.open_count = 0 /\ ib.users = 0
  BY ZenonT(90) DEF IbInit
<1>4. ib \in Device
  <2> DEFINE R == [state |-> "none", xfer |-> FALSE, connected |-> FALSE, posted |-> FALSE,
                   shutdown |-> FALSE]
  <2>1. R \in Cmrc
    BY DEF Cmrc
  <2>2. ib = [open_count |-> 0, users |-> 0, madx |-> {}, path |-> P, cache |-> C,
              cache_idx |-> 0, conn |-> NoConn, cmrc |-> R, wild |-> FALSE]
    BY Zenon DEF IbInit
  <2>3. NoConn \in Conn
    BY Zenon, Places
  <2> HIDE DEF P, C, R
  <2> QED BY <1>1, <2>1, <2>2, <2>3 DEF Device
<1>5. Counts(ib)
  BY <1>3, Places DEF Counts
<1> QED BY <1>2, <1>3, <1>4, <1>5, ZenonT(90) DEF IbInv

-----------------------------------------------------------------------------
(* The theorem.                                                            *)

\* The invariant says what OwnersExact counts: places are singletons.
LEMMA InvOwners ==
    ASSUME IbInv(ib)
    PROVE  OwnersExact
<1> DEFINE M == ib.madx
           P == ib.path
           C == ib.cache
           N == ib.conn
           at(p) == {i \in Slots : C[i] = p}
<1>1. /\ Typed(M, P, C, N) /\ MadxOwned(M, P, N) /\ PathsPlaced(P, C, N)
      /\ Counts(ib) /\ ib \in Device
  BY Zenon DEF IbInv, Own
<1>2. \A x : Cardinality({x}) = 1
  BY FS_Singleton, Zenon
<1>3. Cardinality({}) = 0
  BY FS_EmptySet
<1>4. \A p \in Paths : PathOwner(p).id = p
  BY DEF PathOwner
<1>5. TransactionsOwned
  <2>1. ASSUME NEW m \in M
        PROVE  IF m.owner = ConnOwner THEN N.live /\ N.madx
               ELSE P[m.owner.id].live /\ P[m.owner.id].madx
    BY <1>1, <1>4, Owners DEF MadxOwned
  <2>2. ASSUME NEW p \in Paths, P[p].madx
        PROVE  Cardinality({m \in M : m.owner = PathOwner(p)}) = 1
    <3>1. PICK m \in M : m.owner = PathOwner(p)
      BY Zenon, <1>1, <2>2 DEF MadxOwned
    <3>2. \A n \in M : n.owner = PathOwner(p) => n = m
      BY ZenonT(60), <1>1, <3>1 DEF MadxOwned
    <3>3. {n \in M : n.owner = PathOwner(p)} = {m}
      BY <3>1, <3>2
    <3> QED BY <1>2, <3>3, Zenon
  <2>3. ASSUME N.madx
        PROVE  Cardinality({m \in M : m.owner = ConnOwner}) = 1
    <3>1. PICK m \in M : m.owner = ConnOwner
      BY <1>1, <2>3, ZenonT(60) DEF MadxOwned
    <3>2. \A n \in M : n.owner = ConnOwner => n = m
      BY Zenon, <1>1, <3>1 DEF MadxOwned
    <3>3. {n \in M : n.owner = ConnOwner} = {m}
      BY <3>1, <3>2
    <3> QED BY <1>2, <3>3, Zenon
  <2> QED BY <1>1, <2>1, <2>2, <2>3, ZenonT(90) DEF TransactionsOwned, Counts
<1>6. ASSUME NEW p \in Paths
      PROVE  P[p].live <=> Cardinality(at(p)) + (IF N.live /\ N.path = p THEN 1 ELSE 0) = 1
  <2>1. P[p].slot \in Slots \cup {-1} /\ p # NoPath /\ -1 \notin Slots
    BY ZenonT(60), <1>1, Places DEF Typed, Path
  <2>slots. \A i \in Slots : C[i] # NoPath => P[C[i]].live /\ P[C[i]].slot = i
    BY Zenon, <1>1 DEF PathsPlaced
  <2>2. CASE P[p].live /\ P[p].slot # -1
    <3>1. at(p) = {P[p].slot}
      <4>1. P[p].slot \in Slots /\ C[P[p].slot] = p
        BY Zenon, <1>1, <2>1, <2>2 DEF PathsPlaced
      <4> HIDE DEF C, P
      <4>2. \A i \in Slots : C[i] = p => P[p].slot = i
        BY Zenon, <2>1, <2>slots
      <4> QED BY Zenon, <4>1, <4>2
    <3>2. N.path # p
      BY <1>1, <2>1, <2>2, Zenon DEF PathsPlaced
    <3>3. Cardinality(at(p)) = 1
      BY Zenon, <1>2, <3>1
    <3> HIDE DEF at
    <3> QED BY <2>2, <3>2, <3>3
  <2>3. CASE P[p].live /\ P[p].slot = -1
    <3>1. N.live /\ N.path = p
      BY Zenon, <1>1, <2>3 DEF PathsPlaced
    <3>2. at(p) = {}
      <4> HIDE DEF C, P
      <4>1. ASSUME NEW i \in Slots, C[i] = p
            PROVE  FALSE
        <5>1. P[p].slot = i
          BY Zenon, <2>1, <2>slots, <4>1
        <5> QED BY Zenon, <2>1, <2>3, <5>1
      <4> QED BY Zenon, <4>1
    <3>3. Cardinality(at(p)) = 0
      BY ZenonT(60), <1>3, <3>2
    <3> HIDE DEF at
    <3> QED BY <2>3, <3>1, <3>3
  <2>4. CASE ~P[p].live
    <3>1. N.path # p
      BY Zenon, <1>1, <2>1, <2>4 DEF PathsPlaced
    <3>2. at(p) = {}
      <4> HIDE DEF C, P
      <4> QED BY Zenon, <2>1, <2>4, <2>slots
    <3>3. Cardinality(at(p)) = 0
      BY Zenon, <1>3, <3>2
    <3> HIDE DEF at
    <3> QED BY <2>4, <3>1, <3>3
  <2> QED BY ZenonT(60), <2>2, <2>3, <2>4
<1>7. ASSUME NEW gid \in Gids
      PROVE  Cardinality(CachedAt(ib, gid)) <= 1
  <2>1. CASE CachedAt(ib, gid) = {}
    BY <1>3, <2>1
  <2>2. CASE CachedAt(ib, gid) # {}
    <3>1. PICK i \in Slots : i \in CachedAt(ib, gid)
      BY <2>2 DEF CachedAt
    <3>2. \A j \in CachedAt(ib, gid) : j = i
      <4>1. \A j, k \in Slots :
               C[j] # NoPath /\ C[k] # NoPath /\ P[C[j]].gid = P[C[k]].gid => j = k
        BY Zenon, <1>1 DEF PathsPlaced
      <4>2. \A j \in CachedAt(ib, gid) : j \in Slots /\ C[j] # NoPath /\ P[C[j]].gid = gid
        BY Zenon DEF CachedAt
      <4> HIDE DEF C, P
      <4> QED BY Zenon, <3>1, <4>1, <4>2
    <3>3. CachedAt(ib, gid) = {i}
      BY <3>1, <3>2
    <3> HIDE DEF CachedAt
    <3> QED BY <1>2, <3>3
  <2> QED BY <2>1, <2>2
<1>8. PathsOwned
  BY Zenon, <1>6, <1>7 DEF PathsOwned
<1> QED BY <1>5, <1>8 DEF OwnersExact

\* For any number of destinations, cached paths and users: a transaction has a
\* live owner that points to it, a path is pointed to from exactly one place,
\* no destination is cached twice, no transaction outlives the management
\* interface, and the open count is what its holders make it.
THEOREM OwnersCorrect == IbSpec => []OwnersExact
<1>1. IbInit => IbInv(ib)
  BY IbInitInv
<1>2. IbInv(ib) /\ [IbNext]_ib => IbInv(ib)'
  BY IbInductive DEF IbInv
<1>3. IbInv(ib) => OwnersExact
  BY InvOwners
<1> QED BY <1>1, <1>2, <1>3, PTL DEF IbSpec
=============================================================================
