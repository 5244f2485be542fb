------------------------------ MODULE MCIpoib ------------------------------
(* An instance of Ipoib for TLC: four addresses, each on a port of its own, *)
(* interchangeable together with their ports.                              *)
EXTENDS Ipoib

CONSTANTS ip1, ip2, ip3, ip4, mac1, mac2, mac3, mac4

OnePortEach == (ip1 :> mac1) @@ (ip2 :> mac2) @@ (ip3 :> mac3) @@ (ip4 :> mac4)

Moved(pi) ==
    pi @@ [m \in Remacs |-> OnePortEach[pi[CHOOSE ip \in IPs : OnePortEach[ip] = m]]]
Symmetry == {Moved(pi) : pi \in Permutations(IPs)}
=============================================================================
