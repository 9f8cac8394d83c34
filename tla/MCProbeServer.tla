--------------------------- MODULE MCProbeServer ---------------------------
(* Instances of ProbeServer for TLC: two connections that come from the    *)
(* same port, one after the other.  Neither connections nor requests are   *)
(* told apart by anything but the order of what happens to them.           *)
EXTENDS ProbeServer, TLC

CONSTANTS c1, c2, a1

PairAddrOf == (c1 :> a1 @@ c2 :> a1)
Symmetry == Permutations(Conns) \cup Permutations(Reqs)
=============================================================================
