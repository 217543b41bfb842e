--------------------------- MODULE MCRoutingTable ---------------------------
(* Instances of RoutingTable for TLC: nodes at three ranks. *)
EXTENDS RoutingTable, TLC

CONSTANTS far, far2, far3, mid, near

(* Three contacts share no prefix with us, the others one and two bits. *)
MCNode == {far, far2, far3, mid, near}
MCRank == (far :> 0) @@ (far2 :> 0) @@ (far3 :> 0) @@ (mid :> 1) @@ (near :> 2)

FarSymmetry == Permutations({far, far2, far3})
=============================================================================
