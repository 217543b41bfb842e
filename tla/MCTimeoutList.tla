--------------------------- MODULE MCTimeoutList ---------------------------
(* Instances of TimeoutList for TLC. *)
EXTENDS TimeoutList

(* Contacts are interchangeable names. *)
Symmetry == Permutations(Node)
=============================================================================
