------------------------- MODULE MCSearchLifecycle -------------------------
(* Instances of SearchLifecycle for TLC. *)
EXTENDS SearchLifecycle, TLC

(* Infohashes and contexts are interchangeable names. *)
Symmetry == Permutations(Infohash) \cup Permutations(Context)
=============================================================================
