--------------------------- MODULE MCContactCache ---------------------------
(* Instances of ContactCache for TLC. *)
EXTENDS ContactCache, TLC

CONSTANTS h1, h2, p1, p2, p3

(* Two contacts of one host and one of another. *)
SomeContacts == {<<h1, p1>>, <<h1, p2>>, <<h2, p3>>}

Symmetry == Permutations({p1, p2})
=============================================================================
