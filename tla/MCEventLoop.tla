---------------------------- MODULE MCEventLoop ----------------------------
(* Instances of EventLoop for TLC. *)
EXTENDS EventLoop, TLC

(* Requests are interchangeable names. *)
Symmetry == Permutations(Request)
=============================================================================
