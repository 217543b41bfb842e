------------------------------- MODULE MCKrpc -------------------------------
(* Instances of Krpc for TLC. *)
EXTENDS Krpc

AllKinds == DOMAIN Bodies
=============================================================================
