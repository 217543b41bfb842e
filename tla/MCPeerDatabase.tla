--------------------------- MODULE MCPeerDatabase ---------------------------
(* Instances of PeerDatabase for TLC. *)
EXTENDS PeerDatabase, TLC

CONSTANTS p1, p2, a1, a2, a3

(* Two ports of one host, and another host. *)
Hosts == a1 :> p1 @@ a2 :> p1 @@ a3 :> p2

(* Infohashes are interchangeable names, and so are the ports of a host. *)
Symmetry == Permutations(Infohash) \cup Permutations({a1, a2})
=============================================================================
