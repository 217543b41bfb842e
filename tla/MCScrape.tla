------------------------------ MODULE MCScrape ------------------------------
(* Instances of Scrape for TLC. *)
EXTENDS Scrape, TLC

Symmetry == Permutations(Nodes) \cup Permutations(Infohashes) \cup Permutations(Scrapes)
=============================================================================
