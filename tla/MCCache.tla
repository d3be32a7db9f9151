------------------------------- MODULE MCCache -------------------------------
(* CacheNode on small instances. *)
EXTENDS CacheNode, TLC

Symmetry == Permutations(Node) \cup Permutations(Key) \cup Permutations(Client)
=============================================================================
