------------------------------- MODULE MCQueue -------------------------------
(* QueueNode on small instances. *)
EXTENDS QueueNode, TLC

Symmetry == Permutations(Node) \cup Permutations(Msg)
=============================================================================
