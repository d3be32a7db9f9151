------------------------------- MODULE MCPBFT -------------------------------
(* PBFT on small instances. *)
EXTENDS PBFT, TLC

Symmetry == Permutations(Node \ {Primary}) \cup Permutations(Request)
=============================================================================
