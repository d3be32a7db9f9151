----------------------------- MODULE MCSimulasi -----------------------------
(* Simulasi on small instances. *)
EXTENDS Simulasi, TLC
=============================================================================
