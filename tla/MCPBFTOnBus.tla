---------------------------- MODULE MCPBFTOnBus -----------------------------
(* PBFTOnBus on small instances. *)
EXTENDS PBFTOnBus, TLC
=============================================================================
