------------------------------ MODULE MCDedup -------------------------------
(* Dedup on small instances. *)
EXTENDS Dedup, TLC

CONSTANTS e1, e2

(* One batch of two events or of a duplicate, or one event a batch. *)
ShortPlans == {<<<<e1, e2>>>>, <<<<e1, e1>>>>, <<<<e2>>, <<e1>>>>}
=============================================================================
