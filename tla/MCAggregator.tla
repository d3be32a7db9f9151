---------------------------- MODULE MCAggregator ----------------------------
(* Aggregator on small instances. *)
EXTENDS Aggregator, TLC

CONSTANTS e1, e2, e3

(* The second event may be one that is refused; duplicates come of retries. *)
Pairs == {<<e1, e2>>, <<e1, e3>>}
=============================================================================
