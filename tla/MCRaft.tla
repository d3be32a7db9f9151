------------------------------- MODULE MCRaft -------------------------------
(* Raft on small instances: constants for TLC, and a view that drops what   *)
(* no step reads before it is assigned again, and what no step reads.       *)
EXTENDS Raft, TLC

CONSTANTS
  MaxCandidacies,   \* bound: elections started in a behaviour
  MaxExpired        \* bound: submit() calls that time out

(* Nodes and commands are interchangeable: nothing in Raft orders them.     *)
Symmetry == Permutations(Node) \cup Permutations(Command)

(* next_index and match_index are read by leaders only and reset on the way *)
(* to leadership; votes_received likewise for candidates.  ledger and acks  *)
(* are read by the proofs only.                                             *)
View ==
  LET at(n, s, f, dead) == IF state[n] = s THEN f[n] ELSE dead
  IN <<busVars, state, current_term, voted_for, log, commitVars, ballots, elected,
       [n \in Node |-> at(n, "candidate", votes_received, {})],
       [n \in Node |-> at(n, "leader", next_index, 0)],
       [n \in Node |-> at(n, "leader", match_index, 0)]>>

(* What is explored: behaviours with few elections and few client timeouts, *)
(* where only a leader is cut off (any message can still be lost, because   *)
(* the channels are short).                                                 *)
Explored ==
  /\ Cardinality({b \in ballots : b[2] = b[3]}) <= MaxCandidacies
  /\ \A n \in partitions : state[n] = "leader"
  /\ Cardinality({c \in Command : request[c].status = "expired"}) <= MaxExpired
=============================================================================
