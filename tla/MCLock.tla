------------------------------- MODULE MCLock -------------------------------
(* LockManager on small instances. *)
EXTENDS LockManager, TLC

CONSTANTS
  MaxAbandoned,  \* bound: commands under way nobody waits for any more
  Reacquire      \* whether clients ask for locks they were granted

(* Nothing orders clients or resources. *)
Symmetry == Permutations(Client) \cup Permutations(Resource)

Explored ==
  /\ Cardinality({i \in DOMAIN underWay : ~underWay[i].awaited}) <= MaxAbandoned
  /\ Reacquire \/ \A c \in Client : call[c].kind = "acquire" => call[c].resource \notin granted[c]

(* The bounds as part of the specification, for liveness: they hold back    *)
(* what clients start and what times out, none of the actions that are fair. *)
FairSpec == Init /\ [][Next /\ Explored']_vars /\ Fairness
=============================================================================
