------------------------------ MODULE EventLog ------------------------------
(***************************************************************************)
(* What both log aggregators promise, whatever is sent twice, crashes or   *)
(* is restarted: only what a publisher sent is stored, once, and counted   *)
(* as new once; what is stored stays, and what a publisher was told is     *)
(* accepted stays accepted (uas/report.md:139-142, uts/report.md:41,45).   *)
(***************************************************************************)
EXTENDS Naturals

CONSTANT Event    \* told apart by (topic, event_id)

VARIABLES
  offered,   \* the events some publisher has sent
  promised,  \* those it was told are accepted
  stored,    \* those with a row in the table
  counted    \* how many were counted as new

vars == <<offered, promised, stored, counted>>

Init == offered = {} /\ promised = {} /\ stored = {} /\ counted = 0

Offer(S) == offered' = offered \cup S /\ UNCHANGED <<promised, stored, counted>>

Promise(S) ==
  /\ S \subseteq offered
  /\ promised' = promised \cup S
  /\ UNCHANGED <<offered, stored, counted>>

Store(e) ==
  /\ e \in offered \ stored
  /\ stored' = stored \cup {e}
  /\ counted' = counted + 1
  /\ UNCHANGED <<offered, promised>>

Next ==
  \/ \E S \in SUBSET Event : Offer(S) \/ Promise(S)
  \/ \E e \in Event : Store(e)

Spec == Init /\ [][Next]_vars
=============================================================================
