------------------------------ MODULE Simulasi ------------------------------
(***************************************************************************)
(* simulasi_komunikasi.py: the three tabs of the demo in one event loop.   *)
(* They share no state but a dictionary of which each writes its own key   *)
(* and ComparisonTab only reads.  The user works in one of the tabs (a     *)
(* bound; each tab's timers go on whichever is shown).                     *)
(***************************************************************************)
EXTENDS Naturals, Sequences, FiniteSets

CONSTANTS
  MaxRequests, Topics, MaxPubs, Nodes, Burst, MaxMessages, MaxResets  \* as in the tabs

ASSUME SimulasiAssumption ==
  /\ Topics \subseteq {"cuaca", "berita", "saham", "olahraga"}
  /\ IsFiniteSet(Nodes)
  /\ {MaxRequests, MaxPubs, Burst, MaxMessages, MaxResets} \subseteq Nat

VARIABLES
  tab,  \* the tab the user works in
  waiting, req_count, packets, processing, count, before, survivors,   \* RequestResponseTab
  published, psPackets, timers, notif_count, received, psBefore,       \* PubSubTab
  planned, msg_count, sent, processed, mpPackets, queues, last,        \* MessagePassingTab
  resets, psResets, mpResets

RR == INSTANCE RequestResponse
PS == INSTANCE PubSub WITH packets <- psPackets, before <- psBefore, resets <- psResets
MP == INSTANCE MessagePassing WITH packets <- mpPackets, resets <- mpResets

rrVars == <<waiting, req_count, packets, processing, count, before, survivors, resets>>
psVars == <<published, psPackets, timers, notif_count, received, psBefore, psResets>>
mpVars == <<planned, msg_count, sent, processed, mpPackets, queues, last, mpResets>>
vars   == <<tab, rrVars, psVars, mpVars>>

Init ==
  /\ tab \in {"request-response", "publish-subscribe", "message passing"}
  /\ RR!Init /\ PS!Init /\ MP!Init

Next ==
  \/ tab = "request-response" /\ RR!Next /\ UNCHANGED <<tab, psVars, mpVars>>
  \/ tab = "publish-subscribe" /\ PS!Next /\ UNCHANGED <<tab, rrVars, mpVars>>
  \/ tab = "message passing" /\ MP!Next /\ UNCHANGED <<tab, rrVars, psVars>>

Spec == Init /\ [][Next]_vars

(* The user may never press a button again. *)
FairSpec == Spec /\ RR!Fairness

-----------------------------------------------------------------------------
(* Properties.                                                             *)

(* Every variable of a tab holds values of the kind the code gives it. *)
TypeOK == RR!TypeOK /\ PS!TypeOK /\ MP!TypeOK

(* A blocking client, but for requests a reset left with the server: see   *)
(* RequestResponse.                                                        *)
OneAtATime == RR!OneAtATime

(* Nothing is delivered twice, out of order or to others, and nothing is   *)
(* lost but by a reset: see PubSub and MessagePassing.                     *)
DeliveredInOrder == PS!NotifiedOnceInOrder /\ MP!ProcessedInOrder

(* A client that waits is unblocked, whatever the resets left behind.      *)
ClientIsUnblocked == RR!ClientIsUnblocked
=============================================================================
