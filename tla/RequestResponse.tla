-------------------------- MODULE RequestResponse ---------------------------
(***************************************************************************)
(* RequestResponseTab of simulasi_komunikasi.py: a client that is blocked  *)
(* while it waits, a server that answers after a delay, packets that move  *)
(* over a canvas.  One Tk event loop runs every callback to its end.       *)
(*                                                                         *)
(* Packets move at one speed, so they arrive in the order they were made   *)
(* in; the user may change the server's delay between two requests, so     *)
(* its timers fire in any order.  Reset forgets the packets, not the       *)
(* timers.                                                                 *)
(***************************************************************************)
EXTENDS Naturals, Sequences, FiniteSets

CONSTANTS
  MaxRequests,  \* bound: requests sent
  MaxResets     \* bound: resets

VARIABLES
  waiting, req_count,
  packets,     \* [kind, id]: requests and responses that move
  processing,  \* the requests whose _server_respond is due
  count,       \* _metrics['rr']['count']
  \* Recorded for the properties:
  resets,      \* how many there were
  before,      \* req_count at the last one
  survivors    \* how many requests the last one left with the server

vars == <<waiting, req_count, packets, processing, count, resets, before, survivors>>
historyVars == <<resets, before, survivors>>

Init ==
  /\ waiting = FALSE /\ req_count = 0
  /\ packets = <<>> /\ processing = {} /\ count = 0
  /\ resets = 0 /\ before = 0 /\ survivors = 0

(* The first packet of the list is through (_animate, AnimatedPacket.step). *)
Arrives(kind) == packets # <<>> /\ Head(packets).kind = kind

(* Faulty: does not look whether the client waits. *)
SendRequest_Always ==
  /\ req_count < MaxRequests
  /\ waiting' = TRUE /\ req_count' = req_count + 1
  /\ packets' = Append(packets, [kind |-> "request", id |-> req_count + 1])
  /\ UNCHANGED <<processing, count, historyVars>>

SendRequest ==
  /\ ~waiting
  /\ req_count < MaxRequests
  /\ waiting' = TRUE /\ req_count' = req_count + 1
  /\ packets' = Append(packets, [kind |-> "request", id |-> req_count + 1])
  /\ UNCHANGED <<processing, count, historyVars>>

ServerReceive ==
  /\ Arrives("request")
  /\ processing' = processing \cup {Head(packets).id}
  /\ packets' = Tail(packets)
  /\ UNCHANGED <<waiting, req_count, count, historyVars>>

ServerRespond(i) ==
  /\ i \in processing
  /\ processing' = processing \ {i}
  /\ packets' = Append(packets, [kind |-> "response", id |-> i])
  /\ UNCHANGED <<waiting, req_count, count, historyVars>>

(* Whatever request it answers. *)
ClientReceive ==
  /\ Arrives("response")
  /\ waiting' = FALSE /\ count' = count + 1
  /\ packets' = Tail(packets)
  /\ UNCHANGED <<req_count, processing, historyVars>>

(* Faulty: numbers the requests anew, though one may be with the server. *)
Reset_Count ==
  /\ resets < MaxResets /\ resets' = resets + 1
  /\ waiting' = FALSE
  /\ packets' = <<>> /\ count' = 0
  /\ req_count' = 0 /\ before' = 0 /\ survivors' = Cardinality(processing)
  /\ UNCHANGED processing

(* Faulty: the client stays blocked. *)
Reset_Waiting ==
  /\ resets < MaxResets /\ resets' = resets + 1
  /\ packets' = <<>> /\ count' = 0
  /\ before' = req_count /\ survivors' = Cardinality(processing)
  /\ UNCHANGED <<waiting, req_count, processing>>

Reset ==
  /\ resets < MaxResets /\ resets' = resets + 1
  /\ waiting' = FALSE
  /\ packets' = <<>> /\ count' = 0
  /\ before' = req_count /\ survivors' = Cardinality(processing)
  /\ UNCHANGED <<req_count, processing>>

Arrive == ServerReceive \/ ClientReceive

Next ==
  \/ SendRequest \/ Reset
  \/ Arrive
  \/ \E i \in processing : ServerRespond(i)

(* Tk runs the timers. *)
Fairness == WF_vars(Arrive) /\ \A i \in 1..MaxRequests : WF_vars(ServerRespond(i))

-----------------------------------------------------------------------------
(* Properties.                                                             *)

(* Every variable holds values of the kind the code gives it. *)
TypeOK ==
  /\ waiting \in BOOLEAN /\ req_count \in 0..MaxRequests
  /\ packets \in Seq([kind : {"request", "response"}, id : 1..req_count])
  /\ processing \subseteq 1..req_count
  /\ count \in Nat
  /\ resets \in 0..MaxResets /\ before \in 0..req_count /\ survivors \in Nat

UnderWay == {packets[k].id : k \in DOMAIN packets} \cup processing

(* The client has one request under way while it waits and none otherwise  *)
(* ("tidak bisa mengirim baru sampai respons diterima"), but for as many   *)
(* more as the last reset left with the server: their answers unblock the  *)
(* client for a request of its own.  No request is lost and none counted   *)
(* twice, but by a reset.                                                  *)
OneAtATime ==
  /\ Cardinality(UnderWay) <= (IF waiting THEN 1 ELSE 0) + survivors
  /\ count + Cardinality(UnderWay) = (req_count - before) + survivors

(* A client that waits is unblocked. *)
ClientIsUnblocked == waiting ~> ~waiting
=============================================================================
