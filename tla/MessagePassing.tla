--------------------------- MODULE MessagePassing ---------------------------
(***************************************************************************)
(* MessagePassingTab of simulasi_komunikasi.py: messages move to the inbox *)
(* of their receiver, and every 600 ms each node processes one of its own. *)
(* Packets arrive in the order they were made in.                          *)
(***************************************************************************)
EXTENDS Naturals, Sequences, FiniteSets

CONSTANTS
  Nodes,        \* the nodes
  Burst,        \* how many messages _send_random plans
  MaxMessages,  \* bound: messages sent
  MaxResets     \* bound: resets

VARIABLES
  planned,          \* how many _do_send of _send_random are due
  msg_count, sent, processed,
  packets,          \* [from, to, id]
  queues,           \* node -> its inbox, of [from, id]
  \* Recorded for the properties:
  last,             \* node -> the message it processed last (0: none)
  resets            \* how many there were

vars == <<planned, msg_count, sent, processed, packets, queues, last, resets>>

Init ==
  /\ planned = 0 /\ msg_count = 0 /\ sent = 0 /\ processed = 0
  /\ packets = <<>> /\ queues = [n \in Nodes |-> <<>>]
  /\ last = [n \in Nodes |-> 0] /\ resets = 0

DoSend(from, to) ==
  /\ msg_count' = msg_count + 1 /\ sent' = sent + 1
  /\ packets' = Append(packets, [from |-> from, to |-> to, id |-> msg_count + 1])
  /\ UNCHANGED <<processed, queues, last, resets>>

SendMsg(from, to) ==
  /\ from # to
  /\ msg_count + planned < MaxMessages
  /\ DoSend(from, to)
  /\ UNCHANGED planned

SendRandom ==
  /\ msg_count + planned + Burst <= MaxMessages
  /\ planned' = planned + Burst
  /\ UNCHANGED <<msg_count, sent, processed, packets, queues, last, resets>>

(* One of the planned messages; random.sample() gives two distinct nodes. *)
SendPlanned(from, to) ==
  /\ planned > 0 /\ from # to
  /\ DoSend(from, to)
  /\ planned' = planned - 1

Enqueue ==
  /\ packets # <<>>
  /\ LET m == Head(packets) IN
       queues' = [queues EXCEPT ![m.to] = Append(@, [from |-> m.from, id |-> m.id])]
  /\ packets' = Tail(packets)
  /\ UNCHANGED <<planned, msg_count, sent, processed, last, resets>>

Busy == {n \in Nodes : queues[n] # <<>>}

ProcessQueues ==
  /\ Busy # {}
  /\ queues' = [n \in Nodes |-> IF n \in Busy THEN Tail(queues[n]) ELSE <<>>]
  /\ last' = [n \in Nodes |-> IF n \in Busy THEN Head(queues[n]).id ELSE last[n]]
  /\ processed' = processed + Cardinality(Busy)
  /\ UNCHANGED <<planned, msg_count, sent, packets, resets>>

(* What _send_random planned is sent all the same. *)
Reset ==
  /\ resets < MaxResets /\ resets' = resets + 1
  /\ packets' = <<>> /\ queues' = [n \in Nodes |-> <<>>]
  /\ sent' = 0 /\ processed' = 0
  /\ UNCHANGED <<planned, msg_count, last>>

Next ==
  \/ \E from, to \in Nodes : SendMsg(from, to) \/ SendPlanned(from, to)
  \/ SendRandom
  \/ Enqueue
  \/ ProcessQueues
  \/ Reset

-----------------------------------------------------------------------------
(* Properties.                                                             *)

(* Every variable holds values of the kind the code gives it. *)
TypeOK ==
  /\ {planned, sent, processed} \subseteq Nat /\ msg_count \in 0..MaxMessages
  /\ packets \in Seq([from : Nodes, to : Nodes, id : 1..msg_count])
  /\ queues \in [Nodes -> Seq([from : Nodes, id : 1..msg_count])]
  /\ last \in [Nodes -> 0..msg_count]
  /\ resets \in 0..MaxResets

Increasing(q) == \A j, k \in DOMAIN q : j < k => q[j].id < q[k].id

(* The messages in the inboxes: whose and where. *)
Waiting == UNION {{n} \X DOMAIN queues[n] : n \in Nodes}

(* Whoever they are from, a node processes its messages in the order they  *)
(* were sent in: the one it processed last, its inbox, what moves to it.   *)
(* Since the last reset every one that was sent was processed, is in an    *)
(* inbox or moves.                                                         *)
ProcessedInOrder ==
  /\ Increasing(packets)
  /\ \A n \in Nodes :
       /\ Increasing(queues[n])
       /\ \A j \in DOMAIN queues[n] : last[n] < queues[n][j].id
       /\ \A k \in DOMAIN packets : packets[k].to = n =>
            last[n] < packets[k].id /\ \A j \in DOMAIN queues[n] : queues[n][j].id < packets[k].id
  /\ sent = processed + Len(packets) + Cardinality(Waiting)
=============================================================================
