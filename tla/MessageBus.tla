----------------------------- MODULE MessageBus -----------------------------
(***************************************************************************)
(* The in-process message bus of tugas-3/src/communication/message_passing *)
(* .py: one bounded FIFO channel per registered node, and a set of nodes   *)
(* that are cut off.  The components that talk over the bus EXTEND this    *)
(* module; it declares the bus's state and the effect of its calls.        *)
(*                                                                         *)
(* send() is called without a delay everywhere in the program, so it never *)
(* suspends: a handler and all its sends are one step of the event loop.   *)
(***************************************************************************)
EXTENDS Naturals, Sequences, FiniteSets

CONSTANTS
  Node,       \* the registered nodes; a node's peers are all the others
  MaxInbox    \* asyncio.Queue(maxsize=10000): what a channel holds at most

ASSUME BusAssumption == IsFiniteSet(Node) /\ MaxInbox \in Nat \ {0}

VARIABLES
  inbox,      \* _channels: node -> the messages not yet dispatched, oldest first
  partitions  \* _partitions: the nodes that are cut off

busVars == <<inbox, partitions>>

Peers(n) == Node \ {n}

BusInit ==
  /\ inbox = [n \in Node |-> <<>>]
  /\ partitions = {}

(* Faulty: keeps a third of the channel free. *)
Accepts_ToTwoThirds(sender, receiver) ==
  /\ sender \notin partitions
  /\ receiver \notin partitions
  /\ 3 * Len(inbox[receiver]) < 2 * MaxInbox

(* send() checks the partition when a message is sent, not when it is       *)
(* received, and drops a message whose channel is full.                     *)
Accepts(sender, receiver) ==
  /\ sender \notin partitions
  /\ receiver \notin partitions
  /\ Len(inbox[receiver]) < MaxInbox

(* "out" maps each receiver to the message sent to it: no step of the       *)
(* program sends two messages to one node.                                  *)
Send(sender, out) ==
  inbox' = [r \in Node |-> IF r \in DOMAIN out /\ Accepts(sender, r)
                             THEN Append(inbox[r], out[r])
                             ELSE inbox[r]]

(* One turn of n's dispatch loop: the oldest message leaves the channel and *)
(* its handler, which never sends to n itself, sends "out".                 *)
HandleAndSend(n, out) ==
  inbox' = [r \in Node |-> IF r = n
                             THEN Tail(inbox[n])
                             ELSE IF r \in DOMAIN out /\ Accepts(n, r)
                               THEN Append(inbox[r], out[r])
                               ELSE inbox[r]]

NoMessage == [r \in {} |-> {}]
Handle(n) == HandleAndSend(n, NoMessage)
Reply(n, receiver, m) == HandleAndSend(n, [r \in {receiver} |-> m])

(* partition_nodes() and heal_partition(), called by the cluster's owner.   *)
PartitionNodes(S) == partitions' = partitions \cup S /\ UNCHANGED inbox
HealPartition == partitions' = {} /\ UNCHANGED inbox
=============================================================================
