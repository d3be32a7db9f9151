------------------------------ MODULE QueueNode ------------------------------
(***************************************************************************)
(* The distributed queue of tugas-3/src/nodes/queue_node.py: one queue     *)
(* name, whose messages are spread over the nodes by their partition key.  *)
(*                                                                         *)
(* Without the Redis mirror PersistentLog.append never suspends, and       *)
(* neither does send(): every call and handler is one step of the event    *)
(* loop.  All nodes live in one process, so a restart is one of all nodes  *)
(* and of the bus; the log files outlive it.                               *)
(***************************************************************************)
EXTENDS MessageBus

CONSTANTS
  Msg,               \* message ids
  ReplicationFactor, \* 2 in the code
  Cuttable,          \* bound: the nodes an operator may cut off
  MaxAsked,          \* bound: how often dequeue() turns to the peers
  MaxRestarts        \* bound: restarts of the process

ASSUME QueueAssumption ==
  /\ ReplicationFactor \in 1..Cardinality(Node)
  /\ Cuttable \subseteq Node
  /\ {MaxAsked, MaxRestarts} \subseteq Nat

VARIABLES
  placed,     \* id -> its primary followed by its replicas; <<>> before enqueue()
  queues,     \* node -> its local queue of copies
  inflight,   \* node -> ids delivered and not acknowledged
  expired,    \* node -> those of inflight whose visibility timeout has passed
  replicas,   \* node -> ids it stores for another node
  logged,     \* node -> the "enqueue" records of its log file
  replicated, \* node -> ids of the "replicate" records of its log file
  dead,       \* node -> peers its failure detector declared dead
  asked, restarts,
  delivered,  \* ids some dequeue() returned to a consumer
  \* History, read by no step:
  acked,      \* ids some ack() returned True for
  doubled     \* ids copied by a peer's dequeue, a promotion or a late replay

memory  == <<queues, inflight, expired, replicas>>
files   == <<logged, replicated>>
history == <<delivered, acked, doubled>>
vars    == <<busVars, placed, memory, files, dead, asked, restarts, history>>

Copy == [id : Msg, hidden : BOOLEAN]
Visible(m) == [id |-> m, hidden |-> FALSE]

(* ConsistentHashRing.get_n_nodes: distinct nodes, whichever the hash says. *)
Placements ==
  {s \in [1..ReplicationFactor -> Node] :
     \A i, j \in 1..ReplicationFactor : s[i] = s[j] => i = j}

ReplicaNodes(s) == {s[i] : i \in 2..Len(s)}

Messages ==
  [type : {"enqueue"}, from : Node, copy : Copy] \cup
  [type : {"replicate", "ack"}, from : Node, id : Msg] \cup
  [type : {"dequeue"}, from : Node]

Empty(x) == [n \in Node |-> x]

Init ==
  /\ BusInit
  /\ placed = [m \in Msg |-> <<>>]
  /\ queues = Empty(<<>>) /\ inflight = Empty({}) /\ expired = Empty({})
  /\ replicas = Empty({})
  /\ logged = Empty(<<>>) /\ replicated = Empty({})
  /\ dead = Empty({})
  /\ asked = 0 /\ restarts = 0
  /\ delivered = {} /\ acked = {} /\ doubled = {}

-----------------------------------------------------------------------------
(* enqueue                                                                 *)

Store(n, S) ==
  /\ queues' = [queues EXCEPT ![n] = @ \o S]
  /\ logged' = [logged EXCEPT ![n] = @ \o S]

Replicate(n, S) ==
  /\ replicas' = [replicas EXCEPT ![n] = @ \cup S]
  /\ replicated' = [replicated EXCEPT ![n] = @ \cup S]

(* A node may be neither the primary nor a replica of what it enqueues.     *)
Enqueue(n, m, s) ==
  /\ placed[m] = <<>>
  /\ placed' = [placed EXCEPT ![m] = s]
  /\ Store(n, IF s[1] = n THEN <<Visible(m)>> ELSE <<>>)
  /\ Replicate(n, IF n \in ReplicaNodes(s) THEN {m} ELSE {})
  /\ Send(n, [r \in {s[i] : i \in DOMAIN s} \ {n} |->
               IF r = s[1] THEN [type |-> "enqueue", from |-> n, copy |-> Visible(m)]
                           ELSE [type |-> "replicate", from |-> n, id |-> m]])
  /\ UNCHANGED <<partitions, inflight, expired, dead, asked, restarts, history>>

HandleEnqueue(n, msg) ==
  /\ msg.type = "enqueue"
  /\ Store(n, <<msg.copy>>)
  /\ Handle(n)
  /\ UNCHANGED <<inflight, expired, replicas, replicated, history>>

HandleReplicate(n, msg) ==
  /\ msg.type = "replicate"
  /\ Replicate(n, {msg.id})
  /\ Handle(n)
  /\ UNCHANGED <<queues, logged, inflight, expired, history>>

-----------------------------------------------------------------------------
(* dequeue and ack                                                         *)

(* The first copy of q that is not hidden, if there is one. *)
NextVisible(q) == {k \in DOMAIN q : ~q[k].hidden /\ \A j \in 1..k - 1 : q[j].hidden}

(* _pop_local puts the hidden copies it meets behind the others. *)
WithoutNth(q, k) == SubSeq(q, k + 1, Len(q)) \o SubSeq(q, 1, k - 1)

(* Visible copies of S, in the order of a dictionary that is left open. *)
InSomeOrder(S) ==
  {[i \in DOMAIN r |-> Visible(r[i])] :
     r \in {f \in [1..Cardinality(S) -> S] : \A m \in S : \E i \in DOMAIN f : f[i] = m}}

(* Faulty: what is put back stays in flight. *)
Kept_All(n) == inflight[n]

(* _requeue_expired_inflight takes what expired out of inflight. *)
Kept(n) == inflight[n] \ expired[n]

(* _requeue_expired_inflight, then the k-th copy of q is delivered. *)
PopAfterRequeue(n, q, k) ==
  /\ queues' = [queues EXCEPT ![n] = WithoutNth(q, k)]
  /\ inflight' = [inflight EXCEPT ![n] = Kept(n) \cup {q[k].id}]
  /\ expired' = [expired EXCEPT ![n] = {}]

(* With nothing to deliver it asks the peers and returns None. *)
AskPeers(n) ==
  /\ asked < MaxAsked /\ asked' = asked + 1
  /\ Send(n, [p \in Peers(n) |-> [type |-> "dequeue", from |-> n]])
  /\ UNCHANGED <<queues, inflight, expired, history>>

Dequeue(n) ==
  /\ \E r \in InSomeOrder(expired[n]) :
       LET q == queues[n] \o r
       IN \/ \E k \in NextVisible(q) :
               /\ PopAfterRequeue(n, q, k)
               /\ delivered' = delivered \cup {q[k].id}
               /\ UNCHANGED <<inbox, asked, acked, doubled>>
          \/ NextVisible(q) = {} /\ AskPeers(n)
  /\ UNCHANGED <<partitions, placed, replicas, files, dead, restarts>>

(* A peer's request: the copy goes to the peer's queue, still hidden, and   *)
(* stays in flight here.                                                    *)
HandleDequeue(n, msg) ==
  /\ msg.type = "dequeue"
  /\ \/ \E k \in NextVisible(queues[n]) :
          LET m == queues[n][k].id
          IN /\ queues' = [queues EXCEPT ![n] = WithoutNth(@, k)]
             /\ inflight' = [inflight EXCEPT ![n] = @ \cup {m}]
             /\ expired' = [expired EXCEPT ![n] = @ \ {m}]
             /\ doubled' = doubled \cup {m}
             /\ Reply(n, msg.from, [type |-> "enqueue", from |-> n,
                                    copy |-> [id |-> m, hidden |-> TRUE]])
     \/ /\ NextVisible(queues[n]) = {}
        /\ Handle(n)
        /\ UNCHANGED <<queues, inflight, expired, doubled>>
  /\ UNCHANGED <<replicas, files, delivered, acked>>

(* Faulty: acknowledged, its visibility timeout still passes. *)
Ack_StillExpires(n, m) ==
  /\ m \in delivered /\ m \in inflight[n]
  /\ inflight' = [inflight EXCEPT ![n] = @ \ {m}]
  /\ expired' = [expired EXCEPT ![n] = @ \cup {m}]
  /\ acked' = acked \cup {m}
  /\ UNCHANGED <<busVars, placed, queues, replicas, files, dead, asked, restarts, delivered, doubled>>

(* A consumer acknowledges what it got, on any node; where it is not in     *)
(* flight ack() changes nothing.                                            *)
Ack(n, m) ==
  /\ m \in delivered /\ m \in inflight[n]
  /\ inflight' = [inflight EXCEPT ![n] = @ \ {m}]
  /\ expired' = [expired EXCEPT ![n] = @ \ {m}]
  /\ replicas' = [replicas EXCEPT ![n] = IF n \in ReplicaNodes(placed[m]) THEN @ \ {m} ELSE @]
  /\ acked' = acked \cup {m}
  /\ Send(n, [r \in ReplicaNodes(placed[m]) \ {n} |-> [type |-> "ack", from |-> n, id |-> m]])
  /\ UNCHANGED <<partitions, placed, queues, files, dead, asked, restarts, delivered, doubled>>

HandleAck(n, msg) ==
  /\ msg.type = "ack"
  /\ replicas' = [replicas EXCEPT ![n] = @ \ {msg.id}]
  /\ Handle(n)
  /\ UNCHANGED <<queues, inflight, expired, files, history>>

Dispatch(n) ==
  /\ inbox[n] # <<>>
  /\ LET msg == Head(inbox[n])
     IN \/ HandleEnqueue(n, msg) \/ HandleReplicate(n, msg)
        \/ HandleDequeue(n, msg) \/ HandleAck(n, msg)
  /\ UNCHANGED <<partitions, placed, dead, asked, restarts>>

-----------------------------------------------------------------------------
(* Time, failures and restarts                                             *)

(* _visibility_timeout_loop *)
Requeue(n) ==
  /\ expired[n] # {}
  /\ \E r \in InSomeOrder(expired[n]) : queues' = [queues EXCEPT ![n] = @ \o r]
  /\ inflight' = [inflight EXCEPT ![n] = Kept(n)]
  /\ expired' = [expired EXCEPT ![n] = {}]
  /\ UNCHANGED <<busVars, placed, replicas, files, dead, asked, restarts, history>>

(* The visibility timeout of a copy passes: of the one in flight, or of one *)
(* that a peer's dequeue brought.                                           *)
Elapse(n, m) ==
  /\ \/ /\ m \in inflight[n] \ expired[n]
        /\ expired' = [expired EXCEPT ![n] = @ \cup {m}]
        /\ UNCHANGED queues
     \/ /\ \E k \in DOMAIN queues[n] :
             /\ queues[n][k] = [id |-> m, hidden |-> TRUE]
             /\ queues' = [queues EXCEPT ![n][k] = Visible(m)]
        /\ UNCHANGED expired
  /\ UNCHANGED <<busVars, placed, inflight, replicas, files, dead, asked, restarts, history>>

(* _on_peer_failure.  Nobody records heartbeats, so the detector declares   *)
(* every peer dead, once.                                                   *)
PeerFailure(n, p) ==
  LET S == {m \in replicas[n] : placed[m][1] = p}
  IN /\ p \in Peers(n) \ dead[n]
     /\ dead' = [dead EXCEPT ![n] = @ \cup {p}]
     /\ \E r \in InSomeOrder(S) : queues' = [queues EXCEPT ![n] = @ \o r]
     /\ replicas' = [replicas EXCEPT ![n] = @ \ S]
     /\ doubled' = doubled \cup S
     /\ UNCHANGED <<busVars, placed, inflight, expired, files, asked, restarts, delivered, acked>>

(* Faulty: replays the primaries' records only. *)
Replay_Primaries ==
  /\ queues' = logged
  /\ replicas' = Empty({})

(* _apply_log_record for each record.  An "ack" record takes its message    *)
(* out of inflight, where nothing is yet.                                   *)
Replay ==
  /\ queues' = logged
  /\ replicas' = replicated

Restart ==
  /\ restarts < MaxRestarts /\ restarts' = restarts + 1
  /\ Replay
  /\ inflight' = Empty({}) /\ expired' = Empty({})
  /\ inbox' = Empty(<<>>) /\ partitions' = {}
  /\ dead' = Empty({})
  /\ doubled' = doubled \cup acked
  /\ UNCHANGED <<placed, files, asked, delivered, acked>>

(* MessageBus.partition_nodes and heal_partition, called by an operator. *)
Cut(n) ==
  /\ n \in Cuttable /\ partitions = {}
  /\ PartitionNodes({n})
  /\ UNCHANGED <<placed, memory, files, dead, asked, restarts, history>>

Heal ==
  /\ partitions # {} /\ HealPartition
  /\ UNCHANGED <<placed, memory, files, dead, asked, restarts, history>>

Next ==
  \/ \E n \in Node :
       \/ \E m \in Msg, s \in Placements : Enqueue(n, m, s)
       \/ \E m \in Msg : Ack(n, m) \/ Elapse(n, m)
       \/ Dequeue(n) \/ Dispatch(n) \/ Requeue(n) \/ Cut(n)
       \/ \E p \in Peers(n) : PeerFailure(n, p)
  \/ Heal \/ Restart

Spec == Init /\ [][Next]_vars

-----------------------------------------------------------------------------
(* Properties.                                                             *)

QueuedOn(n) == {queues[n][k].id : k \in DOMAIN queues[n]}
Held(n) == QueuedOn(n) \cup inflight[n] \cup replicas[n]

(* Every variable holds values of the kind the code gives it, only what is  *)
(* in flight can expire, and only what was enqueued is anywhere.            *)
TypeOK ==
  /\ inbox \in [Node -> Seq(Messages)] /\ partitions \subseteq Node
  /\ placed \in [Msg -> Placements \cup {<<>>}]
  /\ queues \in [Node -> Seq(Copy)] /\ logged \in [Node -> Seq(Copy)]
  /\ {inflight, expired, replicas, replicated} \subseteq [Node -> SUBSET Msg]
  /\ \A n \in Node : /\ expired[n] \subseteq inflight[n] /\ dead[n] \subseteq Peers(n)
                     /\ \A m \in Held(n) : placed[m] # <<>>
  /\ asked \in 0..MaxAsked /\ restarts \in 0..MaxRestarts
  /\ acked \subseteq Msg /\ delivered \subseteq Msg /\ doubled \subseteq Msg

(* Durability (architecture.md:98-101): what a node wrote to its log and    *)
(* nobody acknowledged is on that node, in its queue, in flight or as a     *)
(* replica, through deliveries, timeouts, promotions and restarts.          *)
LoggedIsHeld ==
  \A n \in Node :
    {logged[n][k].id : k \in DOMAIN logged[n]} \cup replicated[n] \subseteq Held(n) \cup acked

(* A message whose copies were never multiplied by a peer's dequeue, by a   *)
(* promotion or by a restart after its ack is in one place: delivered to    *)
(* one consumer at a time, and to none once it is acknowledged.             *)
Copies(m) ==
  {n \in Node : m \in inflight[n]} \cup
  UNION {{n} \X {k \in DOMAIN queues[n] : queues[n][k].id = m} : n \in Node}

OneCopy ==
  \A m \in Msg \ doubled : Cardinality(Copies(m)) <= IF m \in acked THEN 0 ELSE 1
=============================================================================
