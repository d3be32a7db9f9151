------------------------------ MODULE CacheNode ------------------------------
(***************************************************************************)
(* The cache of tugas-3/src/nodes/cache_node.py: lines with MESI states,   *)
(* fetches and invalidations over the bus, eviction.                       *)
(*                                                                         *)
(* put() and delete() never suspend, since send() does not; get() suspends *)
(* on a miss until a peer's line or half a second has come.  No handler    *)
(* leaves a line INVALID: _handle_invalidate pops it at once.  The victim  *)
(* of an eviction is any key of the policy, which covers LRU and LFU, so   *)
(* that a hit changes nothing here.  There is no memory behind the cache.  *)
(* No node is cut off here: a message is lost when its channel is full.     *)
(***************************************************************************)
EXTENDS MessageBus

CONSTANTS
  Key,
  Client,    \* get() calls, at most one of each under way
  NoClient,
  MaxSize,   \* max_size
  MaxWrites, \* bound: calls of put() and delete()
  MaxReads   \* bound: get() calls that miss

ASSUME CacheAssumption ==
  /\ IsFiniteSet(Key) /\ NoClient \notin Client
  /\ MaxSize \in Nat \ {0} /\ {MaxWrites, MaxReads} \subseteq Nat

VARIABLES
  cache,    \* node -> key -> line, or NoLine
  tracked,  \* node -> the keys its eviction policy knows
  pending,  \* _pending_reads: node -> key -> whose future is registered
  client,   \* client -> where its get() stands
  reads,    \* the get() calls that missed so far
  writes,   \* the values written so far are 1..writes
  \* History, read by no step:
  last,     \* key -> the value written last; 0 after a delete(), or never
  raced     \* keys written while a read or another write was under way

vars == <<busVars, cache, tracked, pending, client, reads, writes, last, raced>>

Line == [value : 1..MaxWrites, state : {"M", "E", "S"}]
NoLine == [value |-> 0]

Idle == [status |-> "idle"]
Waiting(n, k) == [status |-> "waiting", node |-> n, key |-> k]
Answered(n, k, v, shared) ==
  [status |-> "answered", node |-> n, key |-> k, value |-> v, shared |-> shared]

Calls ==
  {Idle} \cup {Waiting(n, k) : n \in Node, k \in Key} \cup
  {Answered(n, k, v, b) : n \in Node, k \in Key, v \in 1..MaxWrites, b \in BOOLEAN}

Messages ==
  [type : {"fetch", "invalidate"}, from : Node, key : Key] \cup
  [type : {"response"}, from : Node, key : Key, value : 1..MaxWrites, shared : BOOLEAN]

Init ==
  /\ BusInit
  /\ cache = [n \in Node |-> [k \in Key |-> NoLine]]
  /\ tracked = [n \in Node |-> {}]
  /\ pending = [n \in Node |-> [k \in Key |-> NoClient]]
  /\ client = [c \in Client |-> Idle]
  /\ reads = 0 /\ writes = 0
  /\ last = [k \in Key |-> 0]
  /\ raced = {}

-----------------------------------------------------------------------------
(* Lines                                                                   *)

Keys(n) == {k \in Key : cache[n][k] # NoLine}

Full(n, S) == Cardinality(Keys(n) \ S) >= MaxSize

(* _ensure_capacity: one victim after the other until there is room, or the *)
(* policy knows no more.                                                    *)
Victims(n) ==
  {S \in SUBSET tracked[n] :
     /\ Full(n, S) => S = tracked[n]
     /\ S # {} => \E k \in S : Full(n, S \ {k})}

(* A line for k takes its place, and S has gone. *)
Install(n, k, line, S) ==
  /\ cache' = [cache EXCEPT ![n] =
       [j \in Key |-> IF j = k THEN line ELSE IF j \in S THEN NoLine ELSE @[j]]]
  /\ tracked' = [tracked EXCEPT ![n] = (@ \ S) \cup {k}]

(* Faulty: the policy is not told. *)
Drop_StillTracked(n, k) ==
  /\ cache' = [cache EXCEPT ![n][k] = NoLine]
  /\ UNCHANGED tracked

Drop(n, k) ==
  /\ cache' = [cache EXCEPT ![n][k] = NoLine]
  /\ tracked' = [tracked EXCEPT ![n] = @ \ {k}]

-----------------------------------------------------------------------------
(* get                                                                     *)

(* A second get() of a key takes the place of the first one's future.       *)
GetMiss(c, n, k) ==
  /\ client[c] = Idle /\ cache[n][k] = NoLine
  /\ reads < MaxReads /\ reads' = reads + 1
  /\ pending' = [pending EXCEPT ![n][k] = c]
  /\ client' = [client EXCEPT ![c] = Waiting(n, k)]
  /\ Send(n, [p \in Peers(n) |-> [type |-> "fetch", from |-> n, key |-> k]])
  /\ UNCHANGED <<partitions, cache, tracked, writes, last, raced>>

(* Faulty: leaves the future registered. *)
TimeOut_LeavesFuture(c) ==
  /\ client[c].status = "waiting"
  /\ client' = [client EXCEPT ![c] = Idle]
  /\ UNCHANGED <<busVars, cache, tracked, pending, reads, writes, last, raced>>

(* Half a second without an answer: whatever future is registered goes.     *)
TimeOut(c) ==
  /\ client[c].status = "waiting"
  /\ pending' = [pending EXCEPT ![client[c].node][client[c].key] = NoClient]
  /\ client' = [client EXCEPT ![c] = Idle]
  /\ UNCHANGED <<busVars, cache, tracked, reads, writes, last, raced>>

(* get() goes on with the answer, some time after it came.                  *)
Resume(c) ==
  LET a == client[c]
  IN /\ a.status = "answered"
     /\ \E S \in Victims(a.node) :
          Install(a.node, a.key, [value |-> a.value, state |-> IF a.shared THEN "S" ELSE "E"], S)
     /\ client' = [client EXCEPT ![c] = Idle]
     /\ UNCHANGED <<busVars, pending, reads, writes, last, raced>>

-----------------------------------------------------------------------------
(* put and delete                                                          *)

UnderWay(k) == {m \in UNION {{inbox[n][i] : i \in DOMAIN inbox[n]} : n \in Node} : m.key = k}

(* A read of k is under way, or another node's write, or an invalidation    *)
(* of this one is dropped.                                                  *)
Races(n, k) ==
  \/ \E c \in Client : client[c] # Idle /\ client[c].key = k
  \/ \E m \in UnderWay(k) : ~(m.type = "invalidate" /\ m.from = n)
  \/ \E p \in Peers(n) : ~Accepts(n, p)

(* _broadcast_invalidate, and what is recorded of the write.                *)
Write(n, k, v) ==
  /\ writes < MaxWrites /\ writes' = writes + 1
  /\ Send(n, [p \in Peers(n) |-> [type |-> "invalidate", from |-> n, key |-> k]])
  /\ last' = [last EXCEPT ![k] = v]
  /\ raced' = IF Races(n, k) THEN raced \cup {k} ELSE raced
  /\ UNCHANGED <<partitions, pending, client, reads>>

Put(n, k) ==
  LET line == [value |-> writes + 1, state |-> "M"]
  IN /\ Write(n, k, writes + 1)
     /\ IF cache[n][k] = NoLine
        THEN \E S \in Victims(n) : Install(n, k, line, S)
        ELSE cache' = [cache EXCEPT ![n][k] = line] /\ UNCHANGED tracked

Delete(n, k) == Write(n, k, 0) /\ Drop(n, k)

-----------------------------------------------------------------------------
(* Handlers                                                                *)

(* Faulty: only a line that was shared already counts as shared. *)
AnswersShared_NotModified(line) == line.state = "S"

AnswersShared(line) == line.state \in {"S", "M"}

HandleFetch(n, msg) ==
  LET k == msg.key
      line == cache[n][k]
  IN /\ msg.type = "fetch"
     /\ IF line = NoLine
        THEN Handle(n) /\ UNCHANGED cache
        ELSE /\ cache' = [cache EXCEPT ![n][k].state = "S"]
             /\ Reply(n, msg.from, [type |-> "response", from |-> n, key |-> k,
                                    value |-> line.value, shared |-> AnswersShared(line)])
     /\ UNCHANGED <<tracked, pending, client>>

(* Only the first response finds the future. *)
HandleResponse(n, msg) ==
  LET k == msg.key
      c == pending[n][k]
  IN /\ msg.type = "response"
     /\ Handle(n)
     /\ IF c = NoClient
        THEN UNCHANGED <<pending, client>>
        ELSE /\ pending' = [pending EXCEPT ![n][k] = NoClient]
             /\ client' = [client EXCEPT ![c] = Answered(n, k, msg.value, msg.shared)]
     /\ UNCHANGED <<cache, tracked>>

(* Faulty: takes a modified line for its own, newer one. *)
HandleInvalidate_KeepsModified(n, msg) ==
  /\ msg.type = "invalidate"
  /\ Handle(n)
  /\ IF cache[n][msg.key] # NoLine /\ cache[n][msg.key].state = "M"
     THEN UNCHANGED <<cache, tracked>> ELSE Drop(n, msg.key)
  /\ UNCHANGED <<pending, client>>

HandleInvalidate(n, msg) ==
  /\ msg.type = "invalidate"
  /\ Handle(n) /\ Drop(n, msg.key)
  /\ UNCHANGED <<pending, client>>

Dispatch(n) ==
  /\ inbox[n] # <<>>
  /\ LET msg == Head(inbox[n])
     IN HandleFetch(n, msg) \/ HandleResponse(n, msg) \/ HandleInvalidate(n, msg)
  /\ UNCHANGED <<partitions, reads, writes, last, raced>>

Next ==
  \/ \E n \in Node, k \in Key :
       Put(n, k) \/ Delete(n, k) \/ \E c \in Client : GetMiss(c, n, k)
  \/ \E c \in Client : TimeOut(c) \/ Resume(c)
  \/ \E n \in Node : Dispatch(n)

Spec == Init /\ [][Next]_vars

-----------------------------------------------------------------------------
(* Properties.                                                             *)

(* Every variable holds values of the kind the code gives it, and a future  *)
(* that is registered is one somebody waits for.                            *)
TypeOK ==
  /\ inbox \in [Node -> Seq(Messages)] /\ partitions \subseteq Node
  /\ cache \in [Node -> [Key -> Line \cup {NoLine}]]
  /\ tracked \in [Node -> SUBSET Key]
  /\ pending \in [Node -> [Key -> Client \cup {NoClient}]]
  /\ client \in [Client -> Calls]
  /\ reads \in 0..MaxReads /\ writes \in 0..MaxWrites
  /\ last \in [Key -> 0..MaxWrites] /\ raced \subseteq Key
  /\ \A n \in Node, k \in Key :
       pending[n][k] # NoClient => client[pending[n][k]] = Waiting(n, k)

(* The policy knows exactly the lines there are, whatever fetched lines are *)
(* installed over, after and beside others: a line it does not know would   *)
(* never be evicted, one that has gone would be evicted in place of another.*)
(* And there are no more than max_size (_ensure_capacity).                  *)
PolicyMirrorsCache ==
  \A n \in Node : tracked[n] = Keys(n) /\ Cardinality(Keys(n)) <= MaxSize

Doomed(n, k) == \E i \in DOMAIN inbox[n] : inbox[n][i].type = "invalidate" /\ inbox[n][i].key = k

(* Of a key whose writes raced with nothing, a line that does not hold the  *)
(* value written last has its invalidation on the way, and no answer on the *)
(* way to a reader, and none a reader is about to install, is stale.  This  *)
(* is less than algorithms.md:79-80 says, "kuat (linearizable untuk single  *)
(* key) - write meng-invalidate semua replica sebelum sukses": put()        *)
(* (cache_node.py:204-220) returns while its invalidations are queued, so   *)
(* until they are handled a get() elsewhere may return the old value.       *)
StaleIsDoomed ==
  \A k \in Key \ raced :
    /\ \A n \in Node : cache[n][k] # NoLine /\ cache[n][k].value # last[k] => Doomed(n, k)
    /\ \A m \in UnderWay(k) : m.type = "response" => m.value = last[k]
    /\ \A c \in Client :
         client[c].status = "answered" /\ client[c].key = k => client[c].value = last[k]

(* Of such a key, a modified or exclusive line is the only one (MESI), but  *)
(* for those whose invalidation is on the way.                              *)
OwnerIsAlone ==
  \A k \in Key \ raced, n \in Node : \A p \in Peers(n) :
    cache[n][k] # NoLine /\ cache[n][k].state # "S" /\ cache[p][k] # NoLine
      => Doomed(n, k) \/ Doomed(p, k)
=============================================================================
