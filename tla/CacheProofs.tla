----------------------------- MODULE CacheProofs -----------------------------
(***************************************************************************)
(* Proofs about the cache (CacheNode.tla), for any number of nodes, keys,  *)
(* readers and lines.                                                      *)
(***************************************************************************)
EXTENDS CacheNode, FiniteSetTheorems, SequenceTheorems, TLAPS

(***************************************************************************)
(* Channels.                                                               *)
(***************************************************************************)

(* A channel keeps what it holds and may get one message of M behind it.    *)
Grows(q, r, M) == r = q \/ \E m \in M : r = Append(q, m)

LEMMA SendGrows ==
  ASSUME NEW M, NEW n \in Node, NEW out, Send(n, out), \A p \in Node \cap DOMAIN out : out[p] \in M
  PROVE  /\ inbox' = [p \in Node |-> inbox'[p]]
         /\ \A p \in Node : Grows(inbox[p], inbox'[p], M)
BY DEF Send, Grows

LEMMA HandleAndSendGrows ==
  ASSUME NEW M, NEW n \in Node, NEW out, HandleAndSend(n, out),
         \A p \in Node \cap DOMAIN out : out[p] \in M
  PROVE  /\ inbox' = [p \in Node |-> inbox'[p]]
         /\ inbox'[n] = Tail(inbox[n])
         /\ \A p \in Node \ {n} : Grows(inbox[p], inbox'[p], M)
BY DEF HandleAndSend, Grows

LEMMA HandleTakes ==
  ASSUME NEW n \in Node, Handle(n)
  PROVE  /\ inbox' = [p \in Node |-> inbox'[p]]
         /\ inbox'[n] = Tail(inbox[n])
         /\ \A p \in Node \ {n} : inbox'[p] = inbox[p]
BY DEF Handle, HandleAndSend, NoMessage

LEMMA ReplyGrows ==
  ASSUME NEW n \in Node, NEW to, NEW m, Reply(n, to, m)
  PROVE  /\ inbox' = [p \in Node |-> inbox'[p]]
         /\ inbox'[n] = Tail(inbox[n])
         /\ \A p \in Node \ {n} : Grows(inbox[p], inbox'[p], {m})
BY DEF Reply, HandleAndSend, Grows

LEMMA GrowsType ==
  ASSUME NEW S, NEW M \in SUBSET S, NEW q \in Seq(S), NEW r, Grows(q, r, M)
  PROVE  r \in Seq(S)
BY AppendProperties DEF Grows

(***************************************************************************)
(* Type correctness.                                                       *)
(***************************************************************************)

LEMMA InitType == Init => TypeOK
<1> SUFFICES ASSUME Init PROVE TypeOK OBVIOUS
<1>1. inbox \in [Node -> Seq(Messages)] BY EmptySeq DEF Init, BusInit
<1>2. reads \in 0..MaxReads /\ writes \in 0..MaxWrites BY CacheAssumption DEF Init
<1> QED BY <1>1, <1>2, CacheAssumption DEF Init, BusInit, TypeOK, Calls

LEMMA HeadType ==
  ASSUME TypeOK, NEW n \in Node, inbox[n] # <<>>
  PROVE  /\ Head(inbox[n]) \in Messages /\ Tail(inbox[n]) \in Seq(Messages)
         /\ Head(inbox[n]).from \in Node /\ Head(inbox[n]).key \in Key
<1>1. inbox[n] \in Seq(Messages) BY DEF TypeOK
<1>2. Head(inbox[n]) \in Messages /\ Tail(inbox[n]) \in Seq(Messages)
  BY <1>1, HeadTailProperties
<1> QED BY <1>2 DEF Messages

LEMMA GrowingChannels ==
  ASSUME TypeOK, NEW M \in SUBSET Messages, inbox' = [p \in Node |-> inbox'[p]],
         \A p \in Node : Grows(inbox[p], inbox'[p], M)
  PROVE  inbox' \in [Node -> Seq(Messages)]
<1>1. \A p \in Node : inbox[p] \in Seq(Messages) BY DEF TypeOK
<1>2. \A p \in Node : inbox'[p] \in Seq(Messages) BY <1>1, GrowsType
<1> QED BY <1>2

LEMMA HandledChannels ==
  ASSUME TypeOK, NEW n \in Node, inbox[n] # <<>>, NEW M \in SUBSET Messages,
         inbox' = [p \in Node |-> inbox'[p]], inbox'[n] = Tail(inbox[n]),
         \A p \in Node \ {n} : Grows(inbox[p], inbox'[p], M)
  PROVE  inbox' \in [Node -> Seq(Messages)]
<1>1. \A p \in Node : inbox[p] \in Seq(Messages) BY DEF TypeOK
<1>2. \A p \in Node \ {n} : inbox'[p] \in Seq(Messages) BY <1>1, GrowsType
<1>3. inbox'[n] \in Seq(Messages) BY HeadType
<1> QED BY <1>2, <1>3

(* Where a line for k is installed, every other line is there still or has  *)
(* gone.                                                                    *)
LEMMA InstallType ==
  ASSUME TypeOK, NEW n \in Node, NEW k \in Key, NEW line \in Line, NEW S, Install(n, k, line, S)
  PROVE  cache' \in [Node -> [Key -> Line \cup {NoLine}]] /\ tracked' \in [Node -> SUBSET Key]
BY DEF TypeOK, Install

LEMMA DropType ==
  ASSUME TypeOK, NEW n \in Node, NEW k \in Key, Drop(n, k)
  PROVE  cache' \in [Node -> [Key -> Line \cup {NoLine}]] /\ tracked' \in [Node -> SUBSET Key]
BY DEF TypeOK, Drop

LEMMA WriteType ==
  ASSUME TypeOK, NEW n \in Node, NEW k \in Key, NEW v \in 0..MaxWrites, Write(n, k, v),
         cache' \in [Node -> [Key -> Line \cup {NoLine}]], tracked' \in [Node -> SUBSET Key]
  PROVE  TypeOK'
<1> DEFINE msg == [type |-> "invalidate", from |-> n, key |-> k]
           out == [p \in Peers(n) |-> msg]
<1>1. Send(n, out) BY DEF Write
<1>2. \A p \in Node \cap DOMAIN out : out[p] \in {msg} OBVIOUS
<1>3. {msg} \in SUBSET Messages BY DEF Messages
<1> HIDE DEF out, msg
<1>4. inbox' \in [Node -> Seq(Messages)] BY <1>1, <1>2, <1>3, SendGrows, GrowingChannels
<1>5. writes' \in 0..MaxWrites
  <2>1. writes \in 0..MaxWrites /\ writes < MaxWrites /\ writes' = writes + 1 /\ MaxWrites \in Nat
    BY CacheAssumption DEF TypeOK, Write
  <2> QED BY <2>1
<1>6. last' \in [Key -> 0..MaxWrites] /\ raced' \subseteq Key BY DEF TypeOK, Write
<1>7. UNCHANGED <<partitions, pending, client, reads>> BY DEF Write
<1> QED BY <1>4, <1>5, <1>6, <1>7 DEF TypeOK, Calls, Answered, Waiting

LEMMA PutType ==
  ASSUME TypeOK, NEW n \in Node, NEW k \in Key, Put(n, k)
  PROVE  TypeOK'
<1> DEFINE line == [value |-> writes + 1, state |-> "M"]
<1>1. writes + 1 \in 1..MaxWrites /\ writes + 1 \in 0..MaxWrites
  BY CacheAssumption DEF TypeOK, Put, Write
<1>2. line \in Line BY <1>1 DEF Line
<1>3. /\ Write(n, k, writes + 1)
      /\ \/ \E S \in Victims(n) : Install(n, k, line, S)
         \/ cache' = [cache EXCEPT ![n][k] = line] /\ UNCHANGED tracked
  BY DEF Put
<1> HIDE DEF line
<1>4. cache' \in [Node -> [Key -> Line \cup {NoLine}]] /\ tracked' \in [Node -> SUBSET Key]
  <2>1. CASE \E S \in Victims(n) : Install(n, k, line, S) BY <1>2, <2>1, InstallType
  <2>2. CASE cache' = [cache EXCEPT ![n][k] = line] /\ UNCHANGED tracked
    BY <1>2, <2>2 DEF TypeOK
  <2> QED BY <1>3, <2>1, <2>2
<1> QED BY <1>1, <1>3, <1>4, WriteType

LEMMA DeleteType ==
  ASSUME TypeOK, NEW n \in Node, NEW k \in Key, Delete(n, k)
  PROVE  TypeOK'
<1>1. 0 \in 0..MaxWrites BY CacheAssumption
<1> QED BY <1>1, DropType, WriteType DEF Delete

LEMMA GetMissType ==
  ASSUME TypeOK, NEW c \in Client, NEW n \in Node, NEW k \in Key, GetMiss(c, n, k)
  PROVE  TypeOK'
<1> DEFINE msg == [type |-> "fetch", from |-> n, key |-> k]
           out == [p \in Peers(n) |-> msg]
<1>1. Send(n, out) BY DEF GetMiss
<1>2. \A p \in Node \cap DOMAIN out : out[p] \in {msg} OBVIOUS
<1>3. {msg} \in SUBSET Messages BY DEF Messages
<1> HIDE DEF out, msg
<1>4. inbox' \in [Node -> Seq(Messages)] BY <1>1, <1>2, <1>3, SendGrows, GrowingChannels
<1>5. reads' \in 0..MaxReads BY CacheAssumption DEF TypeOK, GetMiss
<1>6. /\ pending' = [pending EXCEPT ![n][k] = c]
      /\ client' = [client EXCEPT ![c] = Waiting(n, k)]
      /\ client[c] = Idle
      /\ UNCHANGED <<partitions, cache, tracked, writes, last, raced>>
  BY DEF GetMiss
<1>7. Waiting(n, k) \in Calls BY DEF Calls
<1>8. client' \in [Client -> Calls] /\ pending' \in [Node -> [Key -> Client \cup {NoClient}]]
  BY <1>6, <1>7 DEF TypeOK
<1>9. ASSUME NEW p \in Node, NEW j \in Key, pending'[p][j] # NoClient
      PROVE  client'[pending'[p][j]] = Waiting(p, j)
  <2>1. CASE p = n /\ j = k
    <3>1. pending'[p][j] = c /\ client'[c] = Waiting(n, k) BY <1>6, <2>1 DEF TypeOK
    <3> QED BY <2>1, <3>1
  <2>2. CASE ~(p = n /\ j = k)
    <3>1. pending'[p][j] = pending[p][j] BY <1>6, <2>2 DEF TypeOK
    <3>2. client[pending[p][j]] = Waiting(p, j) /\ pending[p][j] \in Client
      BY <1>9, <3>1 DEF TypeOK
    <3>3. pending[p][j] # c BY <1>6, <3>2 DEF Waiting, Idle
    <3> QED BY <1>6, <3>1, <3>2, <3>3 DEF TypeOK
  <2> QED BY <2>1, <2>2
<1> QED BY <1>4, <1>5, <1>6, <1>8, <1>9 DEF TypeOK, Calls, Answered, Waiting

(* Who waits, waits for one key on one node. *)
LEMMA WaitingIsForOne ==
  ASSUME NEW n, NEW k, NEW p, NEW j, Waiting(n, k) = Waiting(p, j)
  PROVE  n = p /\ k = j
<1>1. Waiting(n, k).node = Waiting(p, j).node /\ Waiting(n, k).key = Waiting(p, j).key
  OBVIOUS
<1> QED BY <1>1 DEF Waiting

(* A call that leaves client[c], whose future - if any - is gone.           *)
LEMMA CallsType ==
  ASSUME TypeOK, NEW c \in Client, NEW n \in Node, NEW k \in Key, NEW a \in Calls,
         client[c] = Waiting(n, k),
         client' = [client EXCEPT ![c] = a], pending' = [pending EXCEPT ![n][k] = NoClient]
  PROVE  /\ client' \in [Client -> Calls] /\ pending' \in [Node -> [Key -> Client \cup {NoClient}]]
         /\ \A p \in Node, j \in Key :
              pending'[p][j] # NoClient => client'[pending'[p][j]] = Waiting(p, j)
<1>1. client' \in [Client -> Calls] /\ pending' \in [Node -> [Key -> Client \cup {NoClient}]]
  BY DEF TypeOK
<1>2. ASSUME NEW p \in Node, NEW j \in Key, pending'[p][j] # NoClient
      PROVE  client'[pending'[p][j]] = Waiting(p, j)
  <2>1. ~(p = n /\ j = k) BY <1>2 DEF TypeOK
  <2>2. pending'[p][j] = pending[p][j] BY <2>1 DEF TypeOK
  <2>3. client[pending[p][j]] = Waiting(p, j) /\ pending[p][j] \in Client
    BY <1>2, <2>2 DEF TypeOK
  <2>4. pending[p][j] # c BY <2>1, <2>3, WaitingIsForOne
  <2> QED BY <2>2, <2>3, <2>4 DEF TypeOK
<1> QED BY <1>1, <1>2

(* Where a call stands is one of three things. *)
LEMMA CallKinds ==
  ASSUME TypeOK, NEW c \in Client
  PROVE  /\ client[c].status = "waiting" =>
              /\ client[c].node \in Node /\ client[c].key \in Key
              /\ client[c] = Waiting(client[c].node, client[c].key)
         /\ client[c].status = "answered" =>
              /\ client[c].node \in Node /\ client[c].key \in Key
              /\ client[c].value \in 1..MaxWrites /\ client[c].shared \in BOOLEAN
              /\ client[c] = Answered(client[c].node, client[c].key, client[c].value, client[c].shared)
<1>1. client[c] \in Calls BY DEF TypeOK
<1> QED BY <1>1 DEF Calls, Idle, Waiting, Answered

LEMMA TimeOutType ==
  ASSUME TypeOK, NEW c \in Client, TimeOut(c)
  PROVE  TypeOK'
<1> DEFINE n == client[c].node
           k == client[c].key
<1>1. client[c].status = "waiting" BY DEF TimeOut
<1>2. n \in Node /\ k \in Key /\ client[c] = Waiting(n, k) BY <1>1, CallKinds
<1>3. /\ pending' = [pending EXCEPT ![n][k] = NoClient]
      /\ client' = [client EXCEPT ![c] = Idle]
      /\ UNCHANGED <<busVars, cache, tracked, reads, writes, last, raced>>
  BY DEF TimeOut
<1>4. Idle \in Calls BY DEF Calls
<1> HIDE DEF n, k
<1>5. /\ client' \in [Client -> Calls] /\ pending' \in [Node -> [Key -> Client \cup {NoClient}]]
      /\ \A p \in Node, j \in Key :
           pending'[p][j] # NoClient => client'[pending'[p][j]] = Waiting(p, j)
  BY <1>2, <1>3, <1>4, CallsType
<1> QED BY <1>3, <1>5 DEF TypeOK, Calls, Answered, Waiting, busVars

(* What get() installs when it goes on. *)
LEMMA ResumeInstalls ==
  ASSUME TypeOK, NEW c \in Client, Resume(c)
  PROVE  \E n \in Node, k \in Key, v \in 1..MaxWrites, b \in BOOLEAN :
           /\ client[c] = Answered(n, k, v, b)
           /\ \E S \in Victims(n) :
                Install(n, k, [value |-> v, state |-> IF b THEN "S" ELSE "E"], S)
<1> DEFINE a == client[c]
<1>1. a.status = "answered" BY DEF Resume
<1>2. /\ a.node \in Node /\ a.key \in Key /\ a.value \in 1..MaxWrites /\ a.shared \in BOOLEAN
      /\ a = Answered(a.node, a.key, a.value, a.shared)
  BY <1>1, CallKinds
<1>3. \E S \in Victims(a.node) :
        Install(a.node, a.key, [value |-> a.value, state |-> IF a.shared THEN "S" ELSE "E"], S)
  BY DEF Resume
<1> QED BY <1>2, <1>3

LEMMA ResumeType ==
  ASSUME TypeOK, NEW c \in Client, Resume(c)
  PROVE  TypeOK'
<1>1. PICK n \in Node, k \in Key, v \in 1..MaxWrites, b \in BOOLEAN :
        /\ client[c] = Answered(n, k, v, b)
        /\ \E S \in Victims(n) :
             Install(n, k, [value |-> v, state |-> IF b THEN "S" ELSE "E"], S)
  BY ResumeInstalls
<1>2. [value |-> v, state |-> IF b THEN "S" ELSE "E"] \in Line BY DEF Line
<1>3. cache' \in [Node -> [Key -> Line \cup {NoLine}]] /\ tracked' \in [Node -> SUBSET Key]
  BY <1>1, <1>2, InstallType
<1>4. client' = [client EXCEPT ![c] = Idle]
      /\ UNCHANGED <<busVars, pending, reads, writes, last, raced>>
  BY DEF Resume
<1>5. Idle \in Calls BY DEF Calls
<1>6. ASSUME NEW p \in Node, NEW j \in Key, pending'[p][j] # NoClient
      PROVE  client'[pending'[p][j]] = Waiting(p, j)
  <2>1. client[pending[p][j]] = Waiting(p, j) /\ pending[p][j] \in Client
    BY <1>4, <1>6 DEF TypeOK
  <2>2. pending[p][j] # c BY <1>1, <2>1 DEF Waiting, Answered
  <2> QED BY <1>4, <2>1, <2>2 DEF TypeOK
<1> QED BY <1>3, <1>4, <1>5, <1>6 DEF TypeOK, busVars, Calls, Answered, Waiting

(* What a handler leaves of the channels is of the right kind.              *)
LEMMA DispatchBus ==
  ASSUME TypeOK, NEW n \in Node, inbox[n] # <<>>,
         \/ Handle(n)
         \/ \E m \in Messages, to \in Node : Reply(n, to, m)
  PROVE  inbox' \in [Node -> Seq(Messages)]
<1>1. CASE Handle(n)
  <2>1. \A p \in Node \ {n} : Grows(inbox[p], inbox'[p], {}) BY <1>1, HandleTakes DEF Grows
  <2>2. inbox' = [p \in Node |-> inbox'[p]] /\ inbox'[n] = Tail(inbox[n]) BY <1>1, HandleTakes
  <2> DEFINE M == {}
  <2>3. M \in SUBSET Messages /\ \A p \in Node \ {n} : Grows(inbox[p], inbox'[p], M) BY <2>1
  <2> HIDE DEF M
  <2> QED BY <2>2, <2>3, HandledChannels
<1>2. CASE \E m \in Messages, to \in Node : Reply(n, to, m)
  <2>1. PICK m \in Messages, to \in Node : Reply(n, to, m) BY <1>2
  <2>2. {m} \in SUBSET Messages OBVIOUS
  <2> QED BY <2>1, <2>2, ReplyGrows, HandledChannels
<1> QED BY <1>1, <1>2

LEMMA FetchFinds ==
  ASSUME TypeOK, NEW n \in Node, inbox[n] # <<>>, HandleFetch(n, Head(inbox[n]))
  PROVE  LET k == Head(inbox[n]).key IN
         \/ cache[n][k] = NoLine /\ Handle(n) /\ UNCHANGED cache
         \/ /\ cache[n][k] \in Line /\ cache' = [cache EXCEPT ![n][k].state = "S"]
            /\ \E m \in Messages :
                 /\ m.type = "response" /\ m.key = k /\ m.value = cache[n][k].value
                 /\ m.shared = AnswersShared(cache[n][k])
                 /\ Reply(n, Head(inbox[n]).from, m)
<1> DEFINE msg == Head(inbox[n])
           k == msg.key
           m == [type |-> "response", from |-> n, key |-> k,
                 value |-> cache[n][k].value, shared |-> AnswersShared(cache[n][k])]
<1>1. msg.key \in Key BY HeadType
<1>2. CASE cache[n][k] = NoLine BY <1>2 DEF HandleFetch
<1>3. CASE cache[n][k] # NoLine
  <2>1. cache[n][k] \in Line BY <1>1, <1>3 DEF TypeOK
  <2>2. m \in Messages
    <3>1. cache[n][k].value \in 1..MaxWrites /\ AnswersShared(cache[n][k]) \in BOOLEAN
      BY <2>1 DEF Line, AnswersShared
    <3> QED BY <1>1, <3>1 DEF Messages
  <2>3. Reply(n, msg.from, m) /\ cache' = [cache EXCEPT ![n][k].state = "S"]
    BY <1>3 DEF HandleFetch
  <2> QED BY <2>1, <2>2, <2>3
<1> QED BY <1>2, <1>3

LEMMA DispatchType ==
  ASSUME TypeOK, NEW n \in Node, Dispatch(n)
  PROVE  TypeOK'
<1> DEFINE msg == Head(inbox[n])
           k == msg.key
<1>1. inbox[n] # <<>> /\ UNCHANGED <<partitions, reads, writes, last, raced>> BY DEF Dispatch
<1>2. msg \in Messages /\ k \in Key /\ msg.from \in Node BY <1>1, HeadType
<1> HIDE DEF msg
<1>3. CASE HandleFetch(n, msg)
  <2>1. UNCHANGED <<tracked, pending, client>> BY <1>3 DEF HandleFetch
  <2>2. \/ Handle(n) /\ UNCHANGED cache
        \/ /\ cache[n][k] \in Line /\ cache' = [cache EXCEPT ![n][k].state = "S"]
           /\ \E m \in Messages, to \in Node : Reply(n, to, m)
    BY <1>1, <1>2, <1>3, FetchFinds DEF msg
  <2>3. inbox' \in [Node -> Seq(Messages)] BY <1>1, <2>2, DispatchBus
  <2>4. cache' \in [Node -> [Key -> Line \cup {NoLine}]]
    <3>1. CASE UNCHANGED cache BY <3>1 DEF TypeOK
    <3>2. CASE cache[n][k] \in Line /\ cache' = [cache EXCEPT ![n][k].state = "S"]
      <4>1. [cache[n][k] EXCEPT !.state = "S"] \in Line BY <3>2 DEF Line
      <4>2. cache' = [cache EXCEPT ![n] = [cache[n] EXCEPT ![k] = [cache[n][k] EXCEPT !.state = "S"]]]
        BY <3>2
      <4> QED BY <1>2, <4>1, <4>2 DEF TypeOK
    <3> QED BY <2>2, <3>1, <3>2
  <2> QED BY <1>1, <2>1, <2>3, <2>4 DEF TypeOK, Calls, Answered, Waiting
<1>4. CASE HandleResponse(n, msg)
  <2> DEFINE c == pending[n][k]
  <2>1. /\ msg.type = "response" /\ Handle(n) /\ UNCHANGED <<cache, tracked>>
        /\ \/ c = NoClient /\ UNCHANGED <<pending, client>>
           \/ /\ c # NoClient
              /\ pending' = [pending EXCEPT ![n][k] = NoClient]
              /\ client' = [client EXCEPT ![c] = Answered(n, k, msg.value, msg.shared)]
    BY <1>4 DEF HandleResponse
  <2>2. inbox' \in [Node -> Seq(Messages)] BY <1>1, <2>1, DispatchBus
  <2>3. CASE UNCHANGED <<pending, client>>
    BY <1>1, <2>1, <2>2, <2>3 DEF TypeOK, Calls, Answered, Waiting
  <2>4. CASE /\ c # NoClient
             /\ pending' = [pending EXCEPT ![n][k] = NoClient]
             /\ client' = [client EXCEPT ![c] = Answered(n, k, msg.value, msg.shared)]
    <3>1. c \in Client /\ client[c] = Waiting(n, k) BY <1>2, <2>4 DEF TypeOK
    <3>2. msg.value \in 1..MaxWrites /\ msg.shared \in BOOLEAN BY <1>2, <2>1 DEF Messages
    <3>3. Answered(n, k, msg.value, msg.shared) \in Calls BY <1>2, <3>2 DEF Calls
    <3> HIDE DEF c, k
    <3>4. /\ client' \in [Client -> Calls] /\ pending' \in [Node -> [Key -> Client \cup {NoClient}]]
          /\ \A p \in Node, j \in Key :
               pending'[p][j] # NoClient => client'[pending'[p][j]] = Waiting(p, j)
      BY <1>2, <2>4, <3>1, <3>3, CallsType
    <3> QED BY <1>1, <2>1, <2>2, <3>4 DEF TypeOK, Calls, Answered, Waiting
  <2> QED BY <2>1, <2>3, <2>4
<1>5. CASE HandleInvalidate(n, msg)
  <2>1. Handle(n) /\ Drop(n, k) /\ UNCHANGED <<pending, client>> BY <1>5 DEF HandleInvalidate
  <2>2. inbox' \in [Node -> Seq(Messages)] BY <1>1, <2>1, DispatchBus
  <2>3. cache' \in [Node -> [Key -> Line \cup {NoLine}]] /\ tracked' \in [Node -> SUBSET Key]
    BY <1>2, <2>1, DropType
  <2> QED BY <1>1, <2>1, <2>2, <2>3 DEF TypeOK, Calls, Answered, Waiting
<1> QED BY <1>3, <1>4, <1>5 DEF Dispatch, msg

LEMMA NextType == TypeOK /\ [Next]_vars => TypeOK'
<1> SUFFICES ASSUME TypeOK, [Next]_vars PROVE TypeOK' OBVIOUS
<1>1. ASSUME UNCHANGED vars PROVE TypeOK'
  BY <1>1 DEF vars, busVars, TypeOK, Calls, Answered, Waiting
<1> QED BY <1>1, PutType, DeleteType, GetMissType, TimeOutType, ResumeType, DispatchType DEF Next

(* Every line, message and call has the values the code gives it, and a     *)
(* future registered in _pending_reads is always one somebody waits for     *)
(* (cache_node.py:166-256, 282-293).                                        *)
THEOREM TypeCorrect == Spec => []TypeOK
BY InitType, NextType, PTL DEF Spec

(***************************************************************************)
(* The eviction policy.                                                    *)
(***************************************************************************)

LEMMA InstallMirrors ==
  ASSUME TypeOK, PolicyMirrorsCache, NEW n \in Node, NEW k \in Key, NEW line \in Line,
         NEW S \in Victims(n), Install(n, k, line, S)
  PROVE  PolicyMirrorsCache'
<1>1. line # NoLine
  <2>1. line.value \in 1..MaxWrites /\ NoLine.value = 0 BY DEF Line, NoLine
  <2> QED BY <2>1
<1>2. cache \in [Node -> [Key -> Line \cup {NoLine}]] /\ tracked \in [Node -> SUBSET Key]
  BY DEF TypeOK
<1>3. Keys(n)' = (Keys(n) \ S) \cup {k} BY <1>1, <1>2 DEF Install, Keys
<1>4. tracked'[n] = (tracked[n] \ S) \cup {k} BY <1>2 DEF Install
<1>5. tracked[n] = Keys(n) BY DEF PolicyMirrorsCache
<1>6. Keys(n)' = tracked'[n] BY <1>3, <1>4, <1>5
<1>7. IsFiniteSet(Keys(n) \ S) /\ Cardinality(Keys(n) \ S) \in Nat
  BY CacheAssumption, FS_Subset, FS_CardinalityType DEF Keys
<1>8. Cardinality(Keys(n) \ S) < MaxSize
  <2>1. CASE ~Full(n, S) BY <1>7, <2>1, CacheAssumption DEF Full
  <2>2. CASE S = tracked[n] BY <1>5, <2>2, CacheAssumption, FS_EmptySet
  <2> QED BY <2>1, <2>2 DEF Victims
<1>9. Cardinality(Keys(n)') <= MaxSize
  <2> DEFINE rest == Keys(n) \ S
             new == rest \cup {k}
  <2> HIDE DEF rest, new
  <2>1. Cardinality(new) = IF k \in rest THEN Cardinality(rest) ELSE Cardinality(rest) + 1
    BY <1>7, FS_AddElement DEF rest, new
  <2>2. Cardinality(rest) \in Nat /\ Cardinality(rest) < MaxSize BY <1>7, <1>8 DEF rest
  <2>3. Keys(n)' = new BY <1>3 DEF rest, new
  <2>4. Cardinality(new) <= MaxSize BY <2>1, <2>2, CacheAssumption
  <2> QED BY <2>3, <2>4
<1>10. \A p \in Node \ {n} : tracked'[p] = tracked[p] /\ Keys(p)' = Keys(p)
  BY <1>2 DEF Install, Keys
<1> QED BY <1>6, <1>9, <1>10 DEF PolicyMirrorsCache

LEMMA DropMirrors ==
  ASSUME TypeOK, PolicyMirrorsCache, NEW n \in Node, NEW k \in Key, Drop(n, k)
  PROVE  PolicyMirrorsCache'
<1>1. cache \in [Node -> [Key -> Line \cup {NoLine}]] /\ tracked \in [Node -> SUBSET Key]
  BY DEF TypeOK
<1>2. Keys(n)' = Keys(n) \ {k} BY <1>1 DEF Drop, Keys
<1>3. tracked'[n] = tracked[n] \ {k} BY <1>1 DEF Drop
<1>4. IsFiniteSet(Keys(n)) BY CacheAssumption, FS_Subset DEF Keys
<1>5. /\ Cardinality(Keys(n)') <= Cardinality(Keys(n))
      /\ Cardinality(Keys(n)') \in Nat /\ Cardinality(Keys(n)) \in Nat
  BY <1>2, <1>4, FS_Subset, FS_CardinalityType
<1>6. \A p \in Node \ {n} : tracked'[p] = tracked[p] /\ Keys(p)' = Keys(p)
  BY <1>1 DEF Drop, Keys
<1>7. Cardinality(Keys(n)') <= MaxSize BY <1>5, CacheAssumption DEF PolicyMirrorsCache
<1> QED BY <1>2, <1>3, <1>6, <1>7 DEF PolicyMirrorsCache

(* Where no line comes or goes. *)
LEMMA SameKeysMirror ==
  ASSUME PolicyMirrorsCache, UNCHANGED tracked, \A n \in Node : Keys(n)' = Keys(n)
  PROVE  PolicyMirrorsCache'
BY DEF PolicyMirrorsCache

LEMMA NextMirrors == TypeOK /\ PolicyMirrorsCache /\ [Next]_vars => PolicyMirrorsCache'
<1> SUFFICES ASSUME TypeOK, PolicyMirrorsCache, [Next]_vars PROVE PolicyMirrorsCache' OBVIOUS
<1>1. cache \in [Node -> [Key -> Line \cup {NoLine}]] BY DEF TypeOK
<1>2. ASSUME UNCHANGED <<cache, tracked>> PROVE PolicyMirrorsCache'
  BY <1>2, SameKeysMirror DEF Keys
<1>3. ASSUME NEW n \in Node, NEW k \in Key, NEW line \in Line \cup {NoLine}, line # NoLine,
             cache[n][k] # NoLine, cache' = [cache EXCEPT ![n][k] = line], UNCHANGED tracked
      PROVE  PolicyMirrorsCache'
  <2>1. \A p \in Node : Keys(p)' = Keys(p) BY <1>1, <1>3 DEF Keys
  <2> QED BY <1>3, <2>1, SameKeysMirror
<1>4. ASSUME NEW n \in Node, NEW k \in Key, Put(n, k) PROVE PolicyMirrorsCache'
  <2> DEFINE line == [value |-> writes + 1, state |-> "M"]
  <2>1. line \in Line /\ line # NoLine
    <3>1. writes + 1 \in 1..MaxWrites BY <1>4, CacheAssumption DEF TypeOK, Put, Write
    <3> QED BY <3>1 DEF Line, NoLine
  <2>2. \/ \E S \in Victims(n) : Install(n, k, line, S)
        \/ cache[n][k] # NoLine /\ cache' = [cache EXCEPT ![n][k] = line] /\ UNCHANGED tracked
    BY <1>4 DEF Put
  <2> HIDE DEF line
  <2> QED BY <1>3, <2>1, <2>2, InstallMirrors
<1>5. ASSUME NEW n \in Node, NEW k \in Key, Delete(n, k) PROVE PolicyMirrorsCache'
  BY <1>5, DropMirrors DEF Delete
<1>6. ASSUME NEW c \in Client, Resume(c) PROVE PolicyMirrorsCache'
  <2>1. PICK n \in Node, k \in Key, v \in 1..MaxWrites, b \in BOOLEAN :
          \E S \in Victims(n) :
            Install(n, k, [value |-> v, state |-> IF b THEN "S" ELSE "E"], S)
    BY <1>6, ResumeInstalls
  <2>2. [value |-> v, state |-> IF b THEN "S" ELSE "E"] \in Line BY DEF Line
  <2> QED BY <2>1, <2>2, InstallMirrors
<1>7. ASSUME NEW n \in Node, Dispatch(n) PROVE PolicyMirrorsCache'
  <2> DEFINE msg == Head(inbox[n])
             k == msg.key
  <2>1. inbox[n] # <<>> BY <1>7 DEF Dispatch
  <2>2. k \in Key BY <2>1, HeadType
  <2>3. CASE HandleFetch(n, msg)
    <3>1. \/ UNCHANGED cache
          \/ cache[n][k] \in Line /\ cache' = [cache EXCEPT ![n][k].state = "S"]
      BY <2>1, <2>3, FetchFinds
    <3>2. UNCHANGED tracked BY <2>3 DEF HandleFetch
    <3>3. CASE cache[n][k] \in Line /\ cache' = [cache EXCEPT ![n][k].state = "S"]
      <4> DEFINE line == [cache[n][k] EXCEPT !.state = "S"]
      <4>1. /\ line \in Line /\ line # NoLine /\ cache[n][k] # NoLine
            /\ cache' = [cache EXCEPT ![n][k] = line]
        BY <3>3 DEF Line, NoLine
      <4> HIDE DEF line, k
      <4> QED BY <1>3, <2>2, <3>2, <4>1
    <3> QED BY <1>2, <3>1, <3>2, <3>3
  <2>4. CASE HandleResponse(n, msg) BY <1>2, <2>4 DEF HandleResponse
  <2>5. CASE HandleInvalidate(n, msg) BY <2>2, <2>5, DropMirrors DEF HandleInvalidate
  <2> QED BY <1>7, <2>3, <2>4, <2>5 DEF Dispatch
<1> QED BY <1>2, <1>4, <1>5, <1>6, <1>7 DEF Next, GetMiss, TimeOut, vars

(* The eviction policy knows exactly the lines of its node, and there are   *)
(* never more than max_size of them: of every size, and whatever lines      *)
(* fetched concurrently are installed over and beside each other            *)
(* (cache_node.py:151-164, 166-227).                                        *)
THEOREM PolicyMirrors == Spec => []PolicyMirrorsCache
<1>1. Init => TypeOK /\ PolicyMirrorsCache
  <2> SUFFICES ASSUME Init PROVE TypeOK /\ PolicyMirrorsCache OBVIOUS
  <2>1. \A n \in Node : Keys(n) = {} /\ tracked[n] = {} BY DEF Init, Keys
  <2> QED BY <2>1, InitType, FS_EmptySet, CacheAssumption DEF PolicyMirrorsCache
<1>2. TypeOK /\ [Next]_vars => TypeOK' BY NextType
<1>3. TypeOK /\ PolicyMirrorsCache /\ [Next]_vars => PolicyMirrorsCache' BY NextMirrors
<1> QED BY <1>1, <1>2, <1>3, PTL DEF Spec

(***************************************************************************)
(* Coherence.                                                              *)
(***************************************************************************)

Holds(q, m) == \E i \in DOMAIN q : q[i] = m
Fetches(m, k) == m.type = "fetch" /\ m.key = k
Invalidates(m, k) == m.type = "invalidate" /\ m.key = k
Responds(m, k) == m.type = "response" /\ m.key = k

(* An invalidation of k comes before any fetch of it. *)
DoomedIn(q, k) ==
  \E i \in DOMAIN q : Invalidates(q[i], k) /\ \A j \in 1..i - 1 : ~Fetches(q[j], k)

LEMMA GrowsHolds ==
  ASSUME NEW S, NEW q \in Seq(S), NEW M, NEW r, Grows(q, r, M), NEW m, Holds(r, m)
  PROVE  Holds(q, m) \/ m \in M
<1>1. CASE r = q BY <1>1
<1>2. CASE \E x \in M : r = Append(q, x)
  <2>1. PICK x \in M : r = Append(q, x) BY <1>2
  <2>2. PICK i \in DOMAIN r : r[i] = m BY DEF Holds
  <2>3. DOMAIN r = 1..Len(q) + 1 /\ DOMAIN q = 1..Len(q) /\ Len(q) \in Nat BY <2>1, LenProperties
  <2>4. CASE i \in 1..Len(q) BY <2>1, <2>2, <2>3, <2>4 DEF Holds
  <2>5. CASE i = Len(q) + 1 BY <2>1, <2>2, <2>5
  <2> QED BY <2>2, <2>3, <2>4, <2>5
<1> QED BY <1>1, <1>2 DEF Grows

LEMMA TailHolds ==
  ASSUME NEW S, NEW q \in Seq(S), q # <<>>, NEW m, Holds(Tail(q), m)
  PROVE  Holds(q, m)
<1>1. PICK i \in DOMAIN Tail(q) : Tail(q)[i] = m BY DEF Holds
<1>2. /\ Tail(q) \in Seq(S) /\ Len(Tail(q)) = Len(q) - 1
      /\ \A j \in 1..Len(Tail(q)) : Tail(q)[j] = q[j + 1]
  BY HeadTailProperties
<1>3. DOMAIN Tail(q) = 1..Len(q) - 1 /\ DOMAIN q = 1..Len(q) /\ Len(q) \in Nat
  BY <1>2, LenProperties
<1>4. i + 1 \in DOMAIN q /\ q[i + 1] = m BY <1>1, <1>2, <1>3
<1> QED BY <1>4 DEF Holds

LEMMA HeadHolds ==
  ASSUME NEW S, NEW q \in Seq(S), q # <<>>
  PROVE  1 \in DOMAIN q /\ Head(q) = q[1] /\ Holds(q, Head(q))
<1>1. Len(q) \in Nat \ {0} /\ DOMAIN q = 1..Len(q) BY EmptySeq, LenProperties
<1>2. Head(q) = q[1] BY HeadTailProperties
<1> QED BY <1>1, <1>2 DEF Holds

LEMMA GrowsDoomed ==
  ASSUME NEW S, NEW q \in Seq(S), NEW M, NEW r, Grows(q, r, M), NEW k, DoomedIn(q, k)
  PROVE  DoomedIn(r, k)
<1>1. CASE r = q BY <1>1
<1>2. CASE \E x \in M : r = Append(q, x)
  <2>1. PICK x \in M : r = Append(q, x) BY <1>2
  <2>2. PICK i \in DOMAIN q : Invalidates(q[i], k) /\ \A j \in 1..i - 1 : ~Fetches(q[j], k)
    BY DEF DoomedIn
  <2>3. DOMAIN r = 1..Len(q) + 1 /\ DOMAIN q = 1..Len(q) /\ Len(q) \in Nat BY <2>1, LenProperties
  <2>4. \A j \in 1..i : j \in DOMAIN r /\ r[j] = q[j] BY <2>1, <2>2, <2>3
  <2>5. i \in DOMAIN r /\ Invalidates(r[i], k) /\ \A j \in 1..i - 1 : ~Fetches(r[j], k)
    BY <2>2, <2>3, <2>4
  <2> QED BY <2>5 DEF DoomedIn
<1> QED BY <1>1, <1>2 DEF Grows

LEMMA TailDoomed ==
  ASSUME NEW S, NEW q \in Seq(S), q # <<>>, NEW k, DoomedIn(q, k), ~Invalidates(Head(q), k)
  PROVE  DoomedIn(Tail(q), k)
<1>1. PICK i \in DOMAIN q : Invalidates(q[i], k) /\ \A j \in 1..i - 1 : ~Fetches(q[j], k)
  BY DEF DoomedIn
<1>2. /\ Tail(q) \in Seq(S) /\ Len(Tail(q)) = Len(q) - 1
      /\ \A j \in 1..Len(Tail(q)) : Tail(q)[j] = q[j + 1]
  BY HeadTailProperties
<1>3. DOMAIN Tail(q) = 1..Len(q) - 1 /\ DOMAIN q = 1..Len(q) /\ Len(q) \in Nat
  BY <1>2, LenProperties
<1>4. i # 1 BY <1>1, HeadHolds
<1>5. i - 1 \in DOMAIN Tail(q) /\ Tail(q)[i - 1] = q[i]
  <2>1. i - 1 \in 1..Len(Tail(q)) /\ (i - 1) + 1 = i BY <1>1, <1>2, <1>3, <1>4
  <2>2. Tail(q)[i - 1] = q[(i - 1) + 1] BY <1>2, <2>1
  <2> QED BY <1>1, <1>2, <1>3, <1>4, <2>1, <2>2
<1>6. \A j \in 1..(i - 1) - 1 : ~Fetches(Tail(q)[j], k)
  <2> SUFFICES ASSUME NEW j \in 1..(i - 1) - 1 PROVE ~Fetches(Tail(q)[j], k) OBVIOUS
  <2>1. j + 1 \in 1..i - 1 /\ j \in 1..Len(Tail(q)) BY <1>1, <1>2, <1>3
  <2> QED BY <1>1, <1>2, <2>1
<1> QED BY <1>1, <1>5, <1>6 DEF DoomedIn

LEMMA FetchedIsNotDoomed ==
  ASSUME NEW S, NEW q \in Seq(S), q # <<>>, NEW k, Fetches(Head(q), k)
  PROVE  ~DoomedIn(q, k)
<1> SUFFICES ASSUME DoomedIn(q, k) PROVE FALSE OBVIOUS
<1>1. PICK i \in DOMAIN q : Invalidates(q[i], k) /\ \A j \in 1..i - 1 : ~Fetches(q[j], k)
  BY DEF DoomedIn
<1>2. DOMAIN q = 1..Len(q) /\ Len(q) \in Nat /\ Head(q) = q[1] BY LenProperties, HeadHolds
<1>3. i # 1 BY <1>1, <1>2 DEF Invalidates, Fetches
<1>4. 1 \in 1..i - 1 BY <1>1, <1>2, <1>3
<1> QED BY <1>1, <1>2, <1>4

LEMMA InvalidationDooms ==
  ASSUME NEW S, NEW q \in Seq(S), NEW k, NEW m, Invalidates(m, k),
         \A i \in DOMAIN q : ~Fetches(q[i], k)
  PROVE  DoomedIn(Append(q, m), k)
<1> DEFINE r == Append(q, m)
<1>1. /\ DOMAIN r = 1..Len(q) + 1 /\ DOMAIN q = 1..Len(q) /\ Len(q) \in Nat
      /\ r[Len(q) + 1] = m /\ \A j \in 1..Len(q) : r[j] = q[j]
  BY LenProperties
<1> HIDE DEF r
<1>2. Len(q) + 1 \in DOMAIN r /\ Invalidates(r[Len(q) + 1], k) BY <1>1
<1>3. \A j \in 1..(Len(q) + 1) - 1 : ~Fetches(r[j], k) BY <1>1
<1>4. DoomedIn(r, k) BY <1>2, <1>3 DEF DoomedIn
<1> QED BY <1>4 DEF r

(* Where no write of k raced: a value that is not the last one is dropped   *)
(* before it can be fetched, so none is on the way to a reader; and while   *)
(* one node holds k modified, nobody else holds it, or will install it.     *)
Alone(n, k) ==
  /\ \A p \in Node \ {n} : cache[p][k] # NoLine => DoomedIn(inbox[p], k)
  /\ \A p \in Node, m \in Messages : Holds(inbox[p], m) => ~Responds(m, k)
  /\ \A c \in Client : ~(client[c].status = "answered" /\ client[c].key = k)

KeyInv(k) ==
  /\ \A n \in Node : cache[n][k] # NoLine =>
       /\ cache[n][k].value # last[k] => DoomedIn(inbox[n], k)
       /\ cache[n][k].state = "M" => DoomedIn(inbox[n], k) \/ Alone(n, k)
  /\ \A p \in Node, m \in Messages : Holds(inbox[p], m) /\ Responds(m, k) => m.value = last[k]
  /\ \A c \in Client :
       client[c].status = "answered" /\ client[c].key = k => client[c].value = last[k]

(* Nobody is ever told that it is alone: the first line of a key is written *)
(* modified, and a line that is fetched was modified or shared.             *)
SharedOnly ==
  /\ \A n \in Node, k \in Key : cache[n][k] # NoLine => cache[n][k].state # "E"
  /\ \A p \in Node, m \in Messages : Holds(inbox[p], m) /\ m.type = "response" => m.shared
  /\ \A c \in Client : client[c].status = "answered" => client[c].shared

CoherenceInv == TypeOK /\ SharedOnly /\ \A k \in Key \ raced : KeyInv(k)

(* A step that tells no reader of k anything new. *)
LEMMA KeyKept ==
  ASSUME NEW k \in Key, KeyInv(k), last'[k] = last[k],
         \A p \in Node : /\ cache'[p][k] = cache[p][k] \/ cache'[p][k] = NoLine
                         /\ cache'[p][k] # NoLine /\ DoomedIn(inbox[p], k) => DoomedIn(inbox'[p], k),
         \A p \in Node, m \in Messages :
           Holds(inbox'[p], m) /\ Responds(m, k) => Holds(inbox[p], m),
         \A c \in Client : client'[c].status = "answered" /\ client'[c].key = k =>
                             client'[c] = client[c]
  PROVE  KeyInv(k)'
<1>1. ASSUME NEW n \in Node, cache'[n][k] # NoLine
      PROVE  /\ cache'[n][k].value # last'[k] => DoomedIn(inbox'[n], k)
             /\ cache'[n][k].state = "M" => DoomedIn(inbox'[n], k) \/ Alone(n, k)'
  <2>1. cache'[n][k] = cache[n][k] BY <1>1
  <2>2. DoomedIn(inbox[n], k) => DoomedIn(inbox'[n], k) BY <1>1
  <2>3. ASSUME Alone(n, k) PROVE Alone(n, k)'
    <3>1. \A p \in Node \ {n} : cache'[p][k] # NoLine => DoomedIn(inbox'[p], k)
      BY <2>3 DEF Alone
    <3>2. \A p \in Node, m \in Messages : Holds(inbox'[p], m) => ~Responds(m, k)
      BY <2>3 DEF Alone
    <3>3. \A c \in Client : ~(client'[c].status = "answered" /\ client'[c].key = k)
      BY <2>3 DEF Alone
    <3> QED BY <3>1, <3>2, <3>3 DEF Alone, Messages
  <2> QED BY <1>1, <2>1, <2>2, <2>3 DEF KeyInv
<1>2. \A p \in Node, m \in Messages : Holds(inbox'[p], m) /\ Responds(m, k) => m.value = last'[k]
  BY DEF KeyInv
<1>3. \A c \in Client :
        client'[c].status = "answered" /\ client'[c].key = k => client'[c].value = last'[k]
  BY DEF KeyInv
<1> QED BY <1>1, <1>2, <1>3 DEF KeyInv, Messages

LEMMA UnderWayHolds ==
  ASSUME NEW k, NEW m
  PROVE  m \in UnderWay(k) <=> m.key = k /\ \E p \in Node : Holds(inbox[p], m)
BY DEF UnderWay, Holds

(* A write nobody raced with: all others drop their lines before anybody    *)
(* can fetch them.                                                          *)
LEMMA WriteOwnsKey ==
  ASSUME TypeOK, NEW n \in Node, NEW k \in Key, NEW v, Write(n, k, v), k \notin raced',
         \/ cache'[n][k] = NoLine
         \/ cache'[n][k].value = v,
         \A p \in Node \ {n} : cache'[p] = cache[p]
  PROVE  KeyInv(k)'
<1> DEFINE msg == [type |-> "invalidate", from |-> n, key |-> k]
           out == [p \in Peers(n) |-> msg]
<1>1. ~Races(n, k) /\ last'[k] = v /\ client' = client BY DEF Write, TypeOK
<1>2. Send(n, out) BY DEF Write
<1>3. \A p \in Node : inbox[p] \in Seq(Messages) BY DEF TypeOK
<1>4. ASSUME NEW p \in Node, NEW m, Holds(inbox[p], m)
      PROVE  ~Responds(m, k) /\ ~Fetches(m, k)
  <2>1. m.key = k => m \in UnderWay(k) BY <1>4, UnderWayHolds
  <2> QED BY <1>1, <2>1 DEF Races, Responds, Fetches
<1>5. \A p \in Node \ {n} : inbox'[p] = Append(inbox[p], msg)
  BY <1>1, <1>2 DEF Send, Races, Peers
<1>6. inbox'[n] = inbox[n] BY <1>2 DEF Send, Peers
<1>7. Invalidates(msg, k) /\ ~Responds(msg, k) BY DEF Invalidates, Responds
<1> HIDE DEF msg, out
<1>8. ASSUME NEW p \in Node \ {n} PROVE DoomedIn(inbox'[p], k)
  <2>1. \A i \in DOMAIN inbox[p] : ~Fetches(inbox[p][i], k) BY <1>4 DEF Holds
  <2>2. DoomedIn(Append(inbox[p], msg), k) BY <1>3, <1>7, <2>1, InvalidationDooms
  <2> QED BY <1>5, <2>2
<1>9. ASSUME NEW p \in Node, NEW m \in Messages, Holds(inbox'[p], m) PROVE ~Responds(m, k)
  <2>1. Grows(inbox[p], inbox'[p], {msg}) BY <1>5, <1>6 DEF Grows
  <2>2. Holds(inbox[p], m) \/ m \in {msg} BY <1>3, <1>9, <2>1, GrowsHolds
  <2> QED BY <1>4, <1>7, <2>2
<1>10. \A c \in Client : ~(client'[c].status = "answered" /\ client'[c].key = k)
  BY <1>1 DEF Races, Idle
<1>11. Alone(n, k)' BY <1>8, <1>9, <1>10 DEF Alone, Messages
<1>12. ASSUME NEW p \in Node, cache'[p][k] # NoLine
       PROVE  /\ cache'[p][k].value # last'[k] => DoomedIn(inbox'[p], k)
              /\ cache'[p][k].state = "M" => DoomedIn(inbox'[p], k) \/ Alone(p, k)'
  BY <1>1, <1>8, <1>11, <1>12
<1> QED BY <1>9, <1>10, <1>12 DEF KeyInv, Messages

(* A step that lets a reader of k know what it is: that is the last value,  *)
(* and whoever holds k modified still, was told to drop it.                 *)
LEMMA KeyRead ==
  ASSUME NEW k \in Key, KeyInv(k), last'[k] = last[k],
         \A p \in Node : ~Alone(p, k) \/ cache'[p][k] = NoLine \/ cache'[p][k].state # "M",
         \A p \in Node : cache'[p][k] # NoLine =>
           /\ \/ cache'[p][k] = cache[p][k]
              \/ cache'[p][k].state # "M" /\ cache'[p][k].value = last[k]
           /\ DoomedIn(inbox[p], k) => DoomedIn(inbox'[p], k),
         \A p \in Node, m \in Messages :
           Holds(inbox'[p], m) /\ Responds(m, k) => Holds(inbox[p], m) \/ m.value = last[k],
         \A c \in Client : client'[c].status = "answered" /\ client'[c].key = k =>
                             client'[c] = client[c] \/ client'[c].value = last[k]
  PROVE  KeyInv(k)'
<1>1. ASSUME NEW n \in Node, cache'[n][k] # NoLine
      PROVE  /\ cache'[n][k].value # last'[k] => DoomedIn(inbox'[n], k)
             /\ cache'[n][k].state = "M" => DoomedIn(inbox'[n], k)
  <2>1. CASE cache'[n][k] = cache[n][k]
    <3>1. /\ cache[n][k].value # last[k] => DoomedIn(inbox[n], k)
          /\ cache[n][k].state = "M" => DoomedIn(inbox[n], k) \/ Alone(n, k)
      BY <1>1, <2>1 DEF KeyInv
    <3>2. DoomedIn(inbox[n], k) => DoomedIn(inbox'[n], k) BY <1>1
    <3> QED BY <1>1, <2>1, <3>1, <3>2
  <2>2. CASE cache'[n][k].state # "M" /\ cache'[n][k].value = last[k] BY <2>2
  <2> QED BY <1>1, <2>1, <2>2
<1>2. \A p \in Node, m \in Messages : Holds(inbox'[p], m) /\ Responds(m, k) => m.value = last'[k]
  BY DEF KeyInv
<1>3. \A c \in Client :
        client'[c].status = "answered" /\ client'[c].key = k => client'[c].value = last'[k]
  BY DEF KeyInv
<1> QED BY <1>1, <1>2, <1>3 DEF KeyInv, Messages

(* Channels that only get messages of M, none of them an answer about k.    *)
LEMMA GrowingKeeps ==
  ASSUME TypeOK, NEW M, NEW k, \A p \in Node : Grows(inbox[p], inbox'[p], M),
         \A m \in M : ~Responds(m, k)
  PROVE  /\ \A p \in Node : DoomedIn(inbox[p], k) => DoomedIn(inbox'[p], k)
         /\ \A p \in Node, m \in Messages :
              Holds(inbox'[p], m) /\ Responds(m, k) => Holds(inbox[p], m)
<1>1. \A p \in Node : inbox[p] \in Seq(Messages) BY DEF TypeOK
<1>2. \A p \in Node : DoomedIn(inbox[p], k) => DoomedIn(inbox'[p], k) BY <1>1, GrowsDoomed
<1>3. \A p \in Node, m \in Messages :
        Holds(inbox'[p], m) /\ Responds(m, k) => Holds(inbox[p], m)
  BY <1>1, GrowsHolds
<1> QED BY <1>2, <1>3

(* Channels after a turn of n's loop. *)
LEMMA HandlingKeeps ==
  ASSUME TypeOK, NEW n \in Node, inbox[n] # <<>>, NEW M, NEW k, inbox'[n] = Tail(inbox[n]),
         \A p \in Node \ {n} : Grows(inbox[p], inbox'[p], M)
  PROVE  /\ ~Invalidates(Head(inbox[n]), k) /\ DoomedIn(inbox[n], k) => DoomedIn(inbox'[n], k)
         /\ \A p \in Node \ {n} : DoomedIn(inbox[p], k) => DoomedIn(inbox'[p], k)
         /\ \A p \in Node, m \in Messages : Holds(inbox'[p], m) => Holds(inbox[p], m) \/ m \in M
<1>1. \A p \in Node : inbox[p] \in Seq(Messages) BY DEF TypeOK
<1>2. \A p \in Node \ {n} : DoomedIn(inbox[p], k) => DoomedIn(inbox'[p], k) BY <1>1, GrowsDoomed
<1>3. ~Invalidates(Head(inbox[n]), k) /\ DoomedIn(inbox[n], k) => DoomedIn(inbox'[n], k)
  BY <1>1, TailDoomed
<1>4. ASSUME NEW p \in Node, NEW m \in Messages, Holds(inbox'[p], m)
      PROVE  Holds(inbox[p], m) \/ m \in M
  <2>1. CASE p = n BY <1>1, <1>4, <2>1, TailHolds
  <2>2. CASE p # n BY <1>1, <1>4, <2>2, GrowsHolds
  <2> QED BY <2>1, <2>2
<1> QED BY <1>2, <1>3, <1>4

LEMMA WriteKeepsOthers ==
  ASSUME TypeOK, NEW n \in Node, NEW j \in Key, NEW v, Write(n, j, v),
         NEW k \in Key, k # j, KeyInv(k),
         \A p \in Node : cache'[p][k] = cache[p][k] \/ cache'[p][k] = NoLine
  PROVE  KeyInv(k)'
<1> DEFINE msg == [type |-> "invalidate", from |-> n, key |-> j]
           out == [p \in Peers(n) |-> msg]
           M == {msg}
<1>1. Send(n, out) /\ UNCHANGED client /\ last'[k] = last[k] BY DEF Write, TypeOK
<1>2. \A p \in Node \cap DOMAIN out : out[p] \in M OBVIOUS
<1>3. \A m \in M : ~Responds(m, k) BY DEF Responds
<1> HIDE DEF M, msg, out
<1>4. \A p \in Node : Grows(inbox[p], inbox'[p], M) BY <1>1, <1>2, SendGrows
<1>5. /\ \A p \in Node : DoomedIn(inbox[p], k) => DoomedIn(inbox'[p], k)
      /\ \A p \in Node, m \in Messages :
           Holds(inbox'[p], m) /\ Responds(m, k) => Holds(inbox[p], m)
  BY <1>3, <1>4, GrowingKeeps
<1> QED BY <1>1, <1>5, KeyKept

(* What a line installed for j means for the lines of k. *)
LEMMA InstalledLines ==
  ASSUME TypeOK, NEW n \in Node, NEW j \in Key, NEW line, NEW S, Install(n, j, line, S)
  PROVE  /\ cache'[n][j] = line
         /\ \A p \in Node \ {n} : cache'[p] = cache[p]
         /\ \A k \in Key \ {j}, p \in Node :
              cache'[p][k] = cache[p][k] \/ cache'[p][k] = NoLine
BY DEF TypeOK, Install

LEMMA DroppedLines ==
  ASSUME TypeOK, NEW n \in Node, NEW j \in Key, Drop(n, j)
  PROVE  /\ cache'[n][j] = NoLine
         /\ \A p \in Node \ {n} : cache'[p] = cache[p]
         /\ \A k \in Key, p \in Node :
              cache'[p][k] = cache[p][k] \/ cache'[p][k] = NoLine
BY DEF TypeOK, Drop

LEMMA PutCoherent ==
  ASSUME CoherenceInv, NEW n \in Node, NEW j \in Key, Put(n, j), NEW k \in Key \ raced'
  PROVE  KeyInv(k)'
<1> DEFINE line == [value |-> writes + 1, state |-> "M"]
<1>1. TypeOK /\ Write(n, j, writes + 1) BY DEF CoherenceInv, Put
<1>2. k \notin raced BY <1>1 DEF Write
<1>3. /\ cache'[n][j] = line
      /\ \A p \in Node \ {n} : cache'[p] = cache[p]
      /\ \A i \in Key \ {j}, p \in Node : cache'[p][i] = cache[p][i] \/ cache'[p][i] = NoLine
  <2>1. \/ \E S \in Victims(n) : Install(n, j, line, S)
        \/ cache' = [cache EXCEPT ![n][j] = line]
    BY DEF Put
  <2> HIDE DEF line
  <2>2. CASE \E S \in Victims(n) : Install(n, j, line, S) BY <1>1, <2>2, InstalledLines
  <2>3. CASE cache' = [cache EXCEPT ![n][j] = line] BY <1>1, <2>3 DEF TypeOK
  <2> QED BY <2>1, <2>2, <2>3
<1>4. CASE k = j BY <1>1, <1>3, <1>4, WriteOwnsKey
<1>5. CASE k # j
  <2>1. KeyInv(k) BY <1>2 DEF CoherenceInv
  <2> QED BY <1>1, <1>3, <1>5, <2>1, WriteKeepsOthers
<1> QED BY <1>4, <1>5

LEMMA DeleteCoherent ==
  ASSUME CoherenceInv, NEW n \in Node, NEW j \in Key, Delete(n, j), NEW k \in Key \ raced'
  PROVE  KeyInv(k)'
<1>1. TypeOK /\ Write(n, j, 0) /\ Drop(n, j) BY DEF CoherenceInv, Delete
<1>2. k \notin raced BY <1>1 DEF Write
<1>3. CASE k = j BY <1>1, <1>3, DroppedLines, WriteOwnsKey
<1>4. CASE k # j
  <2>1. KeyInv(k) BY <1>2 DEF CoherenceInv
  <2> QED BY <1>1, <1>4, <2>1, DroppedLines, WriteKeepsOthers
<1> QED BY <1>3, <1>4

LEMMA GetMissCoherent ==
  ASSUME CoherenceInv, NEW c \in Client, NEW n \in Node, NEW j \in Key, GetMiss(c, n, j),
         NEW k \in Key \ raced'
  PROVE  KeyInv(k)'
<1> DEFINE msg == [type |-> "fetch", from |-> n, key |-> j]
           out == [p \in Peers(n) |-> msg]
           M == {msg}
<1>1. /\ TypeOK /\ Send(n, out) /\ UNCHANGED <<cache, last, raced>>
      /\ client' = [client EXCEPT ![c] = Waiting(n, j)]
  BY DEF CoherenceInv, GetMiss
<1>2. KeyInv(k) BY <1>1 DEF CoherenceInv
<1>3. \A p \in Node \cap DOMAIN out : out[p] \in M OBVIOUS
<1>4. \A m \in M : ~Responds(m, k) BY DEF Responds
<1> HIDE DEF M, msg, out
<1>5. \A p \in Node : Grows(inbox[p], inbox'[p], M) BY <1>1, <1>3, SendGrows
<1>6. /\ \A p \in Node : DoomedIn(inbox[p], k) => DoomedIn(inbox'[p], k)
      /\ \A p \in Node, m \in Messages :
           Holds(inbox'[p], m) /\ Responds(m, k) => Holds(inbox[p], m)
  BY <1>1, <1>4, <1>5, GrowingKeeps
<1>7. \A d \in Client : client'[d].status = "answered" => client'[d] = client[d]
  <2>1. \A d \in Client : client'[d] = client[d] \/ client'[d] = Waiting(n, j)
    BY <1>1 DEF TypeOK
  <2> QED BY <2>1 DEF Waiting
<1> QED BY <1>1, <1>2, <1>6, <1>7, KeyKept

LEMMA TimeOutCoherent ==
  ASSUME CoherenceInv, NEW c \in Client, TimeOut(c), NEW k \in Key \ raced'
  PROVE  KeyInv(k)'
<1>1. TypeOK /\ UNCHANGED <<inbox, cache, last, raced>> /\ client' = [client EXCEPT ![c] = Idle]
  BY DEF CoherenceInv, TimeOut, busVars
<1>2. KeyInv(k) BY <1>1 DEF CoherenceInv
<1>3. \A d \in Client : client'[d].status = "answered" => client'[d] = client[d]
  <2>1. \A d \in Client : client'[d] = client[d] \/ client'[d] = Idle BY <1>1 DEF TypeOK
  <2> QED BY <2>1 DEF Idle
<1> QED BY <1>1, <1>2, <1>3, KeyKept

LEMMA ResumeCoherent ==
  ASSUME CoherenceInv, NEW c \in Client, Resume(c), NEW k \in Key \ raced'
  PROVE  KeyInv(k)'
<1>1. TypeOK /\ UNCHANGED <<inbox, last, raced>> /\ client' = [client EXCEPT ![c] = Idle]
  BY DEF CoherenceInv, Resume, busVars
<1>2. KeyInv(k) BY <1>1 DEF CoherenceInv
<1>3. PICK n \in Node, j \in Key, v \in 1..MaxWrites, b \in BOOLEAN :
        /\ client[c] = Answered(n, j, v, b)
        /\ \E S \in Victims(n) :
             Install(n, j, [value |-> v, state |-> IF b THEN "S" ELSE "E"], S)
  BY <1>1, ResumeInstalls
<1>4. client[c].status = "answered" /\ client[c].key = j /\ client[c].value = v /\ client[c].shared = b
  BY <1>3 DEF Answered
<1>5. b BY <1>4 DEF CoherenceInv, SharedOnly
<1>6. /\ cache'[n][j] = [value |-> v, state |-> "S"]
      /\ \A p \in Node \ {n} : cache'[p] = cache[p]
      /\ \A i \in Key \ {j}, p \in Node : cache'[p][i] = cache[p][i] \/ cache'[p][i] = NoLine
  BY <1>1, <1>3, <1>5, InstalledLines
<1>7. \A d \in Client : client'[d].status = "answered" => client'[d] = client[d]
  <2>1. \A d \in Client : client'[d] = client[d] \/ client'[d] = Idle BY <1>1 DEF TypeOK
  <2> QED BY <2>1 DEF Idle
<1>8. CASE k # j BY <1>1, <1>2, <1>6, <1>7, <1>8, KeyKept
<1>9. CASE k = j
  <2>1. v = last[k] BY <1>2, <1>4, <1>9 DEF KeyInv
  <2>2. \A p \in Node : ~Alone(p, k) BY <1>4, <1>9 DEF Alone
  <2>3. \A p \in Node : \/ cache'[p][k] = cache[p][k]
                        \/ cache'[p][k].state # "M" /\ cache'[p][k].value = last[k]
    BY <1>6, <1>9, <2>1
  <2> QED BY <1>1, <1>2, <1>7, <2>2, <2>3, KeyRead
<1> QED BY <1>8, <1>9

LEMMA FetchCoherent ==
  ASSUME CoherenceInv, NEW n \in Node, inbox[n] # <<>>, HandleFetch(n, Head(inbox[n])),
         UNCHANGED <<last, raced>>, NEW k \in Key \ raced
  PROVE  KeyInv(k)'
<1> DEFINE msg == Head(inbox[n])
           j == msg.key
<1>1. TypeOK /\ KeyInv(k) /\ last'[k] = last[k] BY DEF CoherenceInv
<1>2. /\ msg \in Messages /\ msg.from \in Node /\ j \in Key /\ inbox[n] \in Seq(Messages)
      /\ cache \in [Node -> [Key -> Line \cup {NoLine}]]
  BY <1>1, HeadType DEF TypeOK
<1>3. msg.type = "fetch" /\ client' = client BY DEF HandleFetch
<1>4. ~Invalidates(msg, k) BY <1>3 DEF Invalidates
<1>5. CASE Handle(n) /\ UNCHANGED cache
  <2> DEFINE M == {}
  <2>1. inbox'[n] = Tail(inbox[n]) /\ \A p \in Node \ {n} : Grows(inbox[p], inbox'[p], M)
    BY <1>5, HandleTakes DEF Grows
  <2> HIDE DEF M, msg
  <2>2. \A p \in Node : DoomedIn(inbox[p], k) => DoomedIn(inbox'[p], k)
    BY <1>1, <1>4, <2>1, HandlingKeeps DEF msg
  <2>3. \A p \in Node, m \in Messages : Holds(inbox'[p], m) => Holds(inbox[p], m)
    <3>1. \A p \in Node, m \in Messages : Holds(inbox'[p], m) => Holds(inbox[p], m) \/ m \in M
      BY <1>1, <2>1, HandlingKeeps
    <3> QED BY <3>1 DEF M
  <2> QED BY <1>1, <1>3, <1>5, <2>2, <2>3, KeyKept
<1>6. CASE /\ cache[n][j] \in Line /\ cache' = [cache EXCEPT ![n][j].state = "S"]
           /\ \E m \in Messages :
                /\ m.type = "response" /\ m.key = j /\ m.value = cache[n][j].value
                /\ Reply(n, msg.from, m)
  <2>1. PICK r \in Messages : /\ r.type = "response" /\ r.key = j /\ r.value = cache[n][j].value
                              /\ Reply(n, msg.from, r)
    BY <1>6
  <2> DEFINE M == {r}
  <2>2. inbox'[n] = Tail(inbox[n]) /\ \A p \in Node \ {n} : Grows(inbox[p], inbox'[p], M)
    BY <2>1, ReplyGrows
  <2>3. /\ cache'[n][j] = [cache[n][j] EXCEPT !.state = "S"]
        /\ \A p \in Node, i \in Key : p # n \/ i # j => cache'[p][i] = cache[p][i]
    BY <1>2, <1>6
  <2>4. cache'[n][j].state = "S" /\ cache'[n][j].value = cache[n][j].value
    BY <1>6, <2>3 DEF Line
  <2>5. cache[n][j] # NoLine BY <1>6 DEF Line, NoLine
  <2> HIDE DEF M, msg
  <2>6. \A p \in Node : DoomedIn(inbox[p], k) => DoomedIn(inbox'[p], k)
    BY <1>1, <1>4, <2>2, HandlingKeeps DEF msg
  <2>7. \A p \in Node, m \in Messages : Holds(inbox'[p], m) => Holds(inbox[p], m) \/ m = r
    <3>1. \A p \in Node, m \in Messages : Holds(inbox'[p], m) => Holds(inbox[p], m) \/ m \in M
      BY <1>1, <2>2, HandlingKeeps
    <3> QED BY <3>1 DEF M
  <2>8. CASE k # j
    <3>1. \A p \in Node : cache'[p][k] = cache[p][k] BY <2>3, <2>8
    <3>2. ~Responds(r, k) BY <2>1, <2>8 DEF Responds
    <3> QED BY <1>1, <1>3, <2>6, <2>7, <3>1, <3>2, KeyKept
  <2>9. CASE k = j
    <3>1. ~DoomedIn(inbox[n], k) BY <1>2, <1>3, <2>9, FetchedIsNotDoomed DEF Fetches, msg
    <3>2. cache[n][k].value = last[k] BY <1>1, <2>5, <2>9, <3>1 DEF KeyInv
    <3>3. \A p \in Node : p # n => ~Alone(p, k) BY <2>5, <2>9, <3>1 DEF Alone
    <3>4. \A p \in Node : \/ cache'[p][k] = cache[p][k]
                          \/ cache'[p][k].state # "M" /\ cache'[p][k].value = last[k]
      BY <2>3, <2>4, <2>9, <3>2
    <3>5. cache'[n][k].state # "M" /\ r.value = last[k] BY <2>1, <2>4, <2>9, <3>2
    <3> QED BY <1>1, <1>3, <2>6, <2>7, <3>3, <3>4, <3>5, KeyRead
  <2> QED BY <2>8, <2>9
<1>7. \/ Handle(n) /\ UNCHANGED cache
      \/ /\ cache[n][j] \in Line /\ cache' = [cache EXCEPT ![n][j].state = "S"]
         /\ \E m \in Messages :
              /\ m.type = "response" /\ m.key = j /\ m.value = cache[n][j].value
              /\ Reply(n, msg.from, m)
  BY <1>1, FetchFinds
<1> QED BY <1>5, <1>6, <1>7

LEMMA ResponseCoherent ==
  ASSUME CoherenceInv, NEW n \in Node, inbox[n] # <<>>, HandleResponse(n, Head(inbox[n])),
         UNCHANGED <<last, raced>>, NEW k \in Key \ raced
  PROVE  KeyInv(k)'
<1> DEFINE msg == Head(inbox[n])
           j == msg.key
           c == pending[n][j]
           M == {}
<1>1. TypeOK /\ KeyInv(k) /\ last'[k] = last[k] BY DEF CoherenceInv
<1>2. /\ msg \in Messages /\ j \in Key /\ inbox[n] \in Seq(Messages)
      /\ client \in [Client -> Calls] /\ c \in Client \cup {NoClient}
  BY <1>1, HeadType DEF TypeOK
<1>3. /\ msg.type = "response" /\ Handle(n) /\ cache' = cache
      /\ \/ client' = client
         \/ c # NoClient /\ client' = [client EXCEPT ![c] = Answered(n, j, msg.value, msg.shared)]
  BY DEF HandleResponse
<1>4. inbox'[n] = Tail(inbox[n]) /\ \A p \in Node \ {n} : Grows(inbox[p], inbox'[p], M)
  BY <1>3, HandleTakes DEF Grows
<1>5. ~Invalidates(msg, k) /\ Holds(inbox[n], msg) BY <1>2, <1>3, HeadHolds DEF Invalidates
<1> HIDE DEF M
<1>6. \A p \in Node : DoomedIn(inbox[p], k) => DoomedIn(inbox'[p], k)
  BY <1>1, <1>4, <1>5, HandlingKeeps
<1>7. \A p \in Node, m \in Messages : Holds(inbox'[p], m) => Holds(inbox[p], m)
  <2>1. \A p \in Node, m \in Messages : Holds(inbox'[p], m) => Holds(inbox[p], m) \/ m \in M
    BY <1>1, <1>4, HandlingKeeps
  <2> QED BY <2>1 DEF M
<1> HIDE DEF msg, c
<1>8. \A d \in Client :
        client'[d] = client[d] \/ client'[d] = Answered(n, j, msg.value, msg.shared)
  BY <1>2, <1>3
<1>9. CASE j # k
  <2>1. \A d \in Client : client'[d].status = "answered" /\ client'[d].key = k =>
                            client'[d] = client[d]
    BY <1>8, <1>9 DEF Answered
  <2> QED BY <1>1, <1>3, <1>6, <1>7, <2>1, KeyKept
<1>10. CASE j = k
  <2>1. Responds(msg, k) BY <1>3, <1>10 DEF Responds
  <2>2. msg.value = last[k] BY <1>1, <1>2, <1>5, <2>1 DEF KeyInv
  <2>3. \A p \in Node : ~Alone(p, k) BY <1>2, <1>5, <2>1 DEF Alone
  <2>4. \A d \in Client : client'[d].status = "answered" /\ client'[d].key = k =>
                            client'[d] = client[d] \/ client'[d].value = last[k]
    BY <1>8, <2>2 DEF Answered
  <2> QED BY <1>1, <1>3, <1>6, <1>7, <2>3, <2>4, KeyRead
<1> QED BY <1>9, <1>10

LEMMA InvalidateCoherent ==
  ASSUME CoherenceInv, NEW n \in Node, inbox[n] # <<>>, HandleInvalidate(n, Head(inbox[n])),
         UNCHANGED <<last, raced>>, NEW k \in Key \ raced
  PROVE  KeyInv(k)'
<1> DEFINE msg == Head(inbox[n])
           j == msg.key
           M == {}
<1>1. TypeOK /\ KeyInv(k) /\ last'[k] = last[k] BY DEF CoherenceInv
<1>2. msg \in Messages /\ j \in Key BY <1>1, HeadType
<1>3. Handle(n) /\ Drop(n, j) /\ client' = client BY DEF HandleInvalidate
<1>4. inbox'[n] = Tail(inbox[n]) /\ \A p \in Node \ {n} : Grows(inbox[p], inbox'[p], M)
  BY <1>3, HandleTakes DEF Grows
<1> HIDE DEF M
<1>5. \A p \in Node, m \in Messages : Holds(inbox'[p], m) => Holds(inbox[p], m)
  <2>1. \A p \in Node, m \in Messages : Holds(inbox'[p], m) => Holds(inbox[p], m) \/ m \in M
    BY <1>1, <1>4, HandlingKeeps
  <2> QED BY <2>1 DEF M
<1>6. \A p \in Node \ {n} : DoomedIn(inbox[p], k) => DoomedIn(inbox'[p], k)
  BY <1>1, <1>4, HandlingKeeps
<1>7. k # j /\ DoomedIn(inbox[n], k) => DoomedIn(inbox'[n], k)
  BY <1>1, <1>4, HandlingKeeps DEF Invalidates
<1> HIDE DEF msg
<1>8. /\ cache'[n][j] = NoLine
      /\ \A p \in Node : cache'[p][k] = cache[p][k] \/ cache'[p][k] = NoLine
  BY <1>1, <1>2, <1>3, DroppedLines
<1>9. \A p \in Node : cache'[p][k] # NoLine /\ DoomedIn(inbox[p], k) => DoomedIn(inbox'[p], k)
  BY <1>6, <1>7, <1>8
<1> QED BY <1>1, <1>3, <1>5, <1>8, <1>9, KeyKept

LEMMA DispatchCoherent ==
  ASSUME CoherenceInv, NEW n \in Node, Dispatch(n), NEW k \in Key \ raced'
  PROVE  KeyInv(k)'
<1>1. inbox[n] # <<>> /\ UNCHANGED <<last, raced>> /\ k \in Key \ raced BY DEF Dispatch
<1> QED BY <1>1, FetchCoherent, ResponseCoherent, InvalidateCoherent DEF Dispatch

LEMMA SharedKept ==
  ASSUME SharedOnly,
         \A p \in Node, k \in Key :
           cache'[p][k] = cache[p][k] \/ cache'[p][k] = NoLine \/ cache'[p][k].state # "E",
         \A p \in Node, m \in Messages :
           Holds(inbox'[p], m) => Holds(inbox[p], m) \/ m.type # "response" \/ m.shared,
         \A c \in Client :
           client'[c] = client[c] \/ client'[c].status # "answered" \/ client'[c].shared
  PROVE  SharedOnly'
<1>1. \A n \in Node, k \in Key : cache'[n][k] # NoLine => cache'[n][k].state # "E"
  BY DEF SharedOnly
<1>2. \A p \in Node, m \in Messages : Holds(inbox'[p], m) /\ m.type = "response" => m.shared
  BY DEF SharedOnly
<1>3. \A c \in Client : client'[c].status = "answered" => client'[c].shared
  BY DEF SharedOnly
<1> QED BY <1>1, <1>2, <1>3 DEF SharedOnly, Messages

LEMMA SendShared ==
  ASSUME TypeOK, NEW n \in Node, NEW msg, msg.type # "response",
         Send(n, [p \in Peers(n) |-> msg])
  PROVE  \A p \in Node, m \in Messages :
           Holds(inbox'[p], m) => Holds(inbox[p], m) \/ m.type # "response" \/ m.shared
<1> DEFINE out == [p \in Peers(n) |-> msg]
           M == {msg}
<1>1. \A p \in Node \cap DOMAIN out : out[p] \in M OBVIOUS
<1>2. Send(n, out) /\ \A p \in Node : inbox[p] \in Seq(Messages) BY DEF TypeOK
<1>3. \A m \in M : m.type # "response" OBVIOUS
<1> HIDE DEF M, out
<1>4. \A p \in Node : Grows(inbox[p], inbox'[p], M) BY <1>1, <1>2, SendGrows
<1>5. \A p \in Node, m \in Messages : Holds(inbox'[p], m) => Holds(inbox[p], m) \/ m \in M
  BY <1>2, <1>4, GrowsHolds
<1> QED BY <1>3, <1>5

LEMMA DispatchShared ==
  ASSUME TypeOK, SharedOnly, NEW n \in Node, Dispatch(n)
  PROVE  SharedOnly'
<1> DEFINE msg == Head(inbox[n])
           j == msg.key
<1>1. inbox[n] # <<>> BY DEF Dispatch
<1>2. /\ msg \in Messages /\ j \in Key /\ inbox[n] \in Seq(Messages) /\ Holds(inbox[n], msg)
      /\ cache \in [Node -> [Key -> Line \cup {NoLine}]] /\ client \in [Client -> Calls]
  BY <1>1, HeadType, HeadHolds DEF TypeOK
<1>3. ASSUME Handle(n)
      PROVE  \A p \in Node, m \in Messages : Holds(inbox'[p], m) => Holds(inbox[p], m)
  <2> DEFINE M == {}
  <2>1. inbox'[n] = Tail(inbox[n]) /\ \A p \in Node \ {n} : Grows(inbox[p], inbox'[p], M)
    BY <1>3, HandleTakes DEF Grows
  <2> HIDE DEF M
  <2>2. \A p \in Node, m \in Messages : Holds(inbox'[p], m) => Holds(inbox[p], m) \/ m \in M
    BY <1>1, <2>1, HandlingKeeps
  <2> QED BY <2>2 DEF M
<1>4. CASE HandleFetch(n, msg)
  <2>1. client' = client BY <1>4 DEF HandleFetch
  <2>2. CASE Handle(n) /\ UNCHANGED cache BY <1>3, <2>1, <2>2, SharedKept
  <2>3. CASE /\ cache[n][j] \in Line /\ cache' = [cache EXCEPT ![n][j].state = "S"]
             /\ \E m \in Messages : /\ m.shared = AnswersShared(cache[n][j])
                                    /\ Reply(n, msg.from, m)
    <3>1. PICK r \in Messages : r.shared = AnswersShared(cache[n][j]) /\ Reply(n, msg.from, r)
      BY <2>3
    <3> DEFINE M == {r}
    <3>2. inbox'[n] = Tail(inbox[n]) /\ \A p \in Node \ {n} : Grows(inbox[p], inbox'[p], M)
      BY <3>1, ReplyGrows
    <3>3. cache[n][j] # NoLine BY <2>3 DEF Line, NoLine
    <3>4. r.shared
      <4>1. cache[n][j].state \in {"S", "M"} BY <1>2, <2>3, <3>3 DEF Line, SharedOnly
      <4> QED BY <3>1, <4>1 DEF AnswersShared
    <3>5. /\ cache'[n][j].state = "S"
          /\ \A p \in Node, i \in Key : p # n \/ i # j => cache'[p][i] = cache[p][i]
      <4>1. cache'[n][j] = [cache[n][j] EXCEPT !.state = "S"] BY <1>2, <2>3
      <4> QED BY <1>2, <2>3, <4>1 DEF Line
    <3> HIDE DEF M, msg
    <3>6. \A p \in Node, m \in Messages : Holds(inbox'[p], m) => Holds(inbox[p], m) \/ m \in M
      BY <1>1, <3>2, HandlingKeeps
    <3>7. \A m \in M : m.shared BY <3>4 DEF M
    <3>8. \A p \in Node, k \in Key : cache'[p][k] = cache[p][k] \/ cache'[p][k].state # "E"
      BY <3>5
    <3> QED BY <2>1, <3>6, <3>7, <3>8, SharedKept
  <2> QED BY <1>1, <1>4, <2>2, <2>3, FetchFinds
<1>5. CASE HandleResponse(n, msg)
  <2> DEFINE c == pending[n][j]
  <2>1. /\ msg.type = "response" /\ Handle(n) /\ cache' = cache
        /\ \/ client' = client
           \/ client' = [client EXCEPT ![c] = Answered(n, j, msg.value, msg.shared)]
    BY <1>5 DEF HandleResponse
  <2>2. msg.shared BY <1>2, <2>1 DEF SharedOnly
  <2> HIDE DEF msg, c
  <2>3. \A d \in Client :
          client'[d] = client[d] \/ client'[d] = Answered(n, j, msg.value, msg.shared)
    BY <1>2, <2>1
  <2>4. \A d \in Client : client'[d] = client[d] \/ client'[d].shared
    BY <2>2, <2>3 DEF Answered
  <2> QED BY <1>3, <2>1, <2>4, SharedKept
<1>6. CASE HandleInvalidate(n, msg)
  <2>1. Handle(n) /\ Drop(n, j) /\ client' = client BY <1>6 DEF HandleInvalidate
  <2>2. \A p \in Node, k \in Key : cache'[p][k] = cache[p][k] \/ cache'[p][k] = NoLine
    BY <1>2, <2>1, DroppedLines
  <2> QED BY <1>3, <2>1, <2>2, SharedKept
<1> QED BY <1>4, <1>5, <1>6 DEF Dispatch

LEMMA NextShared == TypeOK /\ SharedOnly /\ [Next]_vars => SharedOnly'
<1> SUFFICES ASSUME TypeOK, SharedOnly, [Next]_vars PROVE SharedOnly' OBVIOUS
<1>1. cache \in [Node -> [Key -> Line \cup {NoLine}]] /\ client \in [Client -> Calls]
  BY DEF TypeOK
<1>2. ASSUME NEW n \in Node, NEW j \in Key, NEW v, Write(n, j, v),
             \A p \in Node, k \in Key :
               cache'[p][k] = cache[p][k] \/ cache'[p][k] = NoLine \/ cache'[p][k].state # "E"
      PROVE  SharedOnly'
  <2> DEFINE msg == [type |-> "invalidate", from |-> n, key |-> j]
  <2>1. msg.type # "response" /\ Send(n, [p \in Peers(n) |-> msg]) /\ client' = client
    BY <1>2 DEF Write
  <2> HIDE DEF msg
  <2> QED BY <1>2, <2>1, SendShared, SharedKept
<1>3. ASSUME NEW n \in Node, NEW j \in Key, Put(n, j) PROVE SharedOnly'
  <2> DEFINE line == [value |-> writes + 1, state |-> "M"]
  <2>1. line.state # "E" OBVIOUS
  <2>2. /\ Write(n, j, writes + 1)
        /\ \/ \E S \in Victims(n) : Install(n, j, line, S)
           \/ cache' = [cache EXCEPT ![n][j] = line]
    BY <1>3 DEF Put
  <2> HIDE DEF line
  <2>3. \A p \in Node, k \in Key :
          cache'[p][k] = cache[p][k] \/ cache'[p][k] = NoLine \/ cache'[p][k] = line
    <3>1. CASE \E S \in Victims(n) : Install(n, j, line, S)
      <4>1. /\ cache'[n][j] = line
            /\ \A p \in Node \ {n} : cache'[p] = cache[p]
            /\ \A k \in Key \ {j}, p \in Node :
                 cache'[p][k] = cache[p][k] \/ cache'[p][k] = NoLine
        BY <3>1, InstalledLines
      <4> QED BY <4>1
    <3>2. CASE cache' = [cache EXCEPT ![n][j] = line] BY <1>1, <3>2
    <3> QED BY <2>2, <3>1, <3>2
  <2> QED BY <1>2, <2>1, <2>2, <2>3
<1>4. ASSUME NEW n \in Node, NEW j \in Key, Delete(n, j) PROVE SharedOnly'
  BY <1>2, <1>4, DroppedLines DEF Delete
<1>5. ASSUME NEW c \in Client, NEW n \in Node, NEW j \in Key, GetMiss(c, n, j) PROVE SharedOnly'
  <2> DEFINE msg == [type |-> "fetch", from |-> n, key |-> j]
  <2>1. /\ msg.type # "response" /\ Send(n, [p \in Peers(n) |-> msg]) /\ cache' = cache
        /\ client' = [client EXCEPT ![c] = Waiting(n, j)]
    BY <1>5 DEF GetMiss
  <2> HIDE DEF msg
  <2>2. \A d \in Client : client'[d] = client[d] \/ client'[d] = Waiting(n, j) BY <1>1, <2>1
  <2>3. \A d \in Client : client'[d] = client[d] \/ client'[d].status # "answered"
    BY <2>2 DEF Waiting
  <2> QED BY <2>1, <2>3, SendShared, SharedKept
<1>6. ASSUME NEW c \in Client, client' = [client EXCEPT ![c] = Idle], inbox' = inbox,
             \A p \in Node, k \in Key :
               cache'[p][k] = cache[p][k] \/ cache'[p][k] = NoLine \/ cache'[p][k].state # "E"
      PROVE  SharedOnly'
  <2>1. \A d \in Client : client'[d] = client[d] \/ client'[d] = Idle BY <1>1, <1>6
  <2>2. \A d \in Client : client'[d] = client[d] \/ client'[d].status # "answered"
    BY <2>1 DEF Idle
  <2> QED BY <1>6, <2>2, SharedKept
<1>7. ASSUME NEW c \in Client, TimeOut(c) PROVE SharedOnly'
  BY <1>6, <1>7 DEF TimeOut, busVars
<1>8. ASSUME NEW c \in Client, Resume(c) PROVE SharedOnly'
  <2>1. PICK n \in Node, j \in Key, v \in 1..MaxWrites, b \in BOOLEAN :
          /\ client[c] = Answered(n, j, v, b)
          /\ \E S \in Victims(n) :
               Install(n, j, [value |-> v, state |-> IF b THEN "S" ELSE "E"], S)
    BY <1>8, ResumeInstalls
  <2>2. client[c].status = "answered" /\ client[c].shared = b BY <2>1 DEF Answered
  <2>3. b BY <2>2 DEF SharedOnly
  <2>4. /\ cache'[n][j] = [value |-> v, state |-> "S"]
        /\ \A p \in Node \ {n} : cache'[p] = cache[p]
        /\ \A k \in Key \ {j}, p \in Node : cache'[p][k] = cache[p][k] \/ cache'[p][k] = NoLine
    BY <2>1, <2>3, InstalledLines
  <2>5. \A p \in Node, k \in Key :
          cache'[p][k] = cache[p][k] \/ cache'[p][k] = NoLine \/ cache'[p][k].state # "E"
    BY <2>4
  <2> QED BY <1>6, <1>8, <2>5 DEF Resume, busVars
<1>9. ASSUME UNCHANGED vars PROVE SharedOnly' BY <1>9, SharedKept DEF vars, busVars
<1> QED BY <1>3, <1>4, <1>5, <1>7, <1>8, <1>9, DispatchShared DEF Next

LEMMA CoherenceInvInit == Init => CoherenceInv
<1> SUFFICES ASSUME Init PROVE CoherenceInv OBVIOUS
<1>1. /\ \A n \in Node, k \in Key : cache[n][k] = NoLine
      /\ \A n \in Node : inbox[n] = <<>>
      /\ \A c \in Client : client[c].status = "idle"
  BY DEF Init, BusInit, Idle
<1>2. \A n \in Node, m \in Messages : ~Holds(inbox[n], m) BY <1>1 DEF Holds
<1> QED BY <1>1, <1>2, InitType DEF CoherenceInv, SharedOnly, KeyInv

LEMMA CoherenceInvNext == CoherenceInv /\ [Next]_vars => CoherenceInv'
<1> SUFFICES ASSUME CoherenceInv, [Next]_vars PROVE CoherenceInv' OBVIOUS
<1>1. TypeOK /\ SharedOnly BY DEF CoherenceInv
<1>2. TypeOK' /\ SharedOnly' BY <1>1, NextType, NextShared
<1>3. ASSUME NEW k \in Key \ raced' PROVE KeyInv(k)'
  <2>1. CASE UNCHANGED vars
    <3>1. KeyInv(k) /\ UNCHANGED vars BY <2>1 DEF CoherenceInv, vars
    <3> QED BY <3>1, KeyKept DEF vars, busVars
  <2> QED BY <2>1, PutCoherent, DeleteCoherent, GetMissCoherent, TimeOutCoherent, ResumeCoherent,
             DispatchCoherent DEF Next
<1> QED BY <1>2, <1>3 DEF CoherenceInv

LEMMA DoomedInIsDoomed ==
  ASSUME NEW n, NEW k, DoomedIn(inbox[n], k)
  PROVE  Doomed(n, k)
BY DEF DoomedIn, Doomed, Invalidates

LEMMA CoherenceInvImplies == CoherenceInv => StaleIsDoomed /\ OwnerIsAlone
<1> SUFFICES ASSUME CoherenceInv PROVE StaleIsDoomed /\ OwnerIsAlone OBVIOUS
<1>1. \A p \in Node : inbox[p] \in Seq(Messages) BY DEF CoherenceInv, TypeOK
<1>2. ASSUME NEW k \in Key \ raced, NEW m \in UnderWay(k), m.type = "response"
      PROVE  m.value = last[k]
  <2>1. m.key = k /\ \E p \in Node : Holds(inbox[p], m) BY UnderWayHolds
  <2>2. PICK p \in Node : Holds(inbox[p], m) BY <2>1
  <2>3. m \in Messages BY <1>1, <2>2, ElementOfSeq, LenProperties DEF Holds
  <2> QED BY <1>2, <2>1, <2>2, <2>3 DEF CoherenceInv, KeyInv, Responds
<1>3. StaleIsDoomed
  BY <1>2, DoomedInIsDoomed DEF StaleIsDoomed, CoherenceInv, KeyInv
<1>4. ASSUME NEW k \in Key \ raced, NEW n \in Node, NEW p \in Peers(n),
             cache[n][k] # NoLine, cache[n][k].state # "S", cache[p][k] # NoLine
      PROVE  Doomed(n, k) \/ Doomed(p, k)
  <2>1. cache[n][k].state = "M"
    <3>1. cache[n][k] \in Line /\ cache[n][k].state # "E"
      BY <1>4 DEF CoherenceInv, SharedOnly, TypeOK
    <3> QED BY <1>4, <3>1 DEF Line
  <2>2. DoomedIn(inbox[n], k) \/ Alone(n, k) BY <1>4, <2>1 DEF CoherenceInv, KeyInv
  <2>3. p \in Node \ {n} BY DEF Peers
  <2> QED BY <1>4, <2>2, <2>3, DoomedInIsDoomed DEF Alone
<1> QED BY <1>3, <1>4 DEF OwnerIsAlone

(* A value that is not the last one written is dropped before it can be     *)
(* read by another node, for every key whose writes raced with nothing      *)
(* (cache_node.py:199-303).                                                 *)
THEOREM NothingStaleSpreads == Spec => []StaleIsDoomed
<1>1. Init => CoherenceInv BY CoherenceInvInit
<1>2. CoherenceInv /\ [Next]_vars => CoherenceInv' BY CoherenceInvNext
<1>3. CoherenceInv => StaleIsDoomed BY CoherenceInvImplies
<1> QED BY <1>1, <1>2, <1>3, PTL DEF Spec

(* And of such a key a modified line is the only one, but for lines whose   *)
(* invalidation is on the way (cache_node.py:257-303).                      *)
THEOREM OwnersAlone == Spec => []OwnerIsAlone
<1>1. Init => CoherenceInv BY CoherenceInvInit
<1>2. CoherenceInv /\ [Next]_vars => CoherenceInv' BY CoherenceInvNext
<1>3. CoherenceInv => OwnerIsAlone BY CoherenceInvImplies
<1> QED BY <1>1, <1>2, <1>3, PTL DEF Spec
==============================================================================
