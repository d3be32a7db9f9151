-------------------------- MODULE AggregatorProofs --------------------------
(***************************************************************************)
(* Theorems about Aggregator for any events, batches, workers and bounds:  *)
(* type correctness, at-least-once processing of what was delivered, that  *)
(* an accepted batch is in the stream, that the counters cover what was    *)
(* acknowledged and what was added, and that the aggregator implements the *)
(* event log.                                                              *)
(***************************************************************************)
EXTENDS Aggregator, FiniteSetTheorems, SequenceTheorems, TLAPS

(***************************************************************************)
(* What the parts of a step do to a well-typed state.                      *)
(***************************************************************************)

RedisOK ==
  /\ stream \in Seq(Event)
  /\ delivered \in 0..Len(stream)
  /\ fresh \in Seq(SUBSET (1..delivered)) /\ stale \subseteq 1..delivered

TablesOK ==
  /\ rows \subseteq Event
  /\ unique_processed \in Nat /\ duplicate_dropped \in Nat

LoopsOK ==
  /\ worker \in [Worker -> Loops]
  /\ \A w \in Worker : worker[w].todo \cup worker[w].ack_ids \subseteq 1..delivered

ClientsOK ==
  /\ request \in [Batch -> Requests]
  /\ handlers \subseteq Handlers
  /\ received \in Nat

LEMMA TypeParts ==
  /\ TypeOK <=> RedisOK /\ TablesOK /\ LoopsOK /\ ClientsOK /\ faults \in 0..MaxFaults
  /\ TypeOK' <=> RedisOK' /\ TablesOK' /\ LoopsOK' /\ ClientsOK' /\ faults' \in 0..MaxFaults
<1>1. TypeOK <=> RedisOK /\ TablesOK /\ LoopsOK /\ ClientsOK /\ faults \in 0..MaxFaults
  BY DEF TypeOK, RedisOK, TablesOK, LoopsOK, ClientsOK
<1>2. TypeOK' <=> RedisOK' /\ TablesOK' /\ LoopsOK' /\ ClientsOK' /\ faults' \in 0..MaxFaults
  BY DEF TypeOK, RedisOK, TablesOK, LoopsOK, ClientsOK
<1> QED BY <1>1, <1>2

LEMMA SeqOfMore ==
  ASSUME NEW S, NEW T, S \subseteq T, NEW s \in Seq(S)
  PROVE  s \in Seq(T)
<1>1. Len(s) \in Nat /\ \A i \in 1..Len(s) : s[i] \in S BY ElementOfSeq, LenProperties
<1>2. s = [i \in 1..Len(s) |-> s[i]] BY LenProperties
<1> QED BY <1>1, <1>2, IsASeq

LEMMA StreamIsLong ==
  ASSUME RedisOK
  PROVE  Len(stream) \in Nat /\ delivered \in Nat /\ delivered <= Len(stream)
         /\ DOMAIN stream = 1..Len(stream) /\ (\A i \in 1..Len(stream) : stream[i] \in Event)
         /\ Len(fresh) \in Nat /\ DOMAIN fresh = 1..Len(fresh)
         /\ \A k \in DOMAIN fresh : fresh[k] \subseteq 1..delivered
<1>1. Len(stream) \in Nat /\ DOMAIN stream = 1..Len(stream)
  BY LenProperties DEF RedisOK
<1>2. \A i \in 1..Len(stream) : stream[i] \in Event BY ElementOfSeq DEF RedisOK
<1>3. Len(fresh) \in Nat /\ DOMAIN fresh = 1..Len(fresh) BY LenProperties DEF RedisOK
<1>4. \A k \in DOMAIN fresh : fresh[k] \in SUBSET (1..delivered)
  BY <1>3, ElementOfSeq DEF RedisOK
<1>5. delivered \in Nat /\ delivered <= Len(stream) BY <1>1 DEF RedisOK
<1> QED BY <1>1, <1>2, <1>3, <1>4, <1>5

(* The entries of the recent deliveries f. *)
In(x, f) == \E k \in DOMAIN f : x \in f[k]

LEMMA PendingMeans ==
  /\ \A x : x \in Pending <=> x \in stale \/ In(x, fresh)
  /\ \A x : x \in Pending' <=> x \in stale' \/ In(x, fresh')
<1>1. \A x : x \in Pending <=> x \in stale \/ In(x, fresh) BY DEF Pending, In
<1>2. \A x : x \in Pending' <=> x \in stale' \/ In(x, fresh') BY DEF Pending, In
<1> QED BY <1>1, <1>2

(* A delivery makes the entries pending.                                    *)
LEMMA DeliverTypes ==
  ASSUME RedisOK, NEW d \in Nat, delivered <= d, NEW S \in SUBSET (1..d), Deliver(S)
  PROVE  /\ fresh' \in Seq(SUBSET (1..d))
         /\ \A x : In(x, fresh') <=> In(x, fresh) \/ x \in S
<1>1. delivered \in Nat BY StreamIsLong
<1>2. SUBSET (1..delivered) \subseteq SUBSET (1..d) BY <1>1
<1>3. fresh \in Seq(SUBSET (1..d)) BY <1>2, SeqOfMore DEF RedisOK
<1>4. CASE S = {} BY <1>3, <1>4 DEF Deliver, In
<1>5. CASE S # {}
  <2>1. fresh' = Append(fresh, S) BY <1>5 DEF Deliver
  <2>2. /\ fresh' \in Seq(SUBSET (1..d)) /\ Len(fresh') = Len(fresh) + 1
        /\ \A k \in 1..Len(fresh) : fresh'[k] = fresh[k]
        /\ fresh'[Len(fresh) + 1] = S
    BY <2>1, <1>3, AppendProperties
  <2>3. /\ Len(fresh) \in Nat /\ DOMAIN fresh = 1..Len(fresh)
        /\ DOMAIN fresh' = 1..Len(fresh) + 1
    BY <2>2, <1>3, LenProperties
  <2>4. DOMAIN fresh' = DOMAIN fresh \cup {Len(fresh) + 1} BY <2>3
  <2>5. \A x : In(x, fresh') <=> In(x, fresh) \/ x \in S BY <2>2, <2>3, <2>4 DEF In
  <2> QED BY <2>2, <2>5
<1> QED BY <1>4, <1>5

LEMMA TakeStaleTypes ==
  ASSUME RedisOK, NEW S \in SUBSET stale, TakeStale(S)
  PROVE  RedisOK' /\ Pending' = Pending /\ UNCHANGED <<stream, delivered>>
<1>1. UNCHANGED <<stream, delivered>> /\ stale' = stale \ S /\ Deliver(S) BY DEF TakeStale
<1>2. delivered \in Nat /\ delivered <= delivered /\ S \subseteq 1..delivered
  BY StreamIsLong DEF RedisOK
<1>3. /\ fresh' \in Seq(SUBSET (1..delivered))
      /\ \A x : In(x, fresh') <=> In(x, fresh) \/ x \in S
  BY <1>1, <1>2, DeliverTypes
<1>4. RedisOK' BY <1>1, <1>3 DEF RedisOK
<1>5. Pending' = Pending BY <1>1, <1>3, PendingMeans
<1> QED BY <1>1, <1>4, <1>5

LEMMA AcknowledgeTypes ==
  ASSUME RedisOK, NEW S, Acknowledge(S)
  PROVE  RedisOK' /\ Pending' = Pending \ S /\ UNCHANGED <<stream, delivered>>
<1>1. /\ UNCHANGED <<stream, delivered>> /\ stale' = stale \ S
      /\ fresh' = [k \in DOMAIN fresh |-> fresh[k] \ S]
  BY DEF Acknowledge
<1>2. /\ Len(fresh) \in Nat /\ DOMAIN fresh = 1..Len(fresh)
      /\ \A k \in DOMAIN fresh : fresh[k] \subseteq 1..delivered
  BY StreamIsLong
<1>3. fresh' \in Seq(SUBSET (1..delivered)) BY <1>1, <1>2, IsASeq
<1>4. RedisOK' BY <1>1, <1>3 DEF RedisOK
<1>5. DOMAIN fresh' = DOMAIN fresh /\ \A k \in DOMAIN fresh : fresh'[k] = fresh[k] \ S
  BY <1>1
<1>6. \A x : In(x, fresh') <=> In(x, fresh) /\ x \notin S
  BY <1>5 DEF In
<1>7. Pending' = Pending \ S BY <1>1, <1>6, PendingMeans
<1> QED BY <1>1, <1>4, <1>7

(* XREADGROUP delivers a run of entries without a gap.                      *)
LEMMA NewEntriesFollow ==
  ASSUME RedisOK
  PROVE  LET n == Cardinality(NewEntries)
         IN  n \in Nat /\ NewEntries = delivered + 1 .. delivered + n /\ delivered + n <= Len(stream)
<1> DEFINE L == Len(stream)
           m == IF delivered + Count <= L THEN delivered + Count ELSE L
<1>1. L \in Nat /\ delivered \in Nat /\ delivered <= L /\ Count \in Nat
  BY StreamIsLong, AggregatorAssumption
<1>2. NewEntries = {i \in 1..L : delivered < i /\ i <= delivered + Count} BY DEF NewEntries
<1> HIDE DEF L
<1>3. NewEntries = delivered + 1 .. m BY <1>1, <1>2
<1>4. m \in Nat /\ delivered <= m /\ m <= L BY <1>1
<1> HIDE DEF m
<1>5. Cardinality(delivered + 1 .. m) = IF delivered + 1 > m THEN 0 ELSE m - (delivered + 1) + 1
  <2>1. delivered + 1 \in Int /\ m \in Int BY <1>1, <1>4
  <2> QED BY <2>1, FS_Interval
<1>6. Cardinality(NewEntries) = m - delivered BY <1>1, <1>3, <1>4, <1>5
<1>7. m - delivered \in Nat /\ delivered + (m - delivered) = m BY <1>1, <1>4
<1> QED BY <1>3, <1>4, <1>6, <1>7 DEF L

LEMMA TakeNewTypes ==
  ASSUME RedisOK, TakeNew(NewEntries)
  PROVE  /\ RedisOK' /\ Pending' = Pending \cup NewEntries /\ UNCHANGED stream
         /\ delivered <= delivered' /\ 1..delivered' = (1..delivered) \cup NewEntries
<1> DEFINE n == Cardinality(NewEntries)
<1>1. n \in Nat /\ NewEntries = delivered + 1 .. delivered + n /\ delivered + n <= Len(stream)
  BY NewEntriesFollow
<1>2. /\ delivered' = delivered + n /\ Deliver(NewEntries) /\ stream' = stream /\ stale' = stale
  BY DEF TakeNew
<1>3. delivered \in Nat /\ Len(stream) \in Nat BY StreamIsLong
<1> HIDE DEF n
<1>4. delivered + n \in Nat /\ delivered <= delivered + n BY <1>1, <1>3
<1>5. 1..(delivered + n) = (1..delivered) \cup NewEntries BY <1>1, <1>3
<1>6. /\ fresh' \in Seq(SUBSET (1..(delivered + n)))
      /\ \A x : In(x, fresh') <=> In(x, fresh) \/ x \in NewEntries
  BY <1>2, <1>4, <1>5, DeliverTypes
<1>7. delivered' \in 0..Len(stream') BY <1>1, <1>2, <1>3, <1>4
<1>8. stale' \subseteq 1..delivered' BY <1>2, <1>5 DEF RedisOK
<1>9. RedisOK' BY <1>2, <1>6, <1>7, <1>8 DEF RedisOK
<1>10. Pending' = Pending \cup NewEntries BY <1>2, <1>6, PendingMeans
<1> QED BY <1>2, <1>4, <1>5, <1>9, <1>10

LEMMA AgeTypes ==
  ASSUME RedisOK, Age
  PROVE  RedisOK' /\ Pending' = Pending /\ UNCHANGED <<stream, delivered>>
<1>1. /\ UNCHANGED <<stream, delivered>> /\ fresh # <<>>
      /\ stale' = stale \cup Head(fresh) /\ fresh' = Tail(fresh)
  BY DEF Age
<1>2. fresh \in Seq(SUBSET (1..delivered)) BY DEF RedisOK
<1>3. /\ Tail(fresh) \in Seq(SUBSET (1..delivered)) /\ Head(fresh) = fresh[1]
      /\ Len(Tail(fresh)) = Len(fresh) - 1
      /\ \A i \in 1..Len(Tail(fresh)) : Tail(fresh)[i] = fresh[i + 1]
  BY <1>1, <1>2, HeadTailProperties
<1>4. /\ Len(fresh) \in Nat /\ Len(fresh) # 0 /\ DOMAIN fresh = 1..Len(fresh)
      /\ Len(fresh') \in Nat /\ DOMAIN fresh' = 1..Len(fresh')
  <2>1. fresh' \in Seq(SUBSET (1..delivered)) BY <1>1, <1>3
  <2>2. Len(fresh) \in Nat /\ DOMAIN fresh = 1..Len(fresh) BY <1>2, LenProperties
  <2>3. Len(fresh') \in Nat /\ DOMAIN fresh' = 1..Len(fresh') BY <2>1, LenProperties
  <2>4. Len(fresh) # 0 BY <1>1, <1>2, EmptySeq
  <2> QED BY <2>2, <2>3, <2>4
<1>5. fresh[1] \subseteq 1..delivered BY <1>4, StreamIsLong
<1>6. RedisOK' BY <1>1, <1>3, <1>5 DEF RedisOK
<1>7. /\ \A k \in DOMAIN fresh' : k + 1 \in DOMAIN fresh /\ fresh'[k] = fresh[k + 1]
      /\ \A k \in DOMAIN fresh : k = 1 \/ (k - 1 \in DOMAIN fresh' /\ fresh[k] = fresh'[k - 1])
  <2> DEFINE n == Len(fresh)
             m == Len(fresh')
  <2>1. n \in Nat /\ m \in Nat /\ m = n - 1 /\ DOMAIN fresh = 1..n /\ DOMAIN fresh' = 1..m
    BY <1>1, <1>3, <1>4
  <2>2. \A k \in 1..m : fresh'[k] = fresh[k + 1] BY <1>1, <1>3
  <2> HIDE DEF n, m
  <2>3. \A k \in 1..n : k = 1 \/ (k - 1 \in 1..m /\ (k - 1) + 1 = k) BY <2>1
  <2>4. \A k \in 1..m : k + 1 \in 1..n BY <2>1
  <2>5. \A k \in 1..n : k = 1 \/ (k - 1 \in 1..m /\ fresh[k] = fresh'[k - 1])
    <3> SUFFICES ASSUME NEW k \in 1..n, k # 1 PROVE k - 1 \in 1..m /\ fresh[k] = fresh'[k - 1]
      OBVIOUS
    <3>1. k - 1 \in 1..m /\ (k - 1) + 1 = k BY <2>3
    <3>2. fresh'[k - 1] = fresh[(k - 1) + 1] BY <3>1, <2>2
    <3> QED BY <3>1, <3>2
  <2>6. DOMAIN fresh = 1..n /\ DOMAIN fresh' = 1..m BY <2>1
  <2>7. \A k \in DOMAIN fresh' : k + 1 \in DOMAIN fresh /\ fresh'[k] = fresh[k + 1]
    BY <2>2, <2>4, <2>6
  <2>8. \A k \in DOMAIN fresh : k = 1 \/ (k - 1 \in DOMAIN fresh' /\ fresh[k] = fresh'[k - 1])
    BY <2>5, <2>6
  <2> QED BY <2>7, <2>8
<1>8. \A x : In(x, fresh) <=> x \in fresh[1] \/ In(x, fresh')
  BY <1>4, <1>7 DEF In
<1>9. Pending' = Pending BY <1>1, <1>3, <1>8, PendingMeans
<1> QED BY <1>1, <1>6, <1>9

LEMMA AddTypes ==
  ASSUME RedisOK, NEW e \in Event, stream' = Append(stream, e), UNCHANGED <<delivered, fresh, stale>>
  PROVE  /\ RedisOK' /\ Pending' = Pending
         /\ Len(stream') = Len(stream) + 1 /\ stream'[Len(stream')] = e
         /\ \A i \in 1..Len(stream) : stream'[i] = stream[i]
<1>1. /\ stream' \in Seq(Event) /\ Len(stream') = Len(stream) + 1
      /\ stream'[Len(stream) + 1] = e
      /\ \A i \in 1..Len(stream) : stream'[i] = stream[i]
  BY AppendProperties DEF RedisOK
<1>2. delivered' \in 0..Len(stream') BY <1>1, StreamIsLong
<1> QED BY <1>1, <1>2 DEF RedisOK, Pending

(* A transaction that commits has its event in the table afterwards.        *)
LEMMA CommitTypes ==
  ASSUME TablesOK, NEW e \in Event, Commit(e)
  PROVE  TablesOK' /\ rows \subseteq rows' /\ e \in rows'
BY DEF TablesOK, Commit

LEMMA RaisesTypes ==
  ASSUME TablesOK, faults \in 0..MaxFaults, NEW e \in Event, Raises(e)
  PROVE  TablesOK' /\ rows \subseteq rows' /\ faults' \in 0..MaxFaults
<1>1. CASE UNCHANGED tableVars
  BY <1>1, AggregatorAssumption DEF TablesOK, tableVars, Raises, Fault
<1>2. CASE Fault /\ Commit(e) BY <1>2, CommitTypes, AggregatorAssumption DEF Fault
<1> QED BY <1>1, <1>2 DEF Raises

(* A loop that is well-typed stays so when the group's position advances.   *)
LEMMA LoopsStay ==
  ASSUME LoopsOK, RedisOK, RedisOK', delivered <= delivered',
         NEW w \in Worker, NEW l \in Loops, l.todo \cup l.ack_ids \subseteq 1..delivered',
         worker' = [worker EXCEPT ![w] = l]
  PROVE  LoopsOK'
<1>1. delivered \in Nat /\ delivered' \in Nat BY StreamIsLong DEF RedisOK
<1>2. 1..delivered \subseteq 1..delivered' BY <1>1
<1>3. worker' \in [Worker -> Loops] BY DEF LoopsOK
<1>4. \A v \in Worker : worker'[v] = IF v = w THEN l ELSE worker[v] BY DEF LoopsOK
<1>5. \A v \in Worker : worker'[v].todo \cup worker'[v].ack_ids \subseteq 1..delivered'
  BY <1>2, <1>4 DEF LoopsOK
<1> QED BY <1>3, <1>5 DEF LoopsOK

LEMMA NewLoopTypes == NewLoop \in Loops /\ \A n \in 0..ClaimEvery - 1 :
                        [NewLoop EXCEPT !.idle_cycles = n] \in Loops
<1>1. 0 \in 0..ClaimEvery - 1 BY AggregatorAssumption
<1> QED BY <1>1 DEF NewLoop, Loops

(* The entry a loop comes to next is one of its own.                        *)
LEMMA NextEntry ==
  ASSUME LoopsOK, RedisOK, NEW w \in Worker, NEW i \in First(worker[w].todo)
  PROVE  i \in worker[w].todo /\ i \in 1..delivered /\ i \in 1..Len(stream) /\ stream[i] \in Event
<1>1. i \in worker[w].todo BY DEF First
<1>2. i \in 1..delivered BY <1>1 DEF LoopsOK
<1>3. i \in 1..Len(stream) BY <1>2, StreamIsLong
<1>4. stream[i] \in Event BY <1>3, StreamIsLong
<1> QED BY <1>1, <1>2, <1>3, <1>4

(***************************************************************************)
(* Type correctness.                                                       *)
(***************************************************************************)

LEMMA InitTypes == Init => TypeOK
<1> SUFFICES ASSUME Init PROVE TypeOK OBVIOUS
<1>1. ClientsOK BY DEF Init, ClientsOK, Requests
<1>2. RedisOK
  <2>1. <<>> \in Seq(Event) /\ Len(<<>>) = 0 /\ <<>> \in Seq(SUBSET (1..0)) BY EmptySeq
  <2> QED BY <2>1 DEF Init, RedisOK
<1>3. TablesOK BY DEF Init, TablesOK
<1>4. LoopsOK BY NewLoopTypes DEF Init, LoopsOK, NewLoop
<1> QED BY <1>1, <1>2, <1>3, <1>4, TypeParts, AggregatorAssumption DEF Init

LEMMA RetriedTypes ==
  ASSUME NEW r \in Requests, r.status = "posted"
  PROVE  Retried(r) \in Requests
<1>1. /\ r \in [status : {"posted", "accepted", "failed"}, body : Bodies, attempt : 1..MaxAttempts]
      /\ MaxAttempts \in Nat
  BY AggregatorAssumption DEF Requests
<1>2. CASE r.attempt < MaxAttempts
  <2>1. r.attempt \in 1..MaxAttempts - 1 BY <1>1, <1>2
  <2>2. [r EXCEPT !.status = "backoff"]
          \in [status : {"backoff"}, body : Bodies, attempt : 1..MaxAttempts - 1]
    BY <1>1, <2>1
  <2> QED BY <1>2, <2>2 DEF Retried, Requests
<1>3. CASE ~(r.attempt < MaxAttempts)
  <2>1. [r EXCEPT !.status = "failed"]
          \in [status : {"posted", "accepted", "failed"}, body : Bodies, attempt : 1..MaxAttempts]
    BY <1>1
  <2> QED BY <1>3, <2>1 DEF Retried, Requests
<1> QED BY <1>2, <1>3

(* The steps of the publisher and of /publish.                              *)
LEMMA ClientStepTypes ==
  ASSUME TypeOK, UNCHANGED <<worker, tableVars>>,
         \/ \E b \in Batch : Post(b) \/ Repost(b) \/ ClientTimeout(b)
         \/ \E h \in handlers : CountReceived(h) \/ AddEvent(h) \/ Respond(h) \/ HandlerFails(h)
  PROVE  ClientsOK' /\ RedisOK' /\ faults' \in 0..MaxFaults
<1> USE TypeParts
<1>1. MaxFaults \in Nat /\ MaxAttempts \in Nat /\ MaxAttempts # 0 BY AggregatorAssumption
<1>2. \A b \in Batch : request[b] \in Requests BY DEF ClientsOK
<1>3. ASSUME NEW b \in Batch, NEW body \in Bodies, NEW n \in 1..MaxAttempts, Attempt(b, body, n)
      PROVE  ClientsOK' /\ RedisOK' /\ faults' \in 0..MaxFaults
  BY <1>3 DEF Attempt, ClientsOK, Requests, Handlers, RedisOK, redisVars
<1>4. ASSUME NEW b \in Batch, Post(b) PROVE ClientsOK' /\ RedisOK' /\ faults' \in 0..MaxFaults
  <2>1. PICK body \in Bodies : Attempt(b, body, 1) BY <1>4 DEF Post
  <2> QED BY <2>1, <1>1, <1>3
<1>5. ASSUME NEW b \in Batch, Repost(b) PROVE ClientsOK' /\ RedisOK' /\ faults' \in 0..MaxFaults
  <2>1. request[b] \in [status : {"backoff"}, body : Bodies, attempt : 1..MaxAttempts - 1]
    BY <1>2, <1>5 DEF Repost, Requests
  <2>2. request[b].body \in Bodies /\ request[b].attempt + 1 \in 1..MaxAttempts
    BY <2>1, <1>1
  <2>3. Attempt(b, request[b].body, request[b].attempt + 1) BY <1>5 DEF Repost
  <2> QED BY <2>2, <2>3, <1>3
<1>6. ASSUME NEW b \in Batch, ClientTimeout(b)
      PROVE  ClientsOK' /\ RedisOK' /\ faults' \in 0..MaxFaults
  <2>1. Retried(request[b]) \in Requests BY <1>2, <1>6, RetriedTypes DEF ClientTimeout
  <2> QED BY <2>1, <1>1, <1>6 DEF ClientTimeout, ClientsOK, RedisOK, redisVars, Fault
<1>7. ASSUME NEW h \in handlers
      PROVE  h \in Handlers /\ Len(h.body) \in Nat /\ [h EXCEPT !.progress = @ + 1] \in Handlers
             /\ \A k \in 1..Len(h.body) : h.body[k] \in Event
  <2>1. h \in Handlers BY DEF ClientsOK
  <2>2. h.body \in Seq(Event) BY <2>1, AggregatorAssumption DEF Handlers
  <2>3. Len(h.body) \in Nat /\ \A k \in 1..Len(h.body) : h.body[k] \in Event
    BY <2>2, LenProperties, ElementOfSeq
  <2>4. [h EXCEPT !.progress = @ + 1] \in Handlers BY <2>1 DEF Handlers
  <2> QED BY <2>1, <2>3, <2>4
<1>8. ASSUME NEW h \in handlers, CountReceived(h)
      PROVE  ClientsOK' /\ RedisOK' /\ faults' \in 0..MaxFaults
  BY <1>7, <1>8 DEF CountReceived, Advanced, ClientsOK, RedisOK, redisVars
<1>9. ASSUME NEW h \in handlers, AddEvent(h)
      PROVE  ClientsOK' /\ RedisOK' /\ faults' \in 0..MaxFaults
  <2>1. h.body[h.progress] \in Event BY <1>7, <1>9 DEF AddEvent
  <2>2. RedisOK' BY <2>1, <1>9, AddTypes DEF AddEvent
  <2> QED BY <2>2, <1>7, <1>9 DEF AddEvent, Advanced, ClientsOK
<1>10. ASSUME NEW h \in handlers, Respond(h)
       PROVE  ClientsOK' /\ RedisOK' /\ faults' \in 0..MaxFaults
  <2>1. \A b \in Batch : Awaits(b, h) => [request[b] EXCEPT !.status = "accepted"] \in Requests
    BY <1>2 DEF Awaits, Requests
  <2>2. request' \in [Batch -> Requests] BY <2>1, <1>2, <1>10 DEF Respond
  <2> QED BY <2>2, <1>10 DEF Respond, ClientsOK, RedisOK, redisVars
<1>11. ASSUME NEW h \in handlers, HandlerFails(h)
       PROVE  ClientsOK' /\ RedisOK' /\ faults' \in 0..MaxFaults
  <2>1. \A b \in Batch : Awaits(b, h) => Retried(request[b]) \in Requests
    BY <1>2, RetriedTypes DEF Awaits
  <2>2. request' \in [Batch -> Requests] BY <2>1, <1>2, <1>11 DEF HandlerFails
  <2> QED BY <2>2, <1>1, <1>11 DEF HandlerFails, ClientsOK, RedisOK, redisVars, Fault
<1> QED BY <1>4, <1>5, <1>6, <1>8, <1>9, <1>10, <1>11

(* A command to Redis, whether its answer arrives or not.                   *)
LEMMA CommandTypes ==
  ASSUME RedisOK, NEW w \in Worker, UNCHANGED redisVars \/ Command(w)
  PROVE  RedisOK' /\ delivered <= delivered'
<1>1. delivered \in Nat BY StreamIsLong
<1>2. CASE UNCHANGED redisVars BY <1>1, <1>2 DEF RedisOK, redisVars
<1>3. CASE TakeStale(Oldest(stale))
  <2>1. Oldest(stale) \in SUBSET stale BY DEF Oldest
  <2> QED BY <1>1, <1>3, <2>1, TakeStaleTypes
<1>4. ASSUME NEW S, Acknowledge(S) PROVE RedisOK' /\ delivered <= delivered'
  BY <1>1, <1>4, AcknowledgeTypes
<1>5. CASE TakeNew(NewEntries) BY <1>5, TakeNewTypes
<1> QED BY <1>2, <1>3, <1>4, <1>5 DEF Command

LEMMA WorkerStepTypes ==
  ASSUME TypeOK, NEW w \in Worker, WorkerStep(w) \/ BrokerFails(w)
  PROVE  TypeOK'
<1> DEFINE loop == worker[w]
<1>1. RedisOK /\ TablesOK /\ LoopsOK /\ ClientsOK /\ faults \in 0..MaxFaults BY TypeParts
<1>2. /\ loop \in Loops /\ loop.todo \cup loop.ack_ids \subseteq 1..delivered
      /\ delivered \in Nat /\ delivered <= delivered
      /\ 1..delivered \subseteq Nat
  BY <1>1, StreamIsLong DEF LoopsOK
<1>3. ASSUME NEW at \in {"top", "claimed", "committed", "batch"}, NEW S \in SUBSET (1..delivered),
             Goto(w, at, S), RedisOK', UNCHANGED delivered
      PROVE  LoopsOK'
  <2> DEFINE l == [loop EXCEPT !.at = at, !.todo = S]
  <2>1. worker' = [worker EXCEPT ![w] = l] BY <1>3 DEF Goto
  <2>2. l \in Loops /\ l.todo \cup l.ack_ids \subseteq 1..delivered BY <1>2 DEF Loops
  <2> QED BY <2>1, <2>2, <1>1, <1>2, <1>3, LoopsStay
<1>4. ASSUME UNCHANGED clientVars PROVE ClientsOK' BY <1>1, <1>4 DEF ClientsOK, clientVars
<1>5. ASSUME UNCHANGED tableVars PROVE TablesOK' BY <1>1, <1>5 DEF TablesOK, tableVars
<1>6. CASE Claim(w)
  <2>1. Oldest(stale) \in SUBSET stale /\ Oldest(stale) \subseteq 1..delivered
    BY <1>1 DEF Oldest, RedisOK
  <2>2. RedisOK' /\ UNCHANGED delivered BY <1>1, <1>6, <2>1, TakeStaleTypes DEF Claim
  <2>3. LoopsOK' BY <1>3, <1>6, <2>1, <2>2 DEF Claim
  <2> QED BY <1>1, <1>4, <1>5, <1>6, <2>2, <2>3, TypeParts DEF Claim
<1>7. CASE ProcessClaimed(w)
  <2>1. PICK i \in First(loop.todo) :
          \/ Commit(stream[i]) /\ Goto(w, "committed", loop.todo) /\ UNCHANGED faults
          \/ Raises(stream[i]) /\ Goto(w, "top", {})
    BY <1>7 DEF ProcessClaimed
  <2>2. stream[i] \in Event BY <1>1, NextEntry
  <2>3. RedisOK' /\ UNCHANGED delivered /\ UNCHANGED clientVars
    BY <1>1, <1>7 DEF ProcessClaimed, RedisOK, redisVars
  <2>4. LoopsOK' BY <1>2, <1>3, <2>1, <2>3
  <2>5. TablesOK' /\ faults' \in 0..MaxFaults BY <1>1, <2>1, <2>2, CommitTypes, RaisesTypes
  <2> QED BY <1>4, <2>3, <2>4, <2>5, TypeParts
<1>8. CASE AckClaimed(w)
  <2>1. PICK i \in First(loop.todo) : Acknowledge({i}) /\ Goto(w, "claimed", loop.todo \ {i})
    BY <1>8 DEF AckClaimed
  <2>2. RedisOK' /\ UNCHANGED delivered BY <1>1, <2>1, AcknowledgeTypes
  <2>3. LoopsOK' BY <1>2, <1>3, <2>1, <2>2
  <2> QED BY <1>1, <1>4, <1>5, <1>8, <2>2, <2>3, TypeParts DEF AckClaimed
<1>9. CASE Read(w)
  <2>1. /\ RedisOK' /\ delivered <= delivered'
        /\ 1..delivered' = (1..delivered) \cup NewEntries
    BY <1>1, <1>9, TakeNewTypes DEF Read
  <2> DEFINE l == IF NewEntries = {}
                  THEN [NewLoop EXCEPT !.idle_cycles = (loop.idle_cycles + 1) % ClaimEvery]
                  ELSE [NewLoop EXCEPT !.at = "batch", !.todo = NewEntries]
  <2>2. worker' = [worker EXCEPT ![w] = l] BY <1>9 DEF Read
  <2>3. (loop.idle_cycles + 1) % ClaimEvery \in 0..ClaimEvery - 1 /\ 0 \in 0..ClaimEvery - 1
    BY <1>2, AggregatorAssumption DEF Loops
  <2>4. l \in Loops /\ l.todo \cup l.ack_ids \subseteq 1..delivered'
    <3>1. CASE NewEntries = {} BY <3>1, <2>3 DEF NewLoop, Loops
    <3>2. CASE NewEntries # {}
      <4>1. NewEntries \in SUBSET Nat BY DEF NewEntries
      <4>2. l = [at |-> "batch", todo |-> NewEntries, ack_ids |-> {}, idle_cycles |-> 0]
        BY <3>2 DEF NewLoop
      <4> QED BY <4>1, <4>2, <2>1, <2>3 DEF Loops
    <3> QED BY <3>1, <3>2
  <2>5. LoopsOK' BY <1>1, <2>1, <2>2, <2>4, LoopsStay
  <2> QED BY <1>1, <1>4, <1>5, <1>9, <2>1, <2>5, TypeParts DEF Read
<1>10. CASE ProcessNew(w)
  <2>1. PICK i \in First(loop.todo) :
          \/ /\ Commit(stream[i]) /\ UNCHANGED faults
             /\ worker' = [worker EXCEPT ![w].todo = @ \ {i}, ![w].ack_ids = @ \cup {i}]
          \/ Raises(stream[i]) /\ Goto(w, "batch", loop.todo \ {i})
    BY <1>10 DEF ProcessNew
  <2>2. stream[i] \in Event /\ i \in 1..delivered BY <1>1, NextEntry
  <2>3. RedisOK' /\ UNCHANGED delivered /\ UNCHANGED clientVars
    BY <1>1, <1>10 DEF ProcessNew, RedisOK, redisVars
  <2> DEFINE l == [loop EXCEPT !.todo = @ \ {i}, !.ack_ids = @ \cup {i}]
  <2>4. l \in Loops /\ l.todo \cup l.ack_ids \subseteq 1..delivered BY <1>2, <2>2 DEF Loops
  <2>5. ASSUME worker' = [worker EXCEPT ![w].todo = @ \ {i}, ![w].ack_ids = @ \cup {i}]
        PROVE  LoopsOK'
    <3>1. worker' = [worker EXCEPT ![w] = l] BY <2>5, <1>1 DEF LoopsOK
    <3>2. delivered <= delivered' /\ l.todo \cup l.ack_ids \subseteq 1..delivered'
      BY <1>2, <2>3, <2>4
    <3> HIDE DEF l
    <3> QED BY <3>1, <3>2, <1>1, <2>3, <2>4, LoopsStay
  <2>6. ASSUME Goto(w, "batch", loop.todo \ {i}) PROVE LoopsOK'
    <3>1. loop.todo \ {i} \in SUBSET (1..delivered) BY <1>2
    <3> QED BY <3>1, <1>3, <2>3, <2>6
  <2>8. LoopsOK' BY <2>1, <2>5, <2>6
  <2>7. TablesOK' /\ faults' \in 0..MaxFaults BY <1>1, <2>1, <2>2, CommitTypes, RaisesTypes
  <2> QED BY <1>4, <2>3, <2>7, <2>8, TypeParts
<1>11. CASE AckNew(w)
  <2>1. RedisOK' /\ UNCHANGED delivered BY <1>1, <1>11, AcknowledgeTypes DEF AckNew
  <2>2. NewLoop \in Loops /\ NewLoop.todo \cup NewLoop.ack_ids \subseteq 1..delivered
    BY NewLoopTypes DEF NewLoop
  <2>3. LoopsOK' BY <1>1, <1>2, <1>11, <2>1, <2>2, LoopsStay DEF AckNew
  <2> QED BY <1>1, <1>4, <1>5, <1>11, <2>1, <2>3, TypeParts DEF AckNew
<1>12. CASE BrokerFails(w)
  <2>1. RedisOK' /\ delivered <= delivered' BY <1>1, <1>12, CommandTypes DEF BrokerFails
  <2> DEFINE l == [NewLoop EXCEPT !.idle_cycles = loop.idle_cycles]
  <2>2. l \in Loops /\ l.todo \cup l.ack_ids \subseteq 1..delivered'
    BY <1>2 DEF NewLoop, Loops
  <2>3. LoopsOK' BY <1>1, <1>12, <2>1, <2>2, LoopsStay DEF BrokerFails
  <2>4. faults' \in 0..MaxFaults BY <1>1, <1>12, AggregatorAssumption DEF BrokerFails, Fault
  <2> QED BY <1>4, <1>5, <1>12, <2>1, <2>3, <2>4, TypeParts DEF BrokerFails
<1> QED BY <1>6, <1>7, <1>8, <1>9, <1>10, <1>11, <1>12 DEF WorkerStep

LEMMA TypeInductive == TypeOK /\ [Next]_vars => TypeOK'
<1> SUFFICES ASSUME TypeOK, [Next]_vars PROVE TypeOK' OBVIOUS
<1>1. RedisOK /\ TablesOK /\ LoopsOK /\ ClientsOK /\ faults \in 0..MaxFaults BY TypeParts
<1>2. ASSUME UNCHANGED <<worker, tableVars>>, ClientsOK', RedisOK', faults' \in 0..MaxFaults,
             UNCHANGED delivered
      PROVE  TypeOK'
  BY <1>1, <1>2, TypeParts DEF TablesOK, tableVars, LoopsOK
<1>3. CASE \/ \E b \in Batch : Post(b) \/ Repost(b) \/ ClientTimeout(b)
           \/ \E h \in handlers : CountReceived(h) \/ AddEvent(h) \/ Respond(h) \/ HandlerFails(h)
  <2>1. UNCHANGED <<worker, tableVars>> /\ UNCHANGED delivered
    BY <1>3 DEF Post, Repost, ClientTimeout, Attempt, CountReceived, AddEvent, Respond,
                HandlerFails, redisVars, tableVars
  <2> QED BY <1>2, <1>3, <2>1, ClientStepTypes
<1>4. CASE \E w \in Worker : WorkerStep(w) \/ BrokerFails(w) BY <1>4, WorkerStepTypes
<1>5. CASE Age
  <2>1. ClientsOK' /\ UNCHANGED <<worker, tableVars, delivered>> /\ faults' \in 0..MaxFaults
    BY <1>1, <1>5 DEF Age, ClientsOK, clientVars
  <2> QED BY <1>1, <1>2, <1>5, <2>1, AgeTypes
<1>6. CASE Restart
  <2>1. \A b \in Batch : request[b] \in Requests BY <1>1 DEF ClientsOK
  <2>2. request' \in [Batch -> Requests] BY <1>6, <2>1, RetriedTypes DEF Restart
  <2>3. ClientsOK' BY <1>1, <1>6, <2>2 DEF Restart, ClientsOK
  <2>4. RedisOK' /\ TablesOK' BY <1>1, <1>6 DEF Restart, RedisOK, TablesOK, redisVars, tableVars
  <2>5. faults' \in 0..MaxFaults BY <1>1, <1>6, AggregatorAssumption DEF Restart, Fault
  <2>6. LoopsOK' BY <1>6, NewLoopTypes DEF Restart, LoopsOK, NewLoop
  <2> QED BY <2>3, <2>4, <2>5, <2>6, TypeParts
<1>7. CASE UNCHANGED vars
  BY <1>1, <1>7, TypeParts
     DEF vars, clientVars, redisVars, tableVars, RedisOK, TablesOK, LoopsOK, ClientsOK
<1> QED BY <1>3, <1>4, <1>5, <1>6, <1>7 DEF Next

(* Every variable of the aggregator, the stream and the tables keeps its    *)
(* type, and what is pending, claimed or to be acknowledged was delivered.  *)
THEOREM TypeCorrect == Spec => []TypeOK
BY InitTypes, TypeInductive, PTL DEF Spec

(***************************************************************************)
(* At-least-once processing.                                               *)
(***************************************************************************)

(* Also, the event of an entry that a worker is about to acknowledge is in  *)
(* the table: after the commit, before the XACK (consumer.py:23-24, 37-46). *)
CommittedFirst ==
  \A w \in Worker :
    /\ worker[w].at = "committed" => \A i \in First(worker[w].todo) : stream[i] \in rows
    /\ \A i \in worker[w].ack_ids : stream[i] \in rows

AtLeastOnce == AcknowledgedIsProcessed /\ CommittedFirst

LEMMA InitAtLeastOnce == Init => AtLeastOnce
<1> SUFFICES ASSUME Init PROVE AtLeastOnce OBVIOUS
<1>1. 1..delivered = {} BY DEF Init
<1> QED BY <1>1 DEF Init, AtLeastOnce, AcknowledgedIsProcessed, CommittedFirst, NewLoop

(* It is kept by what changes neither the loops nor what is pending.        *)
LEMMA QuietSteps ==
  ASSUME TypeOK, AtLeastOnce, rows \subseteq rows', UNCHANGED <<worker, delivered>>,
         Pending' = Pending, \A i \in 1..Len(stream) : stream'[i] = stream[i]
  PROVE  AtLeastOnce'
<1>1. \A i \in 1..delivered : i \in 1..Len(stream) BY TypeParts, StreamIsLong
<1>2. AcknowledgedIsProcessed' BY <1>1 DEF AtLeastOnce, AcknowledgedIsProcessed
<1>3. \A w \in Worker : worker[w].todo \cup worker[w].ack_ids \subseteq 1..delivered
  BY DEF TypeOK
<1>4. CommittedFirst' BY <1>1, <1>3 DEF AtLeastOnce, CommittedFirst, First
<1> QED BY <1>2, <1>4 DEF AtLeastOnce

(* A command to Redis acknowledges only what is in the table.               *)
LEMMA CommandKeeps ==
  ASSUME TypeOK, AtLeastOnce, NEW w \in Worker, Command(w), UNCHANGED rows
  PROVE  AcknowledgedIsProcessed' /\ UNCHANGED stream
<1>1. RedisOK BY TypeParts
<1>2. CASE TakeStale(Oldest(stale))
  <2>1. Oldest(stale) \in SUBSET stale BY DEF Oldest
  <2>2. Pending' = Pending /\ UNCHANGED <<stream, delivered>> BY <1>1, <1>2, <2>1, TakeStaleTypes
  <2> QED BY <2>2 DEF AtLeastOnce, AcknowledgedIsProcessed
<1>3. ASSUME NEW S, Acknowledge(S), \A i \in S : stream[i] \in rows
      PROVE  AcknowledgedIsProcessed' /\ UNCHANGED stream
  <2>1. Pending' = Pending \ S /\ UNCHANGED <<stream, delivered>> BY <1>1, <1>3, AcknowledgeTypes
  <2> QED BY <2>1, <1>3 DEF AtLeastOnce, AcknowledgedIsProcessed
<1>4. CASE TakeNew(NewEntries)
  <2>1. /\ Pending' = Pending \cup NewEntries /\ UNCHANGED stream
        /\ 1..delivered' = (1..delivered) \cup NewEntries
    BY <1>1, <1>4, TakeNewTypes
  <2> QED BY <2>1 DEF AtLeastOnce, AcknowledgedIsProcessed
<1>5. CASE /\ worker[w].at = "committed"
           /\ \E i \in First(worker[w].todo) : Acknowledge({i})
  <2>1. PICK i \in First(worker[w].todo) : Acknowledge({i}) BY <1>5
  <2>2. stream[i] \in rows BY <1>5, <2>1 DEF AtLeastOnce, CommittedFirst
  <2> QED BY <2>1, <2>2, <1>3
<1>6. CASE Acknowledge(worker[w].ack_ids)
  <2>1. \A i \in worker[w].ack_ids : stream[i] \in rows BY DEF AtLeastOnce, CommittedFirst
  <2> QED BY <1>3, <1>6, <2>1
<1> QED BY <1>2, <1>4, <1>5, <1>6 DEF Command

(* One loop changes and remembers nothing to acknowledge that is not in the *)
(* table.                                                                   *)
LEMMA LoopKeeps ==
  ASSUME TypeOK, AtLeastOnce, rows \subseteq rows', UNCHANGED stream, NEW w \in Worker, NEW l,
         worker' = [worker EXCEPT ![w] = l],
         l.at = "committed" => \A i \in First(l.todo) : stream[i] \in rows',
         \A i \in l.ack_ids : stream[i] \in rows'
  PROVE  CommittedFirst'
<1>1. \A v \in Worker : worker'[v] = IF v = w THEN l ELSE worker[v] BY DEF TypeOK
<1> QED BY <1>1 DEF AtLeastOnce, CommittedFirst

LEMMA WorkerKeeps ==
  ASSUME TypeOK, AtLeastOnce, NEW w \in Worker, WorkerStep(w) \/ BrokerFails(w)
  PROVE  AtLeastOnce'
<1> DEFINE loop == worker[w]
<1>1. RedisOK /\ TablesOK /\ LoopsOK /\ worker \in [Worker -> Loops] /\ loop \in Loops
      /\ faults \in 0..MaxFaults
  BY TypeParts DEF LoopsOK
<1>2. \A i \in loop.ack_ids : stream[i] \in rows BY DEF AtLeastOnce, CommittedFirst
<1>3. ASSUME rows \subseteq rows', UNCHANGED <<redisVars>>
      PROVE  AcknowledgedIsProcessed' /\ UNCHANGED stream
  BY <1>3 DEF AtLeastOnce, AcknowledgedIsProcessed, redisVars, Pending
<1>4. CASE Claim(w)
  <2> DEFINE l == [loop EXCEPT !.at = "claimed", !.todo = Oldest(stale)]
  <2>1. Command(w) /\ UNCHANGED rows BY <1>4 DEF Claim, Command, tableVars
  <2>2. worker' = [worker EXCEPT ![w] = l] BY <1>1, <1>4 DEF Claim, Goto
  <2>3. l.at = "claimed" /\ l.ack_ids = loop.ack_ids BY <1>1 DEF Loops
  <2> HIDE DEF l
  <2> QED BY <1>2, <2>1, <2>2, <2>3, CommandKeeps, LoopKeeps DEF AtLeastOnce
<1>5. CASE ProcessClaimed(w)
  <2>1. PICK i \in First(loop.todo) :
          \/ Commit(stream[i]) /\ Goto(w, "committed", loop.todo) /\ UNCHANGED faults
          \/ Raises(stream[i]) /\ Goto(w, "top", {})
    BY <1>5 DEF ProcessClaimed
  <2>2. stream[i] \in Event BY <1>1, NextEntry
  <2>3. rows \subseteq rows' BY <1>1, <2>1, <2>2, CommitTypes, RaisesTypes
  <2>4. AcknowledgedIsProcessed' /\ UNCHANGED stream BY <1>3, <1>5, <2>3 DEF ProcessClaimed
  <2>5. CASE Commit(stream[i]) /\ Goto(w, "committed", loop.todo)
    <3> DEFINE l == [loop EXCEPT !.at = "committed", !.todo = loop.todo]
    <3>1. worker' = [worker EXCEPT ![w] = l] BY <1>1, <2>5 DEF Goto
    <3>2. l.todo = loop.todo /\ l.ack_ids = loop.ack_ids BY <1>1 DEF Loops
    <3>3. \A j \in First(loop.todo) : j = i BY <2>1, <1>1 DEF First, Loops
    <3>4. stream[i] \in rows' BY <1>1, <2>2, <2>5, CommitTypes
    <3> HIDE DEF l
    <3>5. CommittedFirst' BY <1>2, <2>3, <2>4, <3>1, <3>2, <3>3, <3>4, LoopKeeps
    <3> QED BY <2>4, <3>5 DEF AtLeastOnce
  <2>6. CASE Goto(w, "top", {})
    <3> DEFINE l == [loop EXCEPT !.at = "top", !.todo = {}]
    <3>1. worker' = [worker EXCEPT ![w] = l] BY <1>1, <2>6 DEF Goto
    <3>2. l.at = "top" /\ l.ack_ids = loop.ack_ids BY <1>1 DEF Loops
    <3> HIDE DEF l
    <3>3. CommittedFirst' BY <1>2, <2>3, <2>4, <3>1, <3>2, LoopKeeps
    <3> QED BY <2>4, <3>3 DEF AtLeastOnce
  <2> QED BY <2>1, <2>5, <2>6
<1>6. CASE AckClaimed(w)
  <2>1. PICK i \in First(loop.todo) : Acknowledge({i}) /\ Goto(w, "claimed", loop.todo \ {i})
    BY <1>6 DEF AckClaimed
  <2> DEFINE l == [loop EXCEPT !.at = "claimed", !.todo = loop.todo \ {i}]
  <2>2. Command(w) /\ UNCHANGED rows BY <1>6, <2>1 DEF AckClaimed, Command, tableVars
  <2>3. worker' = [worker EXCEPT ![w] = l] BY <1>1, <2>1 DEF Goto
  <2>4. l.at = "claimed" /\ l.ack_ids = loop.ack_ids BY <1>1 DEF Loops
  <2> HIDE DEF l
  <2> QED BY <1>2, <2>2, <2>3, <2>4, CommandKeeps, LoopKeeps DEF AtLeastOnce
<1>7. ASSUME NEW l, worker' = [worker EXCEPT ![w] = l], l.at # "committed", l.ack_ids = {},
             Command(w) \/ UNCHANGED redisVars, UNCHANGED rows
      PROVE  AtLeastOnce'
  <2>1. AcknowledgedIsProcessed' /\ UNCHANGED stream BY <1>3, <1>7, CommandKeeps
  <2>2. CommittedFirst' BY <1>7, <2>1, LoopKeeps
  <2> QED BY <2>1, <2>2 DEF AtLeastOnce
<1>8. CASE Read(w)
  <2> DEFINE l == IF NewEntries = {}
                  THEN [NewLoop EXCEPT !.idle_cycles = (loop.idle_cycles + 1) % ClaimEvery]
                  ELSE [NewLoop EXCEPT !.at = "batch", !.todo = NewEntries]
  <2>1. worker' = [worker EXCEPT ![w] = l] BY <1>8 DEF Read
  <2>2. l.at # "committed" /\ l.ack_ids = {} BY DEF NewLoop
  <2>3. Command(w) /\ UNCHANGED rows BY <1>8 DEF Read, Command, tableVars
  <2> HIDE DEF l
  <2> QED BY <1>7, <2>1, <2>2, <2>3
<1>9. CASE ProcessNew(w)
  <2>1. PICK i \in First(loop.todo) :
          \/ /\ Commit(stream[i]) /\ UNCHANGED faults
             /\ worker' = [worker EXCEPT ![w].todo = @ \ {i}, ![w].ack_ids = @ \cup {i}]
          \/ Raises(stream[i]) /\ Goto(w, "batch", loop.todo \ {i})
    BY <1>9 DEF ProcessNew
  <2>2. stream[i] \in Event BY <1>1, NextEntry
  <2>3. rows \subseteq rows' BY <1>1, <2>1, <2>2, CommitTypes, RaisesTypes
  <2>4. AcknowledgedIsProcessed' /\ UNCHANGED stream BY <1>3, <1>9, <2>3 DEF ProcessNew
  <2>5. loop.at = "batch" BY <1>9 DEF ProcessNew
  <2>6. CASE /\ Commit(stream[i])
             /\ worker' = [worker EXCEPT ![w].todo = @ \ {i}, ![w].ack_ids = @ \cup {i}]
    <3> DEFINE l == [loop EXCEPT !.todo = @ \ {i}, !.ack_ids = @ \cup {i}]
    <3>1. worker' = [worker EXCEPT ![w] = l] BY <1>1, <2>6
    <3>2. l.at = "batch" /\ l.ack_ids = loop.ack_ids \cup {i} BY <1>1, <2>5 DEF Loops
    <3>3. stream[i] \in rows' BY <1>1, <2>2, <2>6, CommitTypes
    <3>4. \A j \in loop.ack_ids \cup {i} : stream[j] \in rows' BY <1>2, <2>3, <3>3
    <3> HIDE DEF l
    <3>5. CommittedFirst' BY <2>3, <2>4, <3>1, <3>2, <3>4, LoopKeeps
    <3> QED BY <2>4, <3>5 DEF AtLeastOnce
  <2>7. CASE Goto(w, "batch", loop.todo \ {i})
    <3> DEFINE l == [loop EXCEPT !.at = "batch", !.todo = loop.todo \ {i}]
    <3>1. worker' = [worker EXCEPT ![w] = l] BY <1>1, <2>7 DEF Goto
    <3>2. l.at = "batch" /\ l.ack_ids = loop.ack_ids BY <1>1 DEF Loops
    <3> HIDE DEF l
    <3>3. CommittedFirst' BY <1>2, <2>3, <2>4, <3>1, <3>2, LoopKeeps
    <3> QED BY <2>4, <3>3 DEF AtLeastOnce
  <2> QED BY <2>1, <2>6, <2>7
<1>10. CASE AckNew(w)
  <2>1. worker' = [worker EXCEPT ![w] = NewLoop] /\ Command(w) /\ UNCHANGED rows
    BY <1>10 DEF AckNew, Command, tableVars
  <2>2. NewLoop.at # "committed" /\ NewLoop.ack_ids = {} BY DEF NewLoop
  <2> QED BY <1>7, <2>1, <2>2
<1>11. CASE BrokerFails(w)
  <2> DEFINE l == [NewLoop EXCEPT !.idle_cycles = loop.idle_cycles]
  <2>1. worker' = [worker EXCEPT ![w] = l] /\ UNCHANGED rows /\ (Command(w) \/ UNCHANGED redisVars)
    BY <1>11 DEF BrokerFails, tableVars
  <2>2. l.at # "committed" /\ l.ack_ids = {} BY DEF NewLoop
  <2> HIDE DEF l
  <2> QED BY <1>7, <2>1, <2>2
<1> QED BY <1>4, <1>5, <1>6, <1>8, <1>9, <1>10, <1>11 DEF WorkerStep

LEMMA KeepsAtLeastOnce == TypeOK /\ AtLeastOnce /\ [Next]_vars => AtLeastOnce'
<1> SUFFICES ASSUME TypeOK, AtLeastOnce, [Next]_vars PROVE AtLeastOnce' OBVIOUS
<1>1. RedisOK /\ LoopsOK /\ ClientsOK BY TypeParts
<1>2. ASSUME UNCHANGED <<rows, worker, redisVars>> PROVE AtLeastOnce'
  BY <1>2, QuietSteps DEF redisVars, Pending
<1>3. CASE \E b \in Batch : Post(b) \/ Repost(b) \/ ClientTimeout(b)
  BY <1>2, <1>3 DEF Post, Repost, ClientTimeout, Attempt, tableVars
<1>4. CASE \E h \in handlers : CountReceived(h) \/ Respond(h) \/ HandlerFails(h)
  BY <1>2, <1>4 DEF CountReceived, Respond, HandlerFails, tableVars
<1>5. CASE \E h \in handlers : AddEvent(h)
  <2>1. PICK h \in handlers : AddEvent(h) BY <1>5
  <2>2. h.body \in Seq(Event) BY <1>1, AggregatorAssumption DEF ClientsOK, Handlers
  <2>3. h.body[h.progress] \in Event BY <2>1, <2>2, ElementOfSeq DEF AddEvent
  <2>4. Pending' = Pending /\ \A i \in 1..Len(stream) : stream'[i] = stream[i]
    BY <1>1, <2>1, <2>3, AddTypes DEF AddEvent
  <2> QED BY <2>1, <2>4, QuietSteps DEF AddEvent, tableVars
<1>6. CASE \E w \in Worker : WorkerStep(w) \/ BrokerFails(w) BY <1>6, WorkerKeeps
<1>7. CASE Age BY <1>1, <1>7, AgeTypes, QuietSteps DEF Age, tableVars
<1>8. CASE Restart
  <2>1. Pending' = Pending /\ UNCHANGED <<stream, delivered, rows>>
    BY <1>8 DEF Restart, redisVars, tableVars, Pending
  <2>2. CommittedFirst' BY <1>8 DEF Restart, CommittedFirst, NewLoop
  <2> QED BY <2>1, <2>2 DEF AtLeastOnce, AcknowledgedIsProcessed
<1>9. CASE UNCHANGED vars BY <1>2, <1>9 DEF vars, tableVars
<1> QED BY <1>3, <1>4, <1>5, <1>6, <1>7, <1>8, <1>9 DEF Next

(* Whatever crashes, exceptions, lost answers and claims by other workers   *)
(* happen, an entry that was delivered is pending or its event is in the    *)
(* table (consumer.py:20-51).                                               *)
THEOREM DeliveredAtLeastOnce == Spec => []AcknowledgedIsProcessed
<1>1. AtLeastOnce => AcknowledgedIsProcessed BY DEF AtLeastOnce
<1> QED BY <1>1, TypeCorrect, InitAtLeastOnce, KeepsAtLeastOnce, PTL DEF Spec

(***************************************************************************)
(* What the publisher is told.                                             *)
(***************************************************************************)

InStream(e) == \E i \in DOMAIN stream : stream[i] = e

(* A handler works on its batch's body, and what it is past is in the       *)
(* stream (main.py:81-82).                                                  *)
HandlersAdd ==
  \A h \in handlers :
    /\ request[h.batch].status # "new" /\ request[h.batch].body = h.body
    /\ \A k \in DOMAIN h.body : k < h.progress => InStream(h.body[k])

Answers == AcceptedIsInStream /\ HandlersAdd

LEMMA InitAnswers == Init => Answers
BY DEF Init, Answers, AcceptedIsInStream, HandlersAdd

(* It is kept when the stream grows, handlers go, and a batch changes its   *)
(* status to one that promises nothing.                                     *)
LEMMA AnswersStay ==
  ASSUME Answers, handlers' \subseteq handlers, DOMAIN stream \subseteq DOMAIN stream',
         \A i \in DOMAIN stream : stream'[i] = stream[i],
         \A b \in Batch : \/ request'[b] = request[b]
                         \/ /\ request[b].status = "posted" /\ request'[b].body = request[b].body
                            /\ request'[b].status \in {"backoff", "failed"},
         handlers \subseteq Handlers
  PROVE  Answers'
<1>1. \A e : InStream(e) => InStream(e)' BY DEF InStream
<1>2. AcceptedIsInStream'
  <2>1. \A b \in Batch : request'[b].status = "accepted" => request'[b] = request[b] OBVIOUS
  <2>2. \A b \in Batch : request'[b].status = "accepted" =>
          \A k \in DOMAIN request[b].body : InStream(request[b].body[k])
    BY <2>1 DEF Answers, AcceptedIsInStream, InStream
  <2> QED BY <1>1, <2>1, <2>2 DEF AcceptedIsInStream, InStream
<1>3. HandlersAdd'
  <2> SUFFICES ASSUME NEW h \in handlers'
               PROVE  /\ request'[h.batch].status # "new" /\ request'[h.batch].body = h.body
                      /\ \A k \in DOMAIN h.body : k < h.progress => InStream(h.body[k])'
    BY DEF HandlersAdd
  <2>1. h \in handlers /\ h.batch \in Batch BY DEF Handlers
  <2>2. /\ request[h.batch].status # "new" /\ request[h.batch].body = h.body
        /\ \A k \in DOMAIN h.body : k < h.progress => InStream(h.body[k])
    BY <2>1 DEF Answers, HandlersAdd
  <2>3. request'[h.batch].status # "new" /\ request'[h.batch].body = h.body
    BY <2>1, <2>2
  <2> QED BY <1>1, <2>2, <2>3
<1> QED BY <1>2, <1>3 DEF Answers

LEMMA RetriedMeans ==
  ASSUME NEW r \in Requests, r.status = "posted"
  PROVE  Retried(r).body = r.body /\ Retried(r).status \in {"backoff", "failed"}
BY DEF Retried, Requests

(* A new attempt of a batch whose body no handler contradicts.              *)
LEMMA AttemptKeeps ==
  ASSUME TypeOK, Answers, NEW b \in Batch, NEW body \in Bodies, NEW n \in 1..MaxAttempts,
         Attempt(b, body, n), request[b].status # "accepted",
         request[b].status = "new" \/ request[b].body = body
  PROVE  Answers'
<1> DEFINE g == [batch |-> b, attempt |-> n, body |-> body, progress |-> 0]
<1>1. /\ \A c \in Batch : request'[c] =
             IF c = b THEN [status |-> "posted", body |-> body, attempt |-> n] ELSE request[c]
      /\ handlers' = handlers \cup {g} /\ UNCHANGED stream
  BY DEF TypeOK, Attempt, redisVars
<1>2. \A e : InStream(e)' <=> InStream(e) BY <1>1 DEF InStream
<1>3. AcceptedIsInStream' BY <1>1 DEF Answers, AcceptedIsInStream
<1>4. ASSUME NEW h \in handlers
      PROVE  /\ request'[h.batch].status # "new" /\ request'[h.batch].body = h.body
             /\ \A k \in DOMAIN h.body : k < h.progress => InStream(h.body[k])'
  <2>1. h.batch \in Batch BY DEF TypeOK, Handlers
  <2>2. /\ request[h.batch].status # "new" /\ request[h.batch].body = h.body
        /\ \A k \in DOMAIN h.body : k < h.progress => InStream(h.body[k])
    BY DEF Answers, HandlersAdd
  <2> QED BY <1>1, <1>2, <2>1, <2>2
<1>5. /\ request'[g.batch].status # "new" /\ request'[g.batch].body = g.body
      /\ \A k \in DOMAIN g.body : k < g.progress => InStream(g.body[k])'
  <2>1. body \in Seq(Event) BY AggregatorAssumption
  <2>2. DOMAIN body = 1..Len(body) /\ Len(body) \in Nat BY <2>1, LenProperties
  <2>3. \A k \in DOMAIN body : ~(k < 0) BY <2>2
  <2> QED BY <1>1, <2>3
<1> QED BY <1>1, <1>3, <1>4, <1>5 DEF Answers, HandlersAdd

(* A handler that goes one step further has added one event more.           *)
LEMMA AdvanceKeeps ==
  ASSUME TypeOK, Answers, NEW h \in handlers, handlers' = Advanced(h), UNCHANGED request,
         DOMAIN stream \subseteq DOMAIN stream',
         \A i \in DOMAIN stream : stream'[i] = stream[i],
         \A k \in DOMAIN h.body : k = h.progress => InStream(h.body[k])'
  PROVE  Answers'
<1> DEFINE g == [h EXCEPT !.progress = @ + 1]
<1>1. \A e : InStream(e) => InStream(e)' BY DEF InStream
<1>2. AcceptedIsInStream' BY <1>1 DEF Answers, AcceptedIsInStream, InStream
<1>3. h \in Handlers /\ handlers' = (handlers \ {h}) \cup {g} BY DEF TypeOK, Advanced
<1>4. /\ g.batch = h.batch /\ g.body = h.body /\ g.progress = h.progress + 1
      /\ h.progress \in Nat /\ h.body \in Seq(Event)
  BY <1>3, AggregatorAssumption DEF Handlers
<1> HIDE DEF g
<1>5. DOMAIN h.body \subseteq Nat
  <2>1. DOMAIN h.body = 1..Len(h.body) /\ Len(h.body) \in Nat BY <1>4, LenProperties
  <2> QED BY <2>1
<1>6. \A f \in handlers : /\ request[f.batch].status # "new" /\ request[f.batch].body = f.body
                         /\ \A k \in DOMAIN f.body : k < f.progress => InStream(f.body[k])
  BY DEF Answers, HandlersAdd
<1>7. \A k \in DOMAIN g.body : k < g.progress => InStream(g.body[k])'
  <2> SUFFICES ASSUME NEW k \in DOMAIN h.body, k < h.progress + 1 PROVE InStream(h.body[k])'
    BY <1>4
  <2>1. k < h.progress \/ k = h.progress BY <1>4, <1>5
  <2>2. CASE k < h.progress BY <1>1, <1>6, <2>2
  <2>3. CASE k = h.progress BY <2>3
  <2> QED BY <2>1, <2>2, <2>3
<1>8. HandlersAdd' BY <1>1, <1>3, <1>4, <1>6, <1>7 DEF HandlersAdd
<1> QED BY <1>2, <1>8 DEF Answers

LEMMA KeepsAnswers == TypeOK /\ Answers /\ [Next]_vars => Answers'
<1> SUFFICES ASSUME TypeOK, Answers, [Next]_vars PROVE Answers' OBVIOUS
<1>1. RedisOK /\ handlers \subseteq Handlers /\ \A b \in Batch : request[b] \in Requests
  BY TypeParts DEF ClientsOK
<1>2. ASSUME UNCHANGED <<request, handlers, stream>> PROVE Answers'
  BY <1>2 DEF Answers, AcceptedIsInStream, HandlersAdd, InStream
<1>3. ASSUME NEW b \in Batch, Post(b) PROVE Answers'
  <2>1. PICK body \in Bodies : Attempt(b, body, 1) BY <1>3 DEF Post
  <2>2. 1 \in 1..MaxAttempts BY AggregatorAssumption
  <2> QED BY <1>3, <2>1, <2>2, AttemptKeeps DEF Post
<1>4. ASSUME NEW b \in Batch, Repost(b) PROVE Answers'
  <2>1. request[b] \in [status : {"backoff"}, body : Bodies, attempt : 1..MaxAttempts - 1]
    BY <1>1, <1>4 DEF Repost, Requests
  <2>2. request[b].body \in Bodies /\ request[b].attempt + 1 \in 1..MaxAttempts
    BY <2>1, AggregatorAssumption
  <2> QED BY <1>4, <2>2, AttemptKeeps DEF Repost
<1>5. ASSUME NEW b \in Batch, ClientTimeout(b) PROVE Answers'
  <2>1. /\ request[b].status = "posted" /\ UNCHANGED <<handlers, stream>>
        /\ request' = [request EXCEPT ![b] = Retried(@)]
    BY <1>5 DEF ClientTimeout, redisVars
  <2>2. \A c \in Batch : request'[c] = IF c = b THEN Retried(request[b]) ELSE request[c]
    BY <2>1 DEF TypeOK
  <2> QED BY <1>1, <2>1, <2>2, RetriedMeans, AnswersStay
<1>6. ASSUME NEW h \in handlers, CountReceived(h) PROVE Answers'
  <2>1. h.body \in Seq(Event) BY <1>1, AggregatorAssumption DEF Handlers
  <2>2. DOMAIN h.body = 1..Len(h.body) /\ Len(h.body) \in Nat BY <2>1, LenProperties
  <2>3. \A k \in DOMAIN h.body : k # h.progress BY <1>6, <2>2 DEF CountReceived
  <2> QED BY <1>6, <2>3, AdvanceKeeps DEF CountReceived, redisVars
<1>7. ASSUME NEW h \in handlers, AddEvent(h) PROVE Answers'
  <2>1. h.body \in Seq(Event) BY <1>1, AggregatorAssumption DEF Handlers
  <2>2. h.body[h.progress] \in Event BY <1>7, <2>1, ElementOfSeq DEF AddEvent
  <2>3. /\ RedisOK' /\ Len(stream') = Len(stream) + 1
        /\ stream'[Len(stream')] = h.body[h.progress]
        /\ \A i \in 1..Len(stream) : stream'[i] = stream[i]
    BY <1>1, <1>7, <2>2, AddTypes DEF AddEvent
  <2>4. Len(stream) \in Nat /\ DOMAIN stream = 1..Len(stream) BY <1>1, StreamIsLong
  <2>5. DOMAIN stream' = 1..Len(stream')
    <3>1. stream' \in Seq(Event) BY <2>3 DEF RedisOK
    <3> QED BY <3>1, LenProperties
  <2>6. DOMAIN stream \subseteq DOMAIN stream' /\ Len(stream') \in DOMAIN stream'
    BY <2>3, <2>4, <2>5
  <2>7. InStream(h.body[h.progress])' BY <2>3, <2>6 DEF InStream
  <2>8. \A i \in DOMAIN stream : stream'[i] = stream[i] BY <2>3, <2>4
  <2> QED BY <1>7, <2>6, <2>7, <2>8, AdvanceKeeps DEF AddEvent
<1>8. ASSUME NEW h \in handlers, Respond(h) PROVE Answers'
  <2>1. /\ h.progress = Len(h.body) + 1 /\ handlers' = handlers \ {h} /\ UNCHANGED stream
        /\ \A b \in Batch : request'[b] = IF Awaits(b, h) THEN [request[b] EXCEPT !.status = "accepted"]
                                                          ELSE request[b]
    BY <1>8 DEF Respond, redisVars
  <2>2. \A b \in Batch : /\ request'[b].body = request[b].body
                         /\ Awaits(b, h) => request'[b].status = "accepted"
    BY <1>1, <2>1 DEF Awaits, Requests
  <2>3. h.body \in Seq(Event) BY <1>1, AggregatorAssumption DEF Handlers
  <2>4. DOMAIN h.body = 1..Len(h.body) /\ Len(h.body) \in Nat BY <2>3, LenProperties
  <2>5. \A k \in DOMAIN h.body : k < h.progress BY <2>1, <2>4
  <2>6. \A k \in DOMAIN h.body : InStream(h.body[k]) BY <2>5 DEF Answers, HandlersAdd
  <2>7. ASSUME NEW b \in Batch, request'[b].status = "accepted"
        PROVE  \A k \in DOMAIN request'[b].body : InStream(request'[b].body[k])
    <3>1. CASE Awaits(b, h)
      <4>1. h.batch = b /\ request[b].body = h.body
        BY <3>1 DEF Awaits, Answers, HandlersAdd
      <4> QED BY <2>2, <2>6, <4>1
    <3>2. CASE ~Awaits(b, h)
      <4>1. request'[b] = request[b] BY <2>1, <3>2
      <4> QED BY <4>1, <2>7 DEF Answers, AcceptedIsInStream, InStream
    <3> QED BY <3>1, <3>2
  <2>8. AcceptedIsInStream' BY <2>1, <2>7 DEF AcceptedIsInStream, InStream
  <2>9. \A f \in handlers' : f \in handlers /\ f.batch \in Batch BY <1>1, <2>1 DEF Handlers
  <2>10. \A b \in Batch : request[b].status # "new" => request'[b].status # "new"
    BY <2>1, <2>2
  <2>11. HandlersAdd' BY <2>1, <2>2, <2>9, <2>10 DEF Answers, HandlersAdd, InStream
  <2> QED BY <2>8, <2>11 DEF Answers
<1>9. ASSUME NEW h \in handlers, HandlerFails(h) PROVE Answers'
  <2>1. /\ handlers' \subseteq handlers /\ UNCHANGED stream
        /\ \A b \in Batch : request'[b] = IF Awaits(b, h) THEN Retried(request[b]) ELSE request[b]
    BY <1>9 DEF HandlerFails, redisVars
  <2>2. \A b \in Batch : Awaits(b, h) => request[b].status = "posted" BY DEF Awaits
  <2> QED BY <1>1, <2>1, <2>2, RetriedMeans, AnswersStay
<1>10. CASE \E w \in Worker : WorkerStep(w) \/ BrokerFails(w)
  <2>1. PICK w \in Worker : WorkerStep(w) \/ BrokerFails(w) BY <1>10
  <2>2. UNCHANGED <<request, handlers>>
    BY <2>1 DEF WorkerStep, Claim, ProcessClaimed, AckClaimed, Read, ProcessNew, AckNew,
                BrokerFails, clientVars
  <2>3. UNCHANGED stream
    BY <2>1 DEF WorkerStep, Claim, ProcessClaimed, AckClaimed, Read, ProcessNew, AckNew,
                BrokerFails, Command, TakeStale, TakeNew, Acknowledge, redisVars
  <2> QED BY <1>2, <2>2, <2>3
<1>11. CASE Age BY <1>2, <1>11 DEF Age, clientVars
<1>12. CASE Restart
  <2>1. /\ handlers' \subseteq handlers /\ UNCHANGED stream
        /\ \A b \in Batch : request'[b] = IF request[b].status = "posted" THEN Retried(request[b])
                                                                   ELSE request[b]
    BY <1>12 DEF Restart, redisVars
  <2> QED BY <1>1, <2>1, RetriedMeans, AnswersStay
<1>13. CASE UNCHANGED vars BY <1>2, <1>13 DEF vars, clientVars, redisVars
<1> QED BY <1>3, <1>4, <1>5, <1>6, <1>7, <1>8, <1>9, <1>10, <1>11, <1>12, <1>13 DEF Next

(* A publisher that was told 200 finds every event of its batch in the      *)
(* stream, whichever attempts timed out or failed before, and whenever the  *)
(* aggregator crashed (main.py:79-84, publisher.py:66-91).                  *)
THEOREM AcceptedStands == Spec => []AcceptedIsInStream
<1>1. Answers => AcceptedIsInStream BY DEF Answers
<1> QED BY <1>1, TypeCorrect, InitAnswers, KeepsAnswers, PTL DEF Spec

(***************************************************************************)
(* The aggregator implements the event log.                                *)
(***************************************************************************)

(* Nothing is in the stream or the table that was not posted, and every row *)
(* was counted as new once.                                                 *)
Sourced ==
  /\ \A i \in DOMAIN stream : stream[i] \in Offered
  /\ rows \subseteq Offered
  /\ unique_processed = Cardinality(rows)

LEMMA OfferedMeans ==
  /\ \A e : e \in Offered <=>
       \E b \in Batch : request[b].status # "new" /\ e \in Elements(request[b].body)
  /\ \A e : e \in Offered' <=>
       \E b \in Batch : request'[b].status # "new" /\ e \in Elements(request'[b].body)
<1>1. \A e : e \in Offered <=>
       \E b \in Batch : request[b].status # "new" /\ e \in Elements(request[b].body)
  BY DEF Offered
<1>2. \A e : e \in Offered' <=>
       \E b \in Batch : request'[b].status # "new" /\ e \in Elements(request'[b].body)
  BY DEF Offered, Elements
<1> QED BY <1>1, <1>2

LEMMA PromisedMeans ==
  /\ \A e : e \in Promised <=>
       \E b \in Batch : request[b].status = "accepted" /\ e \in Elements(request[b].body)
  /\ \A e : e \in Promised' <=>
       \E b \in Batch : request'[b].status = "accepted" /\ e \in Elements(request'[b].body)
<1>1. \A e : e \in Promised <=>
       \E b \in Batch : request[b].status = "accepted" /\ e \in Elements(request[b].body)
  BY DEF Promised, Accepted
<1>2. \A e : e \in Promised' <=>
       \E b \in Batch : request'[b].status = "accepted" /\ e \in Elements(request'[b].body)
  BY DEF Promised, Accepted, Elements
<1> QED BY <1>1, <1>2

LEMMA PromisedIsOffered == Promised \subseteq Offered /\ Promised' \subseteq Offered'
<1>1. Promised \subseteq Offered BY OfferedMeans, PromisedMeans
<1>2. Promised' \subseteq Offered' BY OfferedMeans, PromisedMeans
<1> QED BY <1>1, <1>2

LEMMA BodyElements ==
  ASSUME NEW body \in Bodies
  PROVE  Elements(body) \subseteq Event
<1>1. body \in Seq(Event) BY AggregatorAssumption
<1> QED BY <1>1, ElementOfSeq, LenProperties DEF Elements

LEMMA OfferedAreEvents ==
  ASSUME TypeOK
  PROVE  Offered \subseteq Event
<1> SUFFICES ASSUME NEW e \in Offered PROVE e \in Event OBVIOUS
<1>1. PICK b \in Batch : request[b].status # "new" /\ e \in Elements(request[b].body)
  BY OfferedMeans
<1>2. request[b].body \in Bodies BY <1>1 DEF TypeOK, Requests
<1> QED BY <1>1, <1>2, BodyElements

(* No batch is posted for the first time. *)
SameBodies ==
  \A b \in Batch : \/ request'[b] = request[b]
                   \/ /\ request[b].status # "new" /\ request'[b].status # "new"
                      /\ request'[b].body = request[b].body

LEMMA OffersNothing == SameBodies => Offered' = Offered
<1> SUFFICES ASSUME SameBodies PROVE \A e : e \in Offered' <=> e \in Offered OBVIOUS
<1>1. \A b \in Batch : /\ request'[b].status # "new" <=> request[b].status # "new"
                       /\ request[b].status # "new" => request'[b].body = request[b].body
  BY DEF SameBodies
<1> QED BY <1>1, OfferedMeans

(* No batch is accepted. *)
SameAccepted ==
  \A b \in Batch : \/ request'[b] = request[b]
                   \/ /\ request[b].status # "accepted"
                      /\ request'[b].status # "accepted"

LEMMA PromisesNothing == SameAccepted => Promised' = Promised
<1> SUFFICES ASSUME SameAccepted PROVE \A e : e \in Promised' <=> e \in Promised OBVIOUS
<1>1. \A b \in Batch : \/ request'[b] = request[b]
                       \/ /\ request[b].status # "accepted"
                          /\ request'[b].status # "accepted"
  BY DEF SameAccepted
<1> QED BY <1>1, PromisedMeans

(* A transaction is a step of the event log, or changes nothing it sees.    *)
LEMMA CommitStores ==
  ASSUME TypeOK, Sourced, NEW i \in DOMAIN stream, UNCHANGED <<request, stream>>,
         UNCHANGED tableVars \/ Commit(stream[i])
  PROVE  /\ Sourced'
         /\ (\E e \in Event : Log!Store(e)) \/ UNCHANGED Log!vars
<1>1. Offered' = Offered /\ Promised' = Promised
  BY OffersNothing, PromisesNothing DEF SameBodies, SameAccepted
<1>2. /\ rows \subseteq Event /\ IsFiniteSet(rows) /\ Cardinality(rows) \in Nat
      /\ unique_processed = Cardinality(rows) /\ stream[i] \in Offered /\ stream[i] \in Event
  BY AggregatorAssumption, OfferedAreEvents, FS_Subset, FS_CardinalityType DEF TypeOK, Sourced
<1>3. ASSUME rows' = rows, unique_processed' = unique_processed
      PROVE  Sourced' /\ UNCHANGED Log!vars
  BY <1>1, <1>3 DEF Sourced, Log!vars
<1>4. CASE UNCHANGED tableVars BY <1>3, <1>4 DEF tableVars
<1>5. CASE Commit(stream[i]) /\ stream[i] \in rows
  <2>1. rows' = rows /\ unique_processed' = unique_processed BY <1>5 DEF Commit
  <2> QED BY <1>3, <2>1
<1>6. CASE Commit(stream[i]) /\ stream[i] \notin rows
  <2>1. rows' = rows \cup {stream[i]} /\ unique_processed' = unique_processed + 1
    BY <1>6 DEF Commit
  <2>2. Cardinality(rows') = Cardinality(rows) + 1 BY <1>2, <1>6, <2>1, FS_AddElement
  <2>3. Sourced' BY <1>1, <1>2, <2>1, <2>2 DEF Sourced
  <2>4. Log!Store(stream[i]) BY <1>1, <1>2, <1>6, <2>1 DEF Log!Store
  <2> QED BY <1>2, <2>3, <2>4
<1> QED BY <1>4, <1>5, <1>6

LEMMA WorkerStores ==
  ASSUME TypeOK, Sourced, NEW w \in Worker, WorkerStep(w) \/ BrokerFails(w)
  PROVE  /\ Sourced'
         /\ (\E e \in Event : Log!Store(e)) \/ UNCHANGED Log!vars
<1>1. UNCHANGED request
  BY DEF WorkerStep, Claim, ProcessClaimed, AckClaimed, Read, ProcessNew, AckNew,
         BrokerFails, clientVars
<1>2. UNCHANGED stream
  BY DEF WorkerStep, Claim, ProcessClaimed, AckClaimed, Read, ProcessNew, AckNew,
         BrokerFails, Command, TakeStale, TakeNew, Acknowledge, redisVars
<1>3. ASSUME UNCHANGED tableVars PROVE Sourced' /\ UNCHANGED Log!vars
  <2>1. Offered' = Offered /\ Promised' = Promised
    BY <1>1, OffersNothing, PromisesNothing DEF SameBodies, SameAccepted
  <2> QED BY <1>2, <1>3, <2>1 DEF Sourced, Log!vars, tableVars
<1>4. CASE Claim(w) \/ AckClaimed(w) \/ Read(w) \/ AckNew(w) \/ BrokerFails(w)
  BY <1>3, <1>4 DEF Claim, AckClaimed, Read, AckNew, BrokerFails
<1>5. CASE ProcessClaimed(w) \/ ProcessNew(w)
  <2>1. PICK i \in First(worker[w].todo) : Commit(stream[i]) \/ Raises(stream[i])
    BY <1>5 DEF ProcessClaimed, ProcessNew
  <2>2. i \in DOMAIN stream
    <3>1. RedisOK /\ LoopsOK BY TypeParts
    <3> QED BY <3>1, NextEntry, StreamIsLong
  <2>3. Commit(stream[i]) \/ UNCHANGED tableVars BY <2>1 DEF Raises
  <2> QED BY <1>1, <1>2, <2>2, <2>3, CommitStores
<1> QED BY <1>4, <1>5 DEF WorkerStep

(* The steps of the publisher and of POST /publish.                         *)
LEMMA ClientOffers ==
  ASSUME TypeOK, Answers, Sourced, UNCHANGED tableVars,
         \/ \E b \in Batch : Post(b) \/ Repost(b) \/ ClientTimeout(b)
         \/ \E h \in handlers : CountReceived(h) \/ AddEvent(h) \/ Respond(h) \/ HandlerFails(h)
         \/ Age \/ Restart \/ UNCHANGED vars
  PROVE  /\ Sourced'
         /\ (\E S \in SUBSET Event : Log!Offer(S) \/ Log!Promise(S)) \/ UNCHANGED Log!vars
<1> DEFINE Abstract == (\E S \in SUBSET Event : Log!Offer(S) \/ Log!Promise(S))
                       \/ UNCHANGED Log!vars
<1>1. /\ RedisOK /\ handlers \subseteq Handlers /\ \A b \in Batch : request[b] \in Requests
      /\ rows' = rows /\ unique_processed' = unique_processed /\ DOMAIN request = Batch
  BY TypeParts DEF ClientsOK, tableVars
<1>2. ASSUME SameBodies, SameAccepted, UNCHANGED stream PROVE Sourced' /\ Abstract
  BY <1>1, <1>2, OffersNothing, PromisesNothing DEF Sourced, Log!vars
<1>3. ASSUME NEW b \in Batch, Post(b) PROVE Sourced' /\ Abstract
  <2>1. PICK body \in Bodies : Attempt(b, body, 1) BY <1>3 DEF Post
  <2>2. /\ request[b].status = "new" /\ UNCHANGED stream
        /\ request'[b].status = "posted" /\ request'[b].body = body
        /\ \A c \in Batch \ {b} : request'[c] = request[c]
    BY <1>1, <1>3, <2>1 DEF Post, Attempt, redisVars
  <2>3. Elements(body) \subseteq Event BY BodyElements
  <2>4. \A e : e \in Offered' <=> e \in Offered \/ e \in Elements(body) BY <2>2, OfferedMeans
  <2>5. Offered' = Offered \cup Elements(body) BY <2>4
  <2>6. SameAccepted BY <2>2 DEF SameAccepted
  <2>7. Promised' = Promised BY <2>6, PromisesNothing
  <2>8. Log!Offer(Elements(body)) BY <1>1, <2>5, <2>7 DEF Log!Offer
  <2>9. Sourced' BY <1>1, <2>2, <2>5 DEF Sourced
  <2> QED BY <2>3, <2>8, <2>9
<1>4. ASSUME NEW b \in Batch, Repost(b) PROVE Sourced' /\ Abstract
  <2>1. /\ request[b].status = "backoff" /\ UNCHANGED stream
        /\ request'[b].status = "posted" /\ request'[b].body = request[b].body
        /\ \A c \in Batch \ {b} : request'[c] = request[c]
    BY <1>1, <1>4 DEF Repost, Attempt, redisVars
  <2>2. SameBodies /\ SameAccepted BY <2>1 DEF SameBodies, SameAccepted
  <2> QED BY <1>2, <2>1, <2>2
<1>5. ASSUME UNCHANGED stream,
             \A b \in Batch : \/ request'[b] = request[b]
                              \/ request[b].status = "posted" /\ request'[b] = Retried(request[b])
      PROVE  Sourced' /\ Abstract
  <2>1. \A b \in Batch : \/ request'[b] = request[b]
                         \/ /\ request[b].status = "posted" /\ request'[b].body = request[b].body
                            /\ request'[b].status \in {"backoff", "failed"}
    BY <1>1, <1>5, RetriedMeans
  <2>2. SameBodies /\ SameAccepted BY <2>1 DEF SameBodies, SameAccepted
  <2> QED BY <1>2, <1>5, <2>2
<1>6. ASSUME NEW b \in Batch, ClientTimeout(b) PROVE Sourced' /\ Abstract
  BY <1>1, <1>5, <1>6 DEF ClientTimeout, redisVars
<1>7. ASSUME NEW h \in handlers, CountReceived(h) PROVE Sourced' /\ Abstract
  BY <1>2, <1>7 DEF CountReceived, redisVars, SameBodies, SameAccepted
<1>8. ASSUME NEW h \in handlers, AddEvent(h) PROVE Sourced' /\ Abstract
  <2>1. /\ stream' = Append(stream, h.body[h.progress]) /\ UNCHANGED <<request, delivered, fresh, stale>>
        /\ h.progress \in 1..Len(h.body)
    BY <1>8 DEF AddEvent
  <2>2. Offered' = Offered /\ Promised' = Promised
    BY <2>1, OffersNothing, PromisesNothing DEF SameBodies, SameAccepted
  <2>3. h.body \in Seq(Event) /\ h.batch \in Batch BY <1>1, AggregatorAssumption DEF Handlers
  <2>4. h.progress \in DOMAIN h.body /\ h.body[h.progress] \in Event
    BY <2>1, <2>3, ElementOfSeq, LenProperties
  <2>5. h.body[h.progress] \in Offered
    <3>1. request[h.batch].status # "new" /\ request[h.batch].body = h.body
      BY DEF Answers, HandlersAdd
    <3> QED BY <2>3, <2>4, <3>1, OfferedMeans DEF Elements
  <2>6. /\ RedisOK' /\ Len(stream') = Len(stream) + 1
        /\ stream'[Len(stream')] = h.body[h.progress]
        /\ \A i \in 1..Len(stream) : stream'[i] = stream[i]
    BY <1>1, <2>1, <2>4, AddTypes
  <2>7. Len(stream) \in Nat /\ DOMAIN stream = 1..Len(stream) BY <1>1, StreamIsLong
  <2>8. DOMAIN stream' = 1..Len(stream')
    <3>1. stream' \in Seq(Event) BY <2>6 DEF RedisOK
    <3> QED BY <3>1, LenProperties
  <2>9. ASSUME NEW i \in DOMAIN stream' PROVE stream'[i] \in Offered'
    <3>1. i \in DOMAIN stream \/ i = Len(stream') BY <2>6, <2>7, <2>8
    <3> QED BY <2>2, <2>5, <2>6, <2>7, <3>1 DEF Sourced
  <2>10. Sourced' BY <1>1, <2>2, <2>9 DEF Sourced
  <2> QED BY <1>1, <2>2, <2>10 DEF Log!vars
<1>9. ASSUME NEW h \in handlers, Respond(h) PROVE Sourced' /\ Abstract
  <2>1. /\ UNCHANGED stream
        /\ \A b \in Batch : request'[b] = IF Awaits(b, h) THEN [request[b] EXCEPT !.status = "accepted"]
                                                          ELSE request[b]
    BY <1>9 DEF Respond, redisVars
  <2>2. \A b \in Batch : \/ request'[b] = request[b]
                         \/ /\ request[b].status = "posted" /\ request'[b].status = "accepted"
                            /\ request'[b].body = request[b].body
    BY <1>1, <2>1 DEF Awaits, Requests
  <2>3. SameBodies BY <2>2 DEF SameBodies
  <2>4. Offered' = Offered BY <2>3, OffersNothing
  <2>5. Promised \subseteq Promised' BY <2>2, PromisedMeans
  <2>6. Promised' \subseteq Offered BY <2>4, PromisedIsOffered
  <2>7. Log!Promise(Promised') BY <1>1, <2>4, <2>5, <2>6 DEF Log!Promise
  <2>8. Sourced' BY <1>1, <2>1, <2>4 DEF Sourced
  <2> QED BY <2>6, <2>7, <2>8, OfferedAreEvents
<1>10. ASSUME NEW h \in handlers, HandlerFails(h) PROVE Sourced' /\ Abstract
  <2>1. \A b \in Batch : request'[b] = IF Awaits(b, h) THEN Retried(request[b]) ELSE request[b]
    BY <1>10 DEF HandlerFails
  <2>2. \A b \in Batch : Awaits(b, h) => request[b].status = "posted" BY DEF Awaits
  <2> QED BY <1>5, <1>10, <2>1, <2>2 DEF HandlerFails, redisVars
<1>11. CASE Age BY <1>2, <1>11 DEF Age, clientVars, SameBodies, SameAccepted
<1>12. CASE Restart BY <1>5, <1>12 DEF Restart, redisVars
<1>13. CASE UNCHANGED vars
  BY <1>2, <1>13 DEF vars, clientVars, redisVars, SameBodies, SameAccepted
<1> QED BY <1>3, <1>4, <1>6, <1>7, <1>8, <1>9, <1>10, <1>11, <1>12, <1>13

LEMMA StepsOfLog ==
  TypeOK /\ Answers /\ Sourced /\ [Next]_vars => Sourced' /\ [Log!Next]_(Log!vars)
<1> SUFFICES ASSUME TypeOK, Answers, Sourced, [Next]_vars
             PROVE  Sourced' /\ [Log!Next]_(Log!vars)
  OBVIOUS
<1>1. CASE \E w \in Worker : WorkerStep(w) \/ BrokerFails(w)
  BY <1>1, WorkerStores DEF Log!Next
<1>2. ASSUME \/ \E b \in Batch : Post(b) \/ Repost(b) \/ ClientTimeout(b)
             \/ \E h \in handlers : CountReceived(h) \/ AddEvent(h) \/ Respond(h) \/ HandlerFails(h)
             \/ Age \/ Restart \/ UNCHANGED vars
      PROVE  UNCHANGED tableVars
  BY <1>2 DEF Post, Repost, ClientTimeout, Attempt, CountReceived, AddEvent, Respond, HandlerFails,
              Age, Restart, vars
<1>3. CASE \/ \E b \in Batch : Post(b) \/ Repost(b) \/ ClientTimeout(b)
           \/ \E h \in handlers : CountReceived(h) \/ AddEvent(h) \/ Respond(h) \/ HandlerFails(h)
           \/ Age \/ Restart \/ UNCHANGED vars
  BY <1>2, <1>3, ClientOffers DEF Log!Next
<1> QED BY <1>1, <1>3 DEF Next

LEMMA InitOfLog == Init => Sourced /\ Log!Init
<1> SUFFICES ASSUME Init PROVE Sourced /\ Log!Init OBVIOUS
<1>1. \A b \in Batch : request[b].status = "new" BY DEF Init
<1>2. Offered = {} /\ Promised = {} BY <1>1, OfferedMeans, PromisedMeans
<1>3. DOMAIN stream = {} BY DEF Init
<1> QED BY <1>2, <1>3, FS_EmptySet DEF Init, Sourced, Log!Init

(* However often an event is posted, delivered, claimed and committed, by   *)
(* any workers and with any crashes and lost answers, it has one row and is *)
(* counted as new once; nothing is stored that was not posted, and no       *)
(* answer 200 is taken back (consumer.py:34-46, db.py:57-92).               *)
THEOREM Implements == Spec => ImplementsEventLog
<1>1. Spec => []TypeOK BY TypeCorrect
<1>2. Spec => []Answers BY <1>1, InitAnswers, KeepsAnswers, PTL DEF Spec
<1>3. Spec => []Sourced BY <1>1, <1>2, InitOfLog, StepsOfLog, PTL DEF Spec
<1> QED BY <1>1, <1>2, <1>3, InitOfLog, StepsOfLog, PTL DEF Spec, ImplementsEventLog, Log!Spec

(***************************************************************************)
(* The counters.                                                           *)
(***************************************************************************)

(* The entries a worker has committed and is about to acknowledge.          *)
InHand(l) == l.ack_ids \cup IF l.at = "committed" THEN First(l.todo) ELSE {}

(* The entries that are done with, or will be at the next XACK: each was    *)
(* committed, and no two of them in one transaction (consumer.py:23-24).    *)
Done == {i \in 1..delivered : i \notin Pending \/ \E w \in Worker : i \in InHand(worker[w])}

Counted == unique_processed + duplicate_dropped

DoneCounted == Cardinality(Done) <= Counted

LEMMA DoneIsFinite == TypeOK => IsFiniteSet(Done) /\ Cardinality(Done) \in Nat
<1> SUFFICES ASSUME TypeOK PROVE IsFiniteSet(Done) /\ Cardinality(Done) \in Nat OBVIOUS
<1>1. delivered \in Nat BY TypeParts, StreamIsLong
<1>2. IsFiniteSet(1..delivered) BY <1>1, FS_Interval
<1>3. Done \in SUBSET (1..delivered) BY DEF Done
<1> QED BY <1>2, <1>3, FS_Subset, FS_CardinalityType

(* A transaction counts its event once.                                     *)
LEMMA CommitCounts ==
  ASSUME TablesOK, NEW e, Commit(e)
  PROVE  Counted \in Nat /\ Counted' = Counted + 1
BY DEF TablesOK, Commit, Counted

LEMMA RaisesCounts ==
  ASSUME TablesOK, NEW e, Raises(e)
  PROVE  Counted' = Counted \/ Counted' = Counted + 1
<1>1. CASE UNCHANGED tableVars BY <1>1 DEF Counted, tableVars
<1>2. CASE Commit(e) BY <1>2, CommitCounts
<1> QED BY <1>1, <1>2 DEF Raises

(* Nothing more is done, or one entry more, and that one is counted.        *)
LEMMA DoneStays ==
  ASSUME TypeOK, DoneCounted, Done' \subseteq Done,
         Counted' = Counted \/ Counted' = Counted + 1
  PROVE  DoneCounted'
<1> DEFINE D == Done
           E == Done'
<1>1. IsFiniteSet(D) /\ Cardinality(D) \in Nat BY DoneIsFinite
<1>2. E \in SUBSET D OBVIOUS
<1>3. Counted \in Nat BY DEF TypeOK, Counted
<1>4. Cardinality(D) <= Counted BY DEF DoneCounted
<1> HIDE DEF D, E
<1>5. Cardinality(E) <= Cardinality(D) /\ Cardinality(E) \in Nat
  BY <1>1, <1>2, FS_Subset, FS_CardinalityType
<1>6. Cardinality(E) <= Counted' BY <1>1, <1>3, <1>4, <1>5
<1> QED BY <1>6 DEF DoneCounted, E

LEMMA DoneGrows ==
  ASSUME TypeOK, DoneCounted, NEW i, Done' \subseteq Done \cup {i}, Counted' = Counted + 1
  PROVE  DoneCounted'
<1> DEFINE D == Done
           E == Done'
           F == D \cup {i}
<1>1. IsFiniteSet(D) /\ Cardinality(D) \in Nat BY DoneIsFinite
<1>2. E \in SUBSET F OBVIOUS
<1>3. Counted \in Nat BY DEF TypeOK, Counted
<1>4. Cardinality(D) <= Counted BY DEF DoneCounted
<1> HIDE DEF D, E
<1>5. /\ IsFiniteSet(F)
      /\ Cardinality(F) = IF i \in D THEN Cardinality(D) ELSE Cardinality(D) + 1
  BY <1>1, FS_AddElement
<1> HIDE DEF F
<1>6. Cardinality(E) <= Cardinality(F) /\ Cardinality(E) \in Nat
  BY <1>2, <1>5, FS_Subset, FS_CardinalityType
<1>7. Cardinality(F) \in Nat /\ Cardinality(F) <= Cardinality(D) + 1 BY <1>1, <1>5
<1>8. Cardinality(E) <= Counted' BY <1>1, <1>3, <1>4, <1>6, <1>7
<1> QED BY <1>8 DEF DoneCounted, E

(* A command to Redis ends only what its worker had committed.              *)
LEMMA CommandEnds ==
  ASSUME TypeOK, NEW w \in Worker, Command(w) \/ UNCHANGED redisVars,
         NEW i \in 1..delivered', i \notin Pending'
  PROVE  i \in Done
<1> DEFINE loop == worker[w]
<1>1. RedisOK BY TypeParts
<1>2. loop.ack_ids \subseteq 1..delivered /\ loop.todo \subseteq 1..delivered BY DEF TypeOK
<1>3. CASE UNCHANGED redisVars BY <1>3 DEF redisVars, Pending, Done
<1>4. CASE TakeStale(Oldest(stale))
  <2>1. Oldest(stale) \in SUBSET stale BY DEF Oldest
  <2>2. Pending' = Pending /\ UNCHANGED <<stream, delivered>> BY <1>1, <1>4, <2>1, TakeStaleTypes
  <2> QED BY <2>2 DEF Done
<1>5. ASSUME NEW S, Acknowledge(S), S \subseteq InHand(loop), S \subseteq 1..delivered
      PROVE  i \in Done
  <2>1. Pending' = Pending \ S /\ UNCHANGED <<stream, delivered>> BY <1>1, <1>5, AcknowledgeTypes
  <2> QED BY <2>1, <1>5 DEF Done
<1>6. CASE TakeNew(NewEntries)
  <2>1. /\ Pending' = Pending \cup NewEntries
        /\ 1..delivered' = (1..delivered) \cup NewEntries
    BY <1>1, <1>6, TakeNewTypes
  <2> QED BY <2>1 DEF Done
<1>7. CASE /\ loop.at = "committed"
           /\ \E j \in First(loop.todo) : Acknowledge({j})
  <2>1. PICK j \in First(loop.todo) : Acknowledge({j}) BY <1>7
  <2>2. j \in InHand(loop) /\ j \in 1..delivered BY <1>2, <1>7, <2>1 DEF InHand, First
  <2> QED BY <2>1, <2>2, <1>5
<1>8. CASE Acknowledge(loop.ack_ids) BY <1>2, <1>5, <1>8 DEF InHand
<1> QED BY <1>3, <1>4, <1>6, <1>7, <1>8 DEF Command

(* One loop changes, and has at most the entries X more in hand.            *)
LEMMA LoopDoes ==
  ASSUME TypeOK, NEW w \in Worker, NEW l, NEW X, worker' = [worker EXCEPT ![w] = l],
         InHand(l) \subseteq InHand(worker[w]) \cup X,
         \A i \in 1..delivered' : i \notin Pending' => i \in Done
  PROVE  Done' \subseteq Done \cup X
<1> SUFFICES ASSUME NEW i \in Done' PROVE i \in Done \cup X OBVIOUS
<1>1. \A v \in Worker : worker'[v] = IF v = w THEN l ELSE worker[v] BY DEF TypeOK
<1>2. \A v \in Worker : InHand(worker[v]) \subseteq 1..delivered BY DEF TypeOK, InHand, First
<1>3. i \in 1..delivered' /\ (i \notin Pending' \/ \E v \in Worker : i \in InHand(worker'[v]))
  BY DEF Done, InHand, First
<1>4. CASE i \notin Pending' BY <1>3, <1>4
<1>5. ASSUME NEW v \in Worker, i \in InHand(worker'[v]) PROVE i \in Done \cup X
  <2>1. i \in InHand(worker[v]) \/ i \in X BY <1>1, <1>5
  <2> QED BY <1>2, <2>1 DEF Done
<1> QED BY <1>3, <1>4, <1>5

(* Only a worker commits or acknowledges, one entry after the other.        *)
LEMMA WorkerCounts ==
  ASSUME TypeOK, DoneCounted, NEW w \in Worker, WorkerStep(w) \/ BrokerFails(w)
  PROVE  DoneCounted'
<1> DEFINE loop == worker[w]
<1>1. RedisOK /\ TablesOK /\ LoopsOK /\ loop \in Loops BY TypeParts DEF LoopsOK
<1>2. ASSUME NEW l, worker' = [worker EXCEPT ![w] = l], InHand(l) \subseteq InHand(loop),
             Command(w) \/ UNCHANGED redisVars, Counted' = Counted \/ Counted' = Counted + 1
      PROVE  DoneCounted'
  <2> DEFINE X == {}
  <2>1. \A i \in 1..delivered' : i \notin Pending' => i \in Done BY <1>2, CommandEnds
  <2>2. InHand(l) \subseteq InHand(loop) \cup X BY <1>2
  <2> HIDE DEF X
  <2>3. Done' \subseteq Done \cup X BY <1>2, <2>1, <2>2, LoopDoes
  <2>4. Done' \subseteq Done BY <2>3 DEF X
  <2> QED BY <1>2, <2>4, DoneStays
<1>3. ASSUME NEW l, NEW i, worker' = [worker EXCEPT ![w] = l],
             InHand(l) \subseteq InHand(loop) \cup {i}, UNCHANGED redisVars, Counted' = Counted + 1
      PROVE  DoneCounted'
  <2> DEFINE X == {i}
  <2>1. \A j \in 1..delivered' : j \notin Pending' => j \in Done BY <1>3, CommandEnds
  <2>2. InHand(l) \subseteq InHand(loop) \cup X BY <1>3
  <2> HIDE DEF X
  <2>3. Done' \subseteq Done \cup X BY <1>3, <2>1, <2>2, LoopDoes
  <2>4. Done' \subseteq Done \cup {i} BY <2>3 DEF X
  <2> QED BY <1>3, <2>4, DoneGrows
<1>4. ASSUME UNCHANGED tableVars PROVE Counted' = Counted BY <1>4 DEF Counted, tableVars
<1>5. CASE Claim(w)
  <2> DEFINE l == [loop EXCEPT !.at = "claimed", !.todo = Oldest(stale)]
  <2>1. Command(w) BY <1>5 DEF Claim, Command
  <2>2. worker' = [worker EXCEPT ![w] = l] BY <1>1, <1>5 DEF Claim, Goto
  <2>3. InHand(l) \subseteq InHand(loop) BY <1>1 DEF Loops, InHand
  <2>4. Counted' = Counted BY <1>4, <1>5 DEF Claim
  <2> HIDE DEF l
  <2> QED BY <1>2, <2>1, <2>2, <2>3, <2>4
<1>6. CASE ProcessClaimed(w)
  <2>1. PICK i \in First(loop.todo) :
          \/ Commit(stream[i]) /\ Goto(w, "committed", loop.todo) /\ UNCHANGED faults
          \/ Raises(stream[i]) /\ Goto(w, "top", {})
    BY <1>6 DEF ProcessClaimed
  <2>2. UNCHANGED redisVars BY <1>6 DEF ProcessClaimed
  <2>3. CASE Commit(stream[i]) /\ Goto(w, "committed", loop.todo)
    <3> DEFINE l == [loop EXCEPT !.at = "committed", !.todo = loop.todo]
    <3>1. worker' = [worker EXCEPT ![w] = l] BY <1>1, <2>3 DEF Goto
    <3>2. l.at = "committed" /\ l.todo = loop.todo /\ l.ack_ids = loop.ack_ids BY <1>1 DEF Loops
    <3>3. \A j \in First(loop.todo) : j = i BY <2>1, <1>1 DEF First, Loops
    <3> HIDE DEF l
    <3>4. InHand(l) \subseteq InHand(loop) \cup {i} BY <3>2, <3>3 DEF InHand
    <3>5. Counted' = Counted + 1 BY <1>1, <2>3, CommitCounts
    <3> QED BY <1>3, <2>2, <3>1, <3>4, <3>5
  <2>4. CASE Raises(stream[i]) /\ Goto(w, "top", {})
    <3> DEFINE l == [loop EXCEPT !.at = "top", !.todo = {}]
    <3>1. worker' = [worker EXCEPT ![w] = l] BY <1>1, <2>4 DEF Goto
    <3>2. InHand(l) \subseteq InHand(loop) BY <1>1 DEF Loops, InHand
    <3>3. Counted' = Counted \/ Counted' = Counted + 1 BY <1>1, <2>4, RaisesCounts
    <3> HIDE DEF l
    <3> QED BY <1>2, <2>2, <3>1, <3>2, <3>3
  <2> QED BY <2>1, <2>3, <2>4
<1>7. CASE AckClaimed(w)
  <2>1. PICK i \in First(loop.todo) : Acknowledge({i}) /\ Goto(w, "claimed", loop.todo \ {i})
    BY <1>7 DEF AckClaimed
  <2> DEFINE l == [loop EXCEPT !.at = "claimed", !.todo = loop.todo \ {i}]
  <2>2. Command(w) BY <1>7, <2>1 DEF AckClaimed, Command
  <2>3. worker' = [worker EXCEPT ![w] = l] BY <1>1, <2>1 DEF Goto
  <2>4. InHand(l) \subseteq InHand(loop) BY <1>1 DEF Loops, InHand
  <2>5. Counted' = Counted BY <1>4, <1>7 DEF AckClaimed
  <2> HIDE DEF l
  <2> QED BY <1>2, <2>2, <2>3, <2>4, <2>5
<1>8. ASSUME NEW l, worker' = [worker EXCEPT ![w] = l], l.at # "committed", l.ack_ids = {},
             Command(w) \/ UNCHANGED redisVars, UNCHANGED tableVars
      PROVE  DoneCounted'
  <2>1. InHand(l) \subseteq InHand(loop) BY <1>8 DEF InHand
  <2> QED BY <1>2, <1>4, <1>8, <2>1
<1>9. CASE Read(w)
  <2> DEFINE l == IF NewEntries = {}
                  THEN [NewLoop EXCEPT !.idle_cycles = (loop.idle_cycles + 1) % ClaimEvery]
                  ELSE [NewLoop EXCEPT !.at = "batch", !.todo = NewEntries]
  <2>1. worker' = [worker EXCEPT ![w] = l] BY <1>9 DEF Read
  <2>2. l.at # "committed" /\ l.ack_ids = {} BY DEF NewLoop
  <2>3. Command(w) /\ UNCHANGED tableVars BY <1>9 DEF Read, Command
  <2> HIDE DEF l
  <2> QED BY <1>8, <2>1, <2>2, <2>3
<1>10. CASE ProcessNew(w)
  <2>1. PICK i \in First(loop.todo) :
          \/ /\ Commit(stream[i]) /\ UNCHANGED faults
             /\ worker' = [worker EXCEPT ![w].todo = @ \ {i}, ![w].ack_ids = @ \cup {i}]
          \/ Raises(stream[i]) /\ Goto(w, "batch", loop.todo \ {i})
    BY <1>10 DEF ProcessNew
  <2>2. UNCHANGED redisVars /\ loop.at = "batch" BY <1>10 DEF ProcessNew
  <2>3. CASE /\ Commit(stream[i])
             /\ worker' = [worker EXCEPT ![w].todo = @ \ {i}, ![w].ack_ids = @ \cup {i}]
    <3> DEFINE l == [loop EXCEPT !.todo = @ \ {i}, !.ack_ids = @ \cup {i}]
    <3>1. worker' = [worker EXCEPT ![w] = l] BY <1>1, <2>3
    <3>2. InHand(l) \subseteq InHand(loop) \cup {i} BY <1>1, <2>2 DEF Loops, InHand
    <3>3. Counted' = Counted + 1 BY <1>1, <2>3, CommitCounts
    <3> HIDE DEF l
    <3> QED BY <1>3, <2>2, <3>1, <3>2, <3>3
  <2>4. CASE Raises(stream[i]) /\ Goto(w, "batch", loop.todo \ {i})
    <3> DEFINE l == [loop EXCEPT !.at = "batch", !.todo = loop.todo \ {i}]
    <3>1. worker' = [worker EXCEPT ![w] = l] BY <1>1, <2>4 DEF Goto
    <3>2. InHand(l) \subseteq InHand(loop) BY <1>1 DEF Loops, InHand
    <3>3. Counted' = Counted \/ Counted' = Counted + 1 BY <1>1, <2>4, RaisesCounts
    <3> HIDE DEF l
    <3> QED BY <1>2, <2>2, <3>1, <3>2, <3>3
  <2> QED BY <2>1, <2>3, <2>4
<1>11. CASE AckNew(w)
  <2>1. worker' = [worker EXCEPT ![w] = NewLoop] /\ Command(w) /\ UNCHANGED tableVars
    BY <1>11 DEF AckNew, Command
  <2>2. NewLoop.at # "committed" /\ NewLoop.ack_ids = {} BY DEF NewLoop
  <2> QED BY <1>8, <2>1, <2>2
<1>12. CASE BrokerFails(w)
  <2> DEFINE l == [NewLoop EXCEPT !.idle_cycles = loop.idle_cycles]
  <2>1. worker' = [worker EXCEPT ![w] = l] /\ UNCHANGED tableVars
        /\ (Command(w) \/ UNCHANGED redisVars)
    BY <1>12 DEF BrokerFails
  <2>2. l.at # "committed" /\ l.ack_ids = {} BY DEF NewLoop
  <2> HIDE DEF l
  <2> QED BY <1>8, <2>1, <2>2
<1> QED BY <1>5, <1>6, <1>7, <1>9, <1>10, <1>11, <1>12 DEF WorkerStep

LEMMA InitDone == Init => DoneCounted
<1> SUFFICES ASSUME Init PROVE DoneCounted OBVIOUS
<1>1. Done = {} BY DEF Init, Done
<1>2. Cardinality(Done) = 0 BY <1>1, FS_EmptySet
<1> QED BY <1>2 DEF Init, DoneCounted, Counted

LEMMA KeepsDone == TypeOK /\ DoneCounted /\ [Next]_vars => DoneCounted'
<1> SUFFICES ASSUME TypeOK, DoneCounted, [Next]_vars PROVE DoneCounted' OBVIOUS
<1>1. RedisOK /\ ClientsOK BY TypeParts
<1>2. ASSUME Pending' = Pending, UNCHANGED <<delivered, tableVars>>,
             worker' = worker \/ worker' = [v \in Worker |-> NewLoop]
      PROVE  DoneCounted'
  <2>1. \A v \in Worker : worker'[v] = worker[v] \/ worker'[v] = NewLoop BY <1>2
  <2>2. InHand(NewLoop) = {} BY DEF InHand, NewLoop
  <2>3. \A i \in 1..delivered :
          (\E v \in Worker : i \in InHand(worker'[v])) => \E v \in Worker : i \in InHand(worker[v])
    BY <2>1, <2>2
  <2>4. Done' = {i \in 1..delivered : i \notin Pending \/ \E v \in Worker : i \in InHand(worker'[v])}
    BY <1>2 DEF Done, InHand, First
  <2>5. Done' \subseteq Done BY <2>3, <2>4 DEF Done
  <2>6. Counted' = Counted BY <1>2 DEF Counted, tableVars
  <2> QED BY <2>5, <2>6, DoneStays
<1>3. CASE \/ \E b \in Batch : Post(b) \/ Repost(b) \/ ClientTimeout(b)
           \/ \E h \in handlers : CountReceived(h) \/ Respond(h) \/ HandlerFails(h)
  BY <1>2, <1>3 DEF Post, Repost, ClientTimeout, Attempt, CountReceived, Respond, HandlerFails,
                    redisVars, Pending
<1>4. CASE \E h \in handlers : AddEvent(h) BY <1>2, <1>4 DEF AddEvent, Pending
<1>5. CASE \E w \in Worker : WorkerStep(w) \/ BrokerFails(w) BY <1>5, WorkerCounts
<1>6. CASE Age BY <1>1, <1>2, <1>6, AgeTypes DEF Age
<1>7. CASE Restart BY <1>2, <1>7 DEF Restart, redisVars, Pending
<1>8. CASE UNCHANGED vars BY <1>2, <1>8 DEF vars, redisVars, Pending
<1> QED BY <1>3, <1>4, <1>5, <1>6, <1>7, <1>8 DEF Next

(* The handlers of one batch are its attempts, one each.                    *)
AttemptsApart ==
  /\ \A h \in handlers : /\ request[h.batch].status # "new"
                         /\ h.attempt <= request[h.batch].attempt
  /\ \A g, h \in handlers : g.batch = h.batch /\ g.attempt = h.attempt => g = h

(* What is counted as received and not yet in the stream: one element for   *)
(* every event a running handler has still to add (main.py:74-82).          *)
Owed ==
  {t \in Batch \X (1..MaxAttempts) \X Nat :
     \E h \in handlers : /\ h.batch = t[1] /\ h.attempt = t[2]
                         /\ 1 <= h.progress /\ h.progress <= t[3] /\ t[3] <= Len(h.body)}

ReceivedAhead == IsFiniteSet(Owed) /\ Len(stream) + Cardinality(Owed) <= received

Receives == AttemptsApart /\ ReceivedAhead

LEMMA InitReceives == Init => Receives
<1> SUFFICES ASSUME Init PROVE Receives OBVIOUS
<1>1. Owed = {} BY DEF Init, Owed
<1>2. IsFiniteSet(Owed) /\ Cardinality(Owed) = 0 BY <1>1, FS_EmptySet
<1>3. Len(stream) = 0 /\ received = 0 BY DEF Init
<1>4. AttemptsApart BY DEF Init, AttemptsApart
<1> QED BY <1>2, <1>3, <1>4 DEF Receives, ReceivedAhead

(* Nothing is owed anew, and the stream stays.                              *)
LEMMA OwesNoMore ==
  ASSUME TypeOK, ReceivedAhead, Owed' \subseteq Owed, UNCHANGED <<stream, received>>
  PROVE  ReceivedAhead'
<1> DEFINE D == Owed
           E == Owed'
<1>1. IsFiniteSet(D) /\ E \in SUBSET D BY DEF ReceivedAhead
<1>2. Len(stream) \in Nat BY TypeParts, StreamIsLong
<1>3. received \in Nat /\ Len(stream) + Cardinality(D) <= received BY DEF TypeOK, ReceivedAhead
<1> HIDE DEF D, E
<1>4. IsFiniteSet(E) /\ Cardinality(E) <= Cardinality(D)
      /\ Cardinality(E) \in Nat /\ Cardinality(D) \in Nat
  BY <1>1, FS_Subset, FS_CardinalityType
<1>5. Len(stream) + Cardinality(E) <= received BY <1>2, <1>3, <1>4
<1>6. Len(stream') + Cardinality(E) <= received' BY <1>5
<1> QED BY <1>4, <1>6 DEF ReceivedAhead, E

(* Handlers go, and requests change, but for their attempts.                *)
LEMMA HandlersGo ==
  ASSUME TypeOK, Receives, handlers' \subseteq handlers, UNCHANGED <<stream, received>>,
         \A b \in Batch : \/ request'[b] = request[b]
                         \/ /\ request'[b].status # "new"
                            /\ request'[b].attempt = request[b].attempt
  PROVE  Receives'
<1>1. \A h \in handlers : h.batch \in Batch BY DEF TypeOK, Handlers
<1>2. AttemptsApart' BY <1>1 DEF Receives, AttemptsApart
<1>3. Owed' \subseteq Owed BY DEF Owed
<1> QED BY <1>2, <1>3, OwesNoMore DEF Receives

(* A new attempt, later than those that still run.                          *)
LEMMA AttemptReceives ==
  ASSUME TypeOK, Receives, NEW b \in Batch, NEW body \in Bodies, NEW n \in 1..MaxAttempts,
         Attempt(b, body, n), request[b].status = "new" \/ n = request[b].attempt + 1
  PROVE  Receives'
<1> DEFINE g == [batch |-> b, attempt |-> n, body |-> body, progress |-> 0]
<1>1. /\ \A c \in Batch : request'[c] =
             IF c = b THEN [status |-> "posted", body |-> body, attempt |-> n] ELSE request[c]
      /\ handlers' = handlers \cup {g} /\ UNCHANGED <<stream, received>>
  BY DEF TypeOK, Attempt, redisVars
<1>2. \A h \in handlers : h.batch \in Batch /\ h.attempt \in Nat BY DEF TypeOK, Handlers
<1>3. \A h \in handlers : /\ request[h.batch].status # "new"
                         /\ h.attempt <= request[h.batch].attempt
  BY DEF Receives, AttemptsApart
<1>4. n \in Nat /\ (request[b].status # "new" => request[b].attempt \in Nat)
  BY AggregatorAssumption DEF TypeOK, Requests
<1>5. \A h \in handlers : h.batch = b => h.attempt < n
  <2> SUFFICES ASSUME NEW h \in handlers, h.batch = b PROVE h.attempt < n OBVIOUS
  <2>1. h.attempt <= request[b].attempt /\ n = request[b].attempt + 1 BY <1>3
  <2>2. request[b].attempt \in Nat /\ h.attempt \in Nat BY <1>2, <1>3, <1>4
  <2> QED BY <2>1, <2>2
<1>6. g.batch = b /\ g.attempt = n /\ g.progress = 0 OBVIOUS
<1> HIDE DEF g
<1>7. \A h \in handlers' : request'[h.batch].status # "new" /\ h.attempt <= request'[h.batch].attempt
  <2> SUFFICES ASSUME NEW h \in handlers'
               PROVE  request'[h.batch].status # "new" /\ h.attempt <= request'[h.batch].attempt
    OBVIOUS
  <2>1. CASE h = g BY <1>1, <1>4, <1>6, <2>1
  <2>2. CASE h \in handlers /\ h.batch = b BY <1>1, <1>2, <1>4, <1>5, <2>2
  <2>3. CASE h \in handlers /\ h.batch # b BY <1>1, <1>2, <1>3, <2>3
  <2> QED BY <1>1, <2>1, <2>2, <2>3
<1>8. \A h \in handlers : h.batch = b => h.attempt # n BY <1>2, <1>4, <1>5
<1>9. \A f, h \in handlers' : f.batch = h.batch /\ f.attempt = h.attempt => f = h
  BY <1>1, <1>6, <1>8 DEF Receives, AttemptsApart
<1>10. AttemptsApart' BY <1>7, <1>9 DEF AttemptsApart
<1>11. Owed' \subseteq Owed BY <1>1, <1>6 DEF Owed
<1> QED BY <1>1, <1>10, <1>11, OwesNoMore DEF Receives

(* A handler that goes on is still the only one of its attempt.             *)
LEMMA AdvanceApart ==
  ASSUME TypeOK, AttemptsApart, NEW h \in handlers, handlers' = Advanced(h), UNCHANGED request
  PROVE  AttemptsApart'
<1> DEFINE g == [h EXCEPT !.progress = @ + 1]
<1>1. handlers' = (handlers \ {h}) \cup {g} BY DEF Advanced
<1>2. g.batch = h.batch /\ g.attempt = h.attempt BY DEF TypeOK, Handlers
<1> HIDE DEF g
<1> QED BY <1>1, <1>2 DEF AttemptsApart

(* What the handler h owes at progress p and after.                         *)
LEMMA OwedOf ==
  ASSUME TypeOK, AttemptsApart, NEW h \in handlers, handlers' = Advanced(h), NEW t \in Owed'
  PROVE  \/ t \in Owed /\ ~(t[1] = h.batch /\ t[2] = h.attempt)
         \/ /\ t = <<h.batch, h.attempt, t[3]>> /\ t[3] \in Nat
            /\ h.progress + 1 <= t[3] /\ t[3] <= Len(h.body)
<1> DEFINE g == [h EXCEPT !.progress = @ + 1]
<1>1. handlers' = (handlers \ {h}) \cup {g} BY DEF Advanced
<1>2. g.batch = h.batch /\ g.attempt = h.attempt /\ g.body = h.body /\ g.progress = h.progress + 1
  BY DEF TypeOK, Handlers
<1> HIDE DEF g
<1>3. t \in Batch \X (1..MaxAttempts) \X Nat
      /\ \E f \in handlers' : /\ f.batch = t[1] /\ f.attempt = t[2]
                              /\ 1 <= f.progress /\ f.progress <= t[3] /\ t[3] <= Len(f.body)
  BY DEF Owed
<1>4. PICK f \in handlers' : /\ f.batch = t[1] /\ f.attempt = t[2]
                             /\ 1 <= f.progress /\ f.progress <= t[3] /\ t[3] <= Len(f.body)
  BY <1>3
<1>5. t = <<t[1], t[2], t[3]>> /\ t[3] \in Nat BY <1>3
<1>6. CASE f = g BY <1>2, <1>4, <1>5, <1>6
<1>7. CASE f \in handlers \ {h}
  <2>1. ~(f.batch = h.batch /\ f.attempt = h.attempt) BY <1>7 DEF AttemptsApart
  <2>2. t \in Owed BY <1>3, <1>4, <1>7 DEF Owed
  <2> QED BY <1>4, <2>1, <2>2
<1> QED BY <1>1, <1>6, <1>7

(* A handler counts its whole batch before it adds the first event          *)
(* (main.py:74).                                                            *)
LEMMA CountReceives ==
  ASSUME TypeOK, Receives, NEW h \in handlers, CountReceived(h)
  PROVE  Receives'
<1> DEFINE D == Owed
           E == Owed'
           L == Len(h.body)
           N == {<<h.batch, h.attempt, j>> : j \in 1..L}
           f == [j \in 1..L |-> <<h.batch, h.attempt, j>>]
<1>1. h \in Handlers /\ h.body \in Seq(Event) /\ L \in Nat
  BY AggregatorAssumption, LenProperties DEF TypeOK, Handlers
<1>2. handlers' = Advanced(h) /\ received' = received + L /\ UNCHANGED <<request, stream>>
      /\ h.progress = 0
  BY DEF CountReceived, redisVars
<1>3. AttemptsApart' BY <1>2, AdvanceApart DEF Receives
<1>4. IsFiniteSet(N) /\ Cardinality(N) <= L
  <2>1. f \in Surjection(1..L, N) BY DEF Surjection
  <2>2. IsFiniteSet(1..L) /\ Cardinality(1..L) = L
    <3>1. IsFiniteSet(1..L) /\ Cardinality(1..L) = IF 1 > L THEN 0 ELSE L - 1 + 1
      BY <1>1, FS_Interval
    <3> QED BY <1>1, <3>1
  <2> HIDE DEF f, N, L
  <2> QED BY <2>1, <2>2, FS_Surjection
<1>5. E \subseteq D \cup N
  <2> SUFFICES ASSUME NEW t \in Owed' PROVE t \in Owed \/ t \in N OBVIOUS
  <2>1. \/ t \in Owed
        \/ /\ t = <<h.batch, h.attempt, t[3]>> /\ t[3] \in Nat
           /\ h.progress + 1 <= t[3] /\ t[3] <= L
    BY <1>2, OwedOf DEF Receives
  <2>2. t[3] \in Nat /\ h.progress + 1 <= t[3] /\ t[3] <= L => t[3] \in 1..L BY <1>1, <1>2
  <2> QED BY <2>1, <2>2
<1>6. /\ IsFiniteSet(D) /\ received \in Nat /\ Len(stream) \in Nat
      /\ Len(stream) + Cardinality(D) <= received
  BY TypeParts, StreamIsLong DEF Receives, ReceivedAhead, TypeOK
<1> HIDE DEF D, E, N, L, f
<1>7. /\ IsFiniteSet(D \cup N)
      /\ Cardinality(D \cup N) = Cardinality(D) + Cardinality(N) - Cardinality(D \cap N)
  BY <1>4, <1>6, FS_Union
<1>8. IsFiniteSet(D \cap N)
  <2>1. D \cap N \in SUBSET D OBVIOUS
  <2> QED BY <1>6, <2>1, FS_Subset
<1>9. IsFiniteSet(E) /\ Cardinality(E) <= Cardinality(D \cup N)
  <2>1. E \in SUBSET (D \cup N) BY <1>5
  <2> QED BY <1>7, <2>1, FS_Subset
<1>10. {Cardinality(D), Cardinality(E), Cardinality(N), Cardinality(D \cap N),
        Cardinality(D \cup N)} \subseteq Nat
  BY <1>4, <1>6, <1>7, <1>8, <1>9, FS_CardinalityType
<1>11. Cardinality(E) <= Cardinality(D) + L BY <1>1, <1>4, <1>7, <1>9, <1>10
<1>12. Len(stream) + Cardinality(E) <= received + L BY <1>1, <1>6, <1>10, <1>11
<1>13. Len(stream') + Cardinality(E) <= received' BY <1>2, <1>12
<1> QED BY <1>3, <1>9, <1>13 DEF Receives, ReceivedAhead, E

(* An event that is added is no longer owed.                                *)
LEMMA AddReceives ==
  ASSUME TypeOK, Receives, NEW h \in handlers, AddEvent(h)
  PROVE  Receives'
<1> DEFINE D == Owed
           E == Owed'
           x == <<h.batch, h.attempt, h.progress>>
<1>1. /\ h.batch \in Batch /\ h.attempt \in 1..MaxAttempts /\ h.progress \in Nat
      /\ h.body \in Seq(Event)
  BY AggregatorAssumption DEF TypeOK, Handlers
<1>2. /\ handlers' = Advanced(h) /\ UNCHANGED <<request, received>>
      /\ h.progress \in 1..Len(h.body) /\ Len(h.body) \in Nat
      /\ stream' = Append(stream, h.body[h.progress]) /\ UNCHANGED <<delivered, fresh, stale>>
  BY <1>1, LenProperties DEF AddEvent
<1>3. AttemptsApart' BY <1>2, AdvanceApart DEF Receives
<1>4. Len(stream') = Len(stream) + 1
  <2>1. h.body[h.progress] \in Event BY <1>1, <1>2, ElementOfSeq
  <2>2. RedisOK BY TypeParts
  <2> QED BY <1>2, <2>1, <2>2, AddTypes
<1>5. x \in D BY <1>1, <1>2 DEF Owed
<1>6. E \subseteq D \ {x}
  <2> SUFFICES ASSUME NEW t \in Owed' PROVE t \in Owed /\ t # x OBVIOUS
  <2>1. \/ t \in Owed /\ ~(t[1] = h.batch /\ t[2] = h.attempt)
        \/ /\ t = <<h.batch, h.attempt, t[3]>> /\ t[3] \in Nat
           /\ h.progress + 1 <= t[3] /\ t[3] <= Len(h.body)
    BY <1>2, OwedOf DEF Receives
  <2>2. CASE t \in Owed /\ ~(t[1] = h.batch /\ t[2] = h.attempt) BY <2>2
  <2>3. CASE /\ t = <<h.batch, h.attempt, t[3]>> /\ t[3] \in Nat
             /\ h.progress + 1 <= t[3] /\ t[3] <= Len(h.body)
    <3>1. t[3] # h.progress /\ 1 <= h.progress /\ h.progress <= t[3] BY <1>1, <1>2, <2>3
    <3>2. t \in Batch \X (1..MaxAttempts) \X Nat /\ h.batch = t[1] /\ h.attempt = t[2]
      BY <1>1, <2>3
    <3> QED BY <2>3, <3>1, <3>2 DEF Owed
  <2> QED BY <2>1, <2>2, <2>3
<1>7. /\ IsFiniteSet(D) /\ received \in Nat /\ Len(stream) \in Nat
      /\ Len(stream) + Cardinality(D) <= received
  BY TypeParts, StreamIsLong DEF Receives, ReceivedAhead, TypeOK
<1> HIDE DEF D, E, x
<1>8. IsFiniteSet(D \ {x}) /\ Cardinality(D \ {x}) = Cardinality(D) - 1
  BY <1>5, <1>7, FS_RemoveElement
<1>9. IsFiniteSet(E) /\ Cardinality(E) <= Cardinality(D \ {x})
  <2>1. E \in SUBSET (D \ {x}) BY <1>6
  <2> QED BY <1>8, <2>1, FS_Subset
<1>10. Cardinality(D) \in Nat /\ Cardinality(E) \in Nat BY <1>7, <1>9, FS_CardinalityType
<1>11. Len(stream) + 1 + Cardinality(E) <= received BY <1>7, <1>8, <1>9, <1>10
<1>12. Len(stream') + Cardinality(E) <= received' BY <1>2, <1>4, <1>11
<1> QED BY <1>3, <1>9, <1>12 DEF Receives, ReceivedAhead, E

LEMMA KeepsReceives == TypeOK /\ Receives /\ [Next]_vars => Receives'
<1> SUFFICES ASSUME TypeOK, Receives, [Next]_vars PROVE Receives' OBVIOUS
<1>1. handlers \subseteq Handlers /\ \A b \in Batch : request[b] \in Requests BY DEF TypeOK
<1>2. ASSUME UNCHANGED <<stream, received>>, handlers' \subseteq handlers,
             \A b \in Batch : \/ request'[b] = request[b]
                              \/ request[b].status = "posted" /\ request'[b] = Retried(request[b])
                              \/ /\ request[b].status = "posted"
                                 /\ request'[b] = [request[b] EXCEPT !.status = "accepted"]
      PROVE  Receives'
  <2>1. \A r \in Requests : r.status = "posted" =>
          /\ Retried(r).status # "new" /\ Retried(r).attempt = r.attempt
          /\ [r EXCEPT !.status = "accepted"].status # "new"
          /\ [r EXCEPT !.status = "accepted"].attempt = r.attempt
    BY DEF Retried, Requests
  <2>2. \A b \in Batch : \/ request'[b] = request[b]
                         \/ /\ request'[b].status # "new"
                            /\ request'[b].attempt = request[b].attempt
    BY <1>1, <1>2, <2>1
  <2> QED BY <1>2, <2>2, HandlersGo
<1>3. ASSUME NEW b \in Batch, Post(b) PROVE Receives'
  <2>1. PICK body \in Bodies : Attempt(b, body, 1) BY <1>3 DEF Post
  <2>2. 1 \in 1..MaxAttempts BY AggregatorAssumption
  <2> QED BY <1>3, <2>1, <2>2, AttemptReceives DEF Post
<1>4. ASSUME NEW b \in Batch, Repost(b) PROVE Receives'
  <2>1. request[b] \in [status : {"backoff"}, body : Bodies, attempt : 1..MaxAttempts - 1]
    BY <1>1, <1>4 DEF Repost, Requests
  <2>2. request[b].body \in Bodies /\ request[b].attempt + 1 \in 1..MaxAttempts
    BY <2>1, AggregatorAssumption
  <2> QED BY <1>4, <2>2, AttemptReceives DEF Repost
<1>5. ASSUME NEW b \in Batch, ClientTimeout(b) PROVE Receives'
  <2>1. /\ request[b].status = "posted" /\ UNCHANGED <<handlers, stream, received>>
        /\ request' = [request EXCEPT ![b] = Retried(@)]
    BY <1>5 DEF ClientTimeout, redisVars
  <2>2. \A c \in Batch : request'[c] = IF c = b THEN Retried(request[b]) ELSE request[c]
    BY <2>1 DEF TypeOK
  <2> QED BY <1>2, <2>1, <2>2
<1>6. ASSUME NEW h \in handlers, Respond(h) PROVE Receives'
  BY <1>2, <1>6 DEF Respond, redisVars, Awaits
<1>7. ASSUME NEW h \in handlers, HandlerFails(h) PROVE Receives'
  BY <1>2, <1>7 DEF HandlerFails, redisVars, Awaits
<1>8. CASE Restart BY <1>2, <1>8 DEF Restart, redisVars
<1>9. CASE \/ \E w \in Worker : WorkerStep(w) \/ BrokerFails(w)
           \/ Age \/ UNCHANGED vars
  <2>1. UNCHANGED <<stream, received, handlers, request>>
    BY <1>9 DEF WorkerStep, Claim, ProcessClaimed, AckClaimed, Read, ProcessNew, AckNew, BrokerFails,
                Command, TakeStale, TakeNew, Acknowledge, Age, vars, clientVars, redisVars
  <2> QED BY <1>2, <2>1
<1> QED BY <1>3, <1>4, <1>5, <1>6, <1>7, <1>8, <1>9, CountReceives, AddReceives DEF Next

(* Through every crash, exception and lost answer, what is no longer        *)
(* pending was counted, as new or as a duplicate, and what is in the stream *)
(* was counted as received (main.py:74-82, db.py:57-92).                    *)
THEOREM CountersCover == Spec => []CountersCoverAcknowledged
<1>1. TypeOK /\ DoneCounted /\ Receives => CountersCoverAcknowledged
  <2> SUFFICES ASSUME TypeOK, DoneCounted, Receives PROVE CountersCoverAcknowledged OBVIOUS
  <2> DEFINE D == Done
             A == (1..delivered) \ Pending
             O == Owed
  <2>1. IsFiniteSet(D) /\ Cardinality(D) \in Nat BY DoneIsFinite
  <2>2. A \in SUBSET D BY DEF Done
  <2>3. Cardinality(D) <= Counted /\ Counted \in Nat BY DEF DoneCounted, Counted, TypeOK
  <2>4. IsFiniteSet(O) /\ Len(stream) + Cardinality(O) <= received BY DEF Receives, ReceivedAhead
  <2>5. received \in Nat /\ Len(stream) \in Nat BY TypeParts, StreamIsLong DEF TypeOK
  <2> HIDE DEF D, A, O
  <2>6. Cardinality(A) <= Cardinality(D) /\ Cardinality(A) \in Nat
    BY <2>1, <2>2, FS_Subset, FS_CardinalityType
  <2>7. Counted >= Cardinality(A) BY <2>1, <2>3, <2>6
  <2>8. Cardinality(O) \in Nat BY <2>4, FS_CardinalityType
  <2>9. received >= Len(stream) BY <2>4, <2>5, <2>8
  <2> QED BY <2>7, <2>9 DEF CountersCoverAcknowledged, Counted, A
<1> QED BY <1>1, TypeCorrect, InitDone, KeepsDone, InitReceives, KeepsReceives, PTL DEF Spec
=============================================================================
