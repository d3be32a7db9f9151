----------------------------- MODULE Aggregator -----------------------------
(***************************************************************************)
(* The log aggregator of uas/: a publisher posts batches and retries, the  *)
(* /publish handler adds the events to a Redis stream, workers read them   *)
(* in a consumer group, commit each to Postgres and acknowledge it.        *)
(*                                                                         *)
(* Every await on Redis, Postgres or HTTP is the boundary of a step.  A    *)
(* database transaction is one step, as is a Redis command; both stores    *)
(* outlive the aggregator's process.  Entries of the stream are numbered   *)
(* from 1 in the order they were added.                                    *)
(***************************************************************************)
EXTENDS Naturals, Sequences, FiniteSets

CONSTANTS
  Event,        \* what is published, told apart by (topic, event_id)
  Refused,      \* the events on which the transaction raises an error every time
  Batch,        \* the publisher's batches, one coroutine each
  Bodies,       \* bound: the bodies a batch may have
  Worker,       \* the consumers of the group
  Count,        \* entries per XREADGROUP or XAUTOCLAIM (50 in the code)
  ClaimEvery,   \* idle cycles from one XAUTOCLAIM to the next (5 in the code)
  MaxAttempts,  \* attempts per batch (5 in the code)
  MaxFaults     \* bound: crashes, lost connections and timed-out requests

ASSUME AggregatorAssumption ==
  /\ IsFiniteSet(Event) /\ Refused \subseteq Event
  /\ Bodies \subseteq Seq(Event)
  /\ {Count, ClaimEvery, MaxAttempts} \subseteq Nat \ {0}
  /\ MaxFaults \in Nat

VARIABLES
  request,      \* batch -> where its coroutine stands
  handlers,     \* the /publish handlers that are running
  \* Redis:
  stream,       \* the entries added
  delivered,    \* the group's last delivered entry
  fresh,        \* pending entries delivered less than 15 s ago, by delivery, oldest first
  stale,        \* pending entries XAUTOCLAIM may take
  \* Postgres:
  rows, received, unique_processed, duplicate_dropped,
  \* The aggregator's tasks:
  worker,       \* worker -> where its loop stands
  faults        \* how many faults there were (see MaxFaults)

clientVars == <<request, handlers, received>>
redisVars  == <<stream, delivered, fresh, stale>>
tableVars  == <<rows, unique_processed, duplicate_dropped>>
vars       == <<clientVars, redisVars, tableVars, worker, faults>>

(* A handler at progress 0 has yet to raise "received"; at k + 1 it has     *)
(* added k events.                                                          *)
Handlers == [batch : Batch, attempt : 1..MaxAttempts, body : Bodies, progress : Nat]

Requests ==
  [status : {"new"}] \cup
  [status : {"posted", "accepted", "failed"}, body : Bodies, attempt : 1..MaxAttempts] \cup
  [status : {"backoff"}, body : Bodies, attempt : 1..MaxAttempts - 1]

(* "top" is the head of the loop; "claimed" and "batch" are the two loops   *)
(* over entries, "committed" a claimed entry between its commit and its XACK. *)
Loops == [at : {"top", "claimed", "committed", "batch"}, todo : SUBSET Nat,
          ack_ids : SUBSET Nat, idle_cycles : 0..ClaimEvery - 1]

NewLoop == [at |-> "top", todo |-> {}, ack_ids |-> {}, idle_cycles |-> 0]

Init ==
  /\ request = [b \in Batch |-> [status |-> "new"]]
  /\ handlers = {}
  /\ stream = <<>> /\ delivered = 0 /\ fresh = <<>> /\ stale = {}
  /\ rows = {} /\ received = 0 /\ unique_processed = 0 /\ duplicate_dropped = 0
  /\ worker = [w \in Worker |-> NewLoop]
  /\ faults = 0

Fault == faults < MaxFaults /\ faults' = faults + 1

-----------------------------------------------------------------------------
(* The publisher and POST /publish.                                        *)

Attempt(b, body, n) ==
  /\ request' = [request EXCEPT ![b] = [status |-> "posted", body |-> body, attempt |-> n]]
  /\ handlers' = handlers \cup {[batch |-> b, attempt |-> n, body |-> body, progress |-> 0]}
  /\ UNCHANGED <<received, redisVars, tableVars, worker, faults>>

Post(b) == request[b].status = "new" /\ \E body \in Bodies : Attempt(b, body, 1)

Repost(b) ==
  request[b].status = "backoff" /\ Attempt(b, request[b].body, request[b].attempt + 1)

Advanced(h) == (handlers \ {h}) \cup {[h EXCEPT !.progress = @ + 1]}

(* db.incr_received: before any event is in the stream. *)
CountReceived(h) ==
  /\ h.progress = 0
  /\ received' = received + Len(h.body)
  /\ handlers' = Advanced(h)
  /\ UNCHANGED <<request, redisVars, tableVars, worker, faults>>

(* Faulty: leaves the last event of the body out. *)
AddEvent_AllButLast(h) ==
  /\ h.progress \in 1..Len(h.body)
  /\ stream' = IF h.progress < Len(h.body) THEN Append(stream, h.body[h.progress]) ELSE stream
  /\ handlers' = Advanced(h)
  /\ UNCHANGED <<request, received, delivered, fresh, stale, tableVars, worker, faults>>

(* broker.publish: XADD *)
AddEvent(h) ==
  /\ h.progress \in 1..Len(h.body)
  /\ stream' = Append(stream, h.body[h.progress])
  /\ handlers' = Advanced(h)
  /\ UNCHANGED <<request, received, delivered, fresh, stale, tableVars, worker, faults>>

Awaits(b, h) ==
  request[b].status = "posted" /\ h.batch = b /\ h.attempt = request[b].attempt

(* The answer 200, if the publisher still waits for it. *)
Respond(h) ==
  /\ h.progress = Len(h.body) + 1
  /\ handlers' = handlers \ {h}
  /\ request' = [b \in Batch |-> IF Awaits(b, h) THEN [request[b] EXCEPT !.status = "accepted"]
                                                 ELSE request[b]]
  /\ UNCHANGED <<received, redisVars, tableVars, worker, faults>>

(* After the last attempt the coroutine gives its batch up. *)
Retried(r) == [r EXCEPT !.status = IF r.attempt < MaxAttempts THEN "backoff" ELSE "failed"]

(* An exception in the handler: what it did so far stays done. *)
HandlerFails(h) ==
  /\ Fault
  /\ handlers' = handlers \ {h}
  /\ request' = [b \in Batch |-> IF Awaits(b, h) THEN Retried(request[b]) ELSE request[b]]
  /\ UNCHANGED <<received, redisVars, tableVars, worker>>

(* The publisher's 30 s pass; the handler goes on. *)
ClientTimeout(b) ==
  /\ Fault
  /\ request[b].status = "posted"
  /\ request' = [request EXCEPT ![b] = Retried(@)]
  /\ UNCHANGED <<handlers, received, redisVars, tableVars, worker>>

-----------------------------------------------------------------------------
(* The consumer group.                                                     *)

Pending == stale \cup UNION {fresh[k] : k \in DOMAIN fresh}

(* The COUNT oldest entries of S. *)
Oldest(S) == {i \in S : Cardinality({j \in S : j < i}) < Count}

Deliver(S) == fresh' = IF S = {} THEN fresh ELSE Append(fresh, S)

(* XAUTOCLAIM delivers them anew. *)
TakeStale(S) ==
  /\ stale' = stale \ S
  /\ Deliver(S)
  /\ UNCHANGED <<stream, delivered>>

(* XACK, whoever the entries were delivered to. *)
Acknowledge(S) ==
  /\ fresh' = [k \in DOMAIN fresh |-> fresh[k] \ S]
  /\ stale' = stale \ S
  /\ UNCHANGED <<stream, delivered>>

(* CLAIM_MIN_IDLE_MS have passed since the oldest delivery. *)
Age ==
  /\ fresh # <<>>
  /\ stale' = stale \cup Head(fresh)
  /\ fresh' = Tail(fresh)
  /\ UNCHANGED <<clientVars, stream, delivered, tableVars, worker, faults>>

-----------------------------------------------------------------------------
(* worker_loop                                                             *)

(* Faulty: counts a new event only. *)
Commit_NewOnly(e) ==
  /\ e \notin Refused
  /\ rows' = rows \cup {e}
  /\ unique_processed' = IF e \in rows THEN unique_processed ELSE unique_processed + 1
  /\ UNCHANGED duplicate_dropped

(* Faulty: the insert, but not the counter, is left out of a known event. *)
Commit_CountsAll(e) ==
  /\ e \notin Refused
  /\ rows' = rows \cup {e}
  /\ unique_processed' = unique_processed + 1
  /\ UNCHANGED duplicate_dropped

(* process_event: insert unless present, and count, in one transaction. *)
Commit(e) ==
  /\ e \notin Refused
  /\ rows' = rows \cup {e}
  /\ IF e \in rows
     THEN duplicate_dropped' = duplicate_dropped + 1 /\ UNCHANGED unique_processed
     ELSE unique_processed' = unique_processed + 1 /\ UNCHANGED duplicate_dropped

(* process_event raises: always on a refused event; on another one because  *)
(* of a fault, with the transaction rolled back or, if only the answer was  *)
(* lost, committed.                                                         *)
Raises(e) ==
  \/ e \in Refused /\ UNCHANGED <<tableVars, faults>>
  \/ Fault /\ UNCHANGED tableVars
  \/ Fault /\ Commit(e)

Goto(w, at, todo) == worker' = [worker EXCEPT ![w].at = at, ![w].todo = todo]

(* The entry a loop over the entries S comes to next. *)
First(S) == {i \in S : \A j \in S : i <= j}

(* Faulty: never a multiple of the period. *)
DueToClaim_Never(w) == worker[w].idle_cycles = ClaimEvery

DueToClaim(w) == worker[w].idle_cycles % ClaimEvery = 0

(* broker.claim_stale *)
Claim(w) ==
  /\ worker[w].at = "top" /\ DueToClaim(w)
  /\ TakeStale(Oldest(stale))
  /\ Goto(w, "claimed", Oldest(stale))
  /\ UNCHANGED <<clientVars, tableVars, faults>>

(* One claimed entry: an exception leaves the rest of the claimed entries   *)
(* where they are and goes back to the head of the loop.                    *)
ProcessClaimed(w) ==
  /\ worker[w].at = "claimed"
  /\ \E i \in First(worker[w].todo) :
       \/ Commit(stream[i]) /\ Goto(w, "committed", worker[w].todo) /\ UNCHANGED faults
       \/ Raises(stream[i]) /\ Goto(w, "top", {})
  /\ UNCHANGED <<clientVars, redisVars>>

AckClaimed(w) ==
  /\ worker[w].at = "committed"
  /\ \E i \in First(worker[w].todo) :
       Acknowledge({i}) /\ Goto(w, "claimed", worker[w].todo \ {i})
  /\ UNCHANGED <<clientVars, tableVars, faults>>

(* Faulty: goes on as if COUNT entries had been there. *)
TakeNew_Past(S) ==
  /\ delivered' = IF S = {} THEN delivered ELSE delivered + Count
  /\ Deliver(S)
  /\ UNCHANGED <<stream, stale>>

(* XREADGROUP moves the group's position past what it delivers. *)
TakeNew(S) ==
  /\ delivered' = delivered + Cardinality(S)
  /\ Deliver(S)
  /\ UNCHANGED <<stream, stale>>

NewEntries == {i \in 1..Len(stream) : delivered < i /\ i <= delivered + Count}

AtRead(w) ==
  \/ worker[w].at = "top" /\ ~DueToClaim(w)
  \/ worker[w].at = "claimed" /\ worker[w].todo = {}

(* broker.read_group: new entries, or an idle cycle. *)
Read(w) ==
  /\ AtRead(w)
  /\ TakeNew(NewEntries)
  /\ worker' = [worker EXCEPT ![w] =
       IF NewEntries = {}
       THEN [NewLoop EXCEPT !.idle_cycles = (worker[w].idle_cycles + 1) % ClaimEvery]
       ELSE [NewLoop EXCEPT !.at = "batch", !.todo = NewEntries]]
  /\ UNCHANGED <<clientVars, tableVars, faults>>

(* Faulty: acknowledges an entry whose processing raised, too. *)
ProcessNew_AckAll(w) ==
  /\ worker[w].at = "batch"
  /\ \E i \in First(worker[w].todo) :
       /\ (Commit(stream[i]) /\ UNCHANGED faults) \/ Raises(stream[i])
       /\ worker' = [worker EXCEPT ![w].todo = @ \ {i}, ![w].ack_ids = @ \cup {i}]
  /\ UNCHANGED <<clientVars, redisVars>>

(* One new entry: an exception skips it, and it stays pending. *)
ProcessNew(w) ==
  /\ worker[w].at = "batch"
  /\ \E i \in First(worker[w].todo) :
       \/ /\ Commit(stream[i]) /\ UNCHANGED faults
          /\ worker' = [worker EXCEPT ![w].todo = @ \ {i}, ![w].ack_ids = @ \cup {i}]
       \/ Raises(stream[i]) /\ Goto(w, "batch", worker[w].todo \ {i})
  /\ UNCHANGED <<clientVars, redisVars>>

AckNew(w) ==
  /\ worker[w].at = "batch" /\ worker[w].todo = {}
  /\ Acknowledge(worker[w].ack_ids)
  /\ worker' = [worker EXCEPT ![w] = NewLoop]
  /\ UNCHANGED <<clientVars, tableVars, faults>>

(* The command to Redis that w is about to send, executed there. *)
Command(w) ==
  \/ worker[w].at = "top" /\ DueToClaim(w) /\ TakeStale(Oldest(stale))
  \/ worker[w].at = "committed" /\ \E i \in First(worker[w].todo) : Acknowledge({i})
  \/ AtRead(w) /\ TakeNew(NewEntries)
  \/ worker[w].at = "batch" /\ worker[w].todo = {} /\ Acknowledge(worker[w].ack_ids)

(* It raises, and w goes back to the head of its loop: the command was not  *)
(* executed or, if only the answer was lost, it was.                        *)
BrokerFails(w) ==
  /\ Fault
  /\ worker[w].at = "batch" => worker[w].todo = {}
  /\ UNCHANGED redisVars \/ Command(w)
  /\ worker' = [worker EXCEPT ![w] = [NewLoop EXCEPT !.idle_cycles = worker[w].idle_cycles]]
  /\ UNCHANGED <<clientVars, tableVars>>

(* The process stops and starts again. *)
Restart ==
  /\ Fault
  /\ handlers' = {}
  /\ request' = [b \in Batch |-> IF request[b].status = "posted" THEN Retried(request[b])
                                                                 ELSE request[b]]
  /\ worker' = [w \in Worker |-> NewLoop]
  /\ UNCHANGED <<received, redisVars, tableVars>>

WorkerStep(w) ==
  Claim(w) \/ ProcessClaimed(w) \/ AckClaimed(w) \/ Read(w) \/ ProcessNew(w) \/ AckNew(w)

Next ==
  \/ \E b \in Batch : Post(b) \/ Repost(b) \/ ClientTimeout(b)
  \/ \E h \in handlers : CountReceived(h) \/ AddEvent(h) \/ Respond(h) \/ HandlerFails(h)
  \/ \E w \in Worker : WorkerStep(w) \/ BrokerFails(w)
  \/ Age
  \/ Restart

Spec == Init /\ [][Next]_vars

(* The workers' loops never end, and time passes.  Nothing is assumed of    *)
(* the publisher, and faults are not assumed to happen.                     *)
Fairness == WF_vars(Age) /\ \A w \in Worker : WF_vars(WorkerStep(w))
FairSpec == Spec /\ Fairness

-----------------------------------------------------------------------------
(* Properties.                                                             *)

(* Every variable holds values of the kind the code gives it; the group's   *)
(* position and every pending entry lie within the stream.                  *)
TypeOK ==
  /\ request \in [Batch -> Requests]
  /\ handlers \subseteq Handlers
  /\ stream \in Seq(Event)
  /\ delivered \in 0..Len(stream)
  /\ fresh \in Seq(SUBSET (1..delivered)) /\ stale \subseteq 1..delivered
  /\ rows \subseteq Event
  /\ received \in Nat /\ unique_processed \in Nat /\ duplicate_dropped \in Nat
  /\ worker \in [Worker -> Loops]
  /\ \A w \in Worker : worker[w].todo \cup worker[w].ack_ids \subseteq 1..delivered
  /\ faults \in 0..MaxFaults

(* At-least-once (report.md:84-85): an entry that was delivered stays       *)
(* pending until its event is in the table, through crashes, claims by      *)
(* other workers, exceptions and commits whose answer was lost.             *)
AcknowledgedIsProcessed ==
  \A i \in 1..delivered : i \in Pending \/ stream[i] \in rows

(* The publisher is told 200 only for events that are in the stream, all of *)
(* the batch, whatever attempts failed before.                              *)
AcceptedIsInStream ==
  \A b \in Batch : request[b].status = "accepted" =>
    \A k \in DOMAIN request[b].body : \E i \in DOMAIN stream : stream[i] = request[b].body[k]

(* The counters never fall behind: every entry that is no longer pending    *)
(* was counted as processed or as a duplicate, and nothing is in the stream *)
(* that was not counted as received.                                        *)
CountersCoverAcknowledged ==
  /\ unique_processed + duplicate_dropped >= Cardinality((1..delivered) \ Pending)
  /\ received >= Len(stream)

Elements(s) == {s[k] : k \in DOMAIN s}

Offered == UNION {Elements(request[b].body) : b \in {c \in Batch : request[c].status # "new"}}

Accepted(b) == IF request[b].status = "accepted" THEN Elements(request[b].body) ELSE {}

Promised == UNION {Accepted(b) : b \in Batch}

Log == INSTANCE EventLog WITH
  offered <- Offered, promised <- Promised, stored <- rows, counted <- unique_processed

(* However often an event is posted, delivered, claimed by another worker  *)
(* and committed, it has one row and is counted as new once; an exception  *)
(* or a crash takes back no row and no answer (report.md:139-142).         *)
ImplementsEventLog == Log!Spec

(* An event whose transaction always raises ends the loop over the claimed *)
(* entries: it holds up itself and the entries behind it.                  *)
IsHeldUp(e) ==
  \A i \in DOMAIN stream : stream[i] = e => \E j \in 1..i : stream[j] \in Refused

(* Every event of an accepted batch is processed in the end, unless it is  *)
(* held up: what a worker dropped is claimed and processed again           *)
(* (report.md:139-142).                                                    *)
AcceptedIsProcessed ==
  \A b \in Batch : request[b].status = "accepted" ~>
    \A e \in Accepted(b) : e \in rows \/ IsHeldUp(e)
=============================================================================
