------------------------------- MODULE Dedup --------------------------------
(***************************************************************************)
(* The log aggregator of uts/: publish() puts events into an in-memory     *)
(* queue, one worker adds them to a SQLite table that ignores a known key. *)
(* The table outlives the process; the queue and the counters do not.      *)
(*                                                                         *)
(* The queue has no limit, so its put() never suspends and publish() is    *)
(* one step of the event loop.  The worker suspends while a thread runs    *)
(* add_if_new(), which is one step under the store's lock.  Publishers are *)
(* runs of publisher_simulator.py: the batches of a run one after another, *)
(* none of them again; a later run sends the same event ids.               *)
(***************************************************************************)
EXTENDS Naturals, Sequences, FiniteSets

CONSTANTS
  Event,       \* what is published, told apart by (topic, event_id)
  Run,         \* runs of the simulator
  Plans,       \* bound: the batches a run may send
  MaxRestarts  \* bound: restarts of the service

ASSUME DedupAssumption ==
  /\ IsFiniteSet(Event)
  /\ Plans \subseteq Seq(Seq(Event))
  /\ MaxRestarts \in Nat

VARIABLES
  run,       \* run -> where its main() stands
  requests,  \* the POST requests under way
  \* The service, lost with its process:
  queue, received, unique_processed, duplicate_dropped,
  worker,    \* where _worker stands
  \* The SQLite file:
  rows,
  \* Counted or recorded for the bounds and the properties:
  lives,     \* how often the service was restarted
  inherited, \* the rows there were when this process started
  raised     \* whether add_if_new() raised in this process

runVars    == <<run, requests>>
workVars   == <<worker, unique_processed, duplicate_dropped>>
serverVars == <<queue, received, workVars>>
lifeVars   == <<lives, inherited, raised>>
vars       == <<runVars, serverVars, rows, lifeVars>>

(* "answered" batches have been answered with 200; the next is "posted". *)
Runs == [at : {"new"}] \cup
        [at : {"ready", "posted", "failed"}, plan : Plans, answered : Nat]

(* A request is "queued" once publish() has run. *)
Requests == [from : Run, batch : Seq(Event), queued : BOOLEAN]

(* "added": the thread is through, the worker has not resumed. *)
Workers ==
  [at : {"get", "dead"}] \cup [at : {"adding"}, event : Event] \cup
  [at : {"added"}, event : Event, inserted : BOOLEAN]

Init ==
  /\ run = [r \in Run |-> [at |-> "new"]] /\ requests = {}
  /\ queue = <<>> /\ received = 0 /\ unique_processed = 0 /\ duplicate_dropped = 0
  /\ worker = [at |-> "get"]
  /\ rows = {} /\ inherited = {}
  /\ lives = 0 /\ raised = FALSE

-----------------------------------------------------------------------------
(* The simulator and POST /publish.                                        *)

Start(r) ==
  /\ run[r].at = "new"
  /\ \E plan \in Plans :
       run' = [run EXCEPT ![r] = [at |-> "ready", plan |-> plan, answered |-> 0]]
  /\ UNCHANGED <<requests, serverVars, rows, lifeVars>>

Post(r) ==
  /\ run[r].at = "ready" /\ run[r].answered < Len(run[r].plan)
  /\ run' = [run EXCEPT ![r].at = "posted"]
  /\ requests' = requests \cup
       {[from |-> r, batch |-> run[r].plan[run[r].answered + 1], queued |-> FALSE]}
  /\ UNCHANGED <<serverVars, rows, lifeVars>>

(* AggregatorService.publish *)
Publish(q) ==
  /\ ~q.queued
  /\ queue' = queue \o q.batch
  /\ received' = received + Len(q.batch)
  /\ requests' = (requests \ {q}) \cup {[q EXCEPT !.queued = TRUE]}
  /\ UNCHANGED <<run, workVars, rows, lifeVars>>

Respond(q) ==
  /\ q.queued
  /\ requests' = requests \ {q}
  /\ run' = [run EXCEPT ![q.from] =
       IF @.at = "posted"
       THEN [at |-> "ready", plan |-> @.plan, answered |-> @.answered + 1]
       ELSE @]
  /\ UNCHANGED <<serverVars, rows, lifeVars>>

(* 30 s pass, or the connection is lost: main() ends with an exception,    *)
(* and the request may still be served.                                    *)
PostFails(r) ==
  /\ run[r].at = "posted"
  /\ run' = [run EXCEPT ![r].at = "failed"]
  /\ UNCHANGED <<requests, serverVars, rows, lifeVars>>

-----------------------------------------------------------------------------
(* AggregatorService._worker and DedupStore.add_if_new                     *)

Take ==
  /\ worker.at = "get" /\ queue # <<>>
  /\ worker' = [at |-> "adding", event |-> Head(queue)]
  /\ queue' = Tail(queue)
  /\ UNCHANGED <<runVars, received, unique_processed, duplicate_dropped,
                 rows, lifeVars>>

(* Faulty: says of a known event that it was inserted. *)
AddIfNew_Always ==
  /\ worker.at = "adding"
  /\ rows' = rows \cup {worker.event}
  /\ worker' = [at |-> "added", event |-> worker.event, inserted |-> TRUE]
  /\ UNCHANGED <<runVars, queue, received, unique_processed, duplicate_dropped,
                 lifeVars>>

(* Faulty: INSERT without OR IGNORE, whose error ends the worker. *)
AddIfNew_NoIgnore ==
  /\ worker.at = "adding"
  /\ rows' = rows \cup {worker.event}
  /\ worker' = IF worker.event \in rows
               THEN [at |-> "dead"]
               ELSE [at |-> "added", event |-> worker.event, inserted |-> TRUE]
  /\ UNCHANGED <<runVars, queue, received, unique_processed, duplicate_dropped,
                 lifeVars>>

(* INSERT OR IGNORE and commit, in a thread. *)
AddIfNew ==
  /\ worker.at = "adding"
  /\ rows' = rows \cup {worker.event}
  /\ worker' = [at |-> "added", event |-> worker.event, inserted |-> worker.event \notin rows]
  /\ UNCHANGED <<runVars, queue, received, unique_processed, duplicate_dropped,
                 lifeVars>>

(* Faulty: leaves a duplicate out. *)
Count_NewOnly ==
  /\ worker.at = "added"
  /\ unique_processed' = IF worker.inserted THEN unique_processed + 1 ELSE unique_processed
  /\ worker' = [at |-> "get"]
  /\ UNCHANGED <<runVars, queue, received, duplicate_dropped,
                 rows, lifeVars>>

Count ==
  /\ worker.at = "added"
  /\ IF worker.inserted
     THEN unique_processed' = unique_processed + 1 /\ UNCHANGED duplicate_dropped
     ELSE duplicate_dropped' = duplicate_dropped + 1 /\ UNCHANGED unique_processed
  /\ worker' = [at |-> "get"]
  /\ UNCHANGED <<runVars, queue, received, rows, lifeVars>>

(* add_if_new() raises, and nothing catches it: the worker is gone, and the *)
(* service goes on accepting events.                                       *)
StoreRaises ==
  /\ worker.at = "adding"
  /\ worker' = [at |-> "dead"] /\ raised' = TRUE
  /\ UNCHANGED <<runVars, queue, received, unique_processed, duplicate_dropped,
                 rows, lives, inherited>>

(* Faulty: the table is gone with the process. *)
Restart_InMemory ==
  /\ lives < MaxRestarts /\ lives' = lives + 1
  /\ requests' = {}
  /\ run' = [r \in Run |-> IF run[r].at = "posted" THEN [run[r] EXCEPT !.at = "failed"]
                                                   ELSE run[r]]
  /\ queue' = <<>> /\ received' = 0 /\ unique_processed' = 0 /\ duplicate_dropped' = 0
  /\ worker' = [at |-> "get"]
  /\ inherited' = rows /\ raised' = FALSE
  /\ rows' = {}

(* The process stops, in the order of lifespan() or at once, and starts    *)
(* again.  The thread under way has added its event before (AddIfNew) or   *)
(* finds the table closed; whoever waits for an answer gets an error.      *)
Restart ==
  /\ lives < MaxRestarts /\ lives' = lives + 1
  /\ requests' = {}
  /\ run' = [r \in Run |-> IF run[r].at = "posted" THEN [run[r] EXCEPT !.at = "failed"]
                                                   ELSE run[r]]
  /\ queue' = <<>> /\ received' = 0 /\ unique_processed' = 0 /\ duplicate_dropped' = 0
  /\ worker' = [at |-> "get"]
  /\ inherited' = rows /\ raised' = FALSE
  /\ UNCHANGED rows

WorkerStep == Take \/ AddIfNew \/ Count

Next ==
  \/ \E r \in Run : Start(r) \/ Post(r) \/ PostFails(r)
  \/ \E q \in requests : Publish(q) \/ Respond(q)
  \/ WorkerStep \/ StoreRaises
  \/ Restart

Spec == Init /\ [][Next]_vars

(* The event loop runs the worker, and the thread comes back; nothing is   *)
(* assumed of the publishers.                                              *)
FairSpec == Spec /\ WF_vars(WorkerStep)

-----------------------------------------------------------------------------
(* Properties.                                                             *)

(* Every variable holds values of the kind the code gives it.               *)
TypeOK ==
  /\ run \in [Run -> Runs]
  /\ \A r \in Run : run[r].at # "new" => run[r].answered \in 0..Len(run[r].plan)
  /\ requests \subseteq Requests
  /\ queue \in Seq(Event)
  /\ {received, unique_processed, duplicate_dropped} \subseteq Nat
  /\ worker \in Workers
  /\ rows \subseteq Event /\ inherited \subseteq rows
  /\ lives \in 0..MaxRestarts /\ raised \in BOOLEAN

(* Of what this process received, everything was counted as new or as a    *)
(* duplicate, is queued, or is the one event the worker holds or died of   *)
(* (tests/test_app.py compares the counters once the queue is empty).      *)
EveryEventIsAccounted ==
  received = unique_processed + duplicate_dropped + Len(queue)
             + (IF worker.at = "get" THEN 0 ELSE 1)

(* The new events of all processes, one of them perhaps not yet counted by *)
(* this one.                                                               *)
Counted ==
  Cardinality(inherited) + unique_processed
  + (IF worker.at = "added" /\ worker.inserted THEN 1 ELSE 0)

Elements(s) == {s[k] : k \in DOMAIN s}

(* The events of the first k batches of r's plan. *)
Sent(r, k) == UNION {Elements(run[r].plan[i]) : i \in 1..k}

Offered ==
  (UNION {Sent(r, run[r].answered) : r \in {x \in Run : run[x].at # "new"}}) \cup
  (UNION {Sent(r, run[r].answered + 1) : r \in {x \in Run : run[x].at \in {"posted", "failed"}}})

Promised == UNION {Sent(r, run[r].answered) : r \in {x \in Run : run[x].at # "new"}}

Log == INSTANCE EventLog WITH
  offered <- Offered, promised <- Promised, stored <- rows, counted <- Counted

(* Across restarts, lost answers and repeated runs, a known event is never *)
(* counted as new again, no row is lost, and nothing is stored that was    *)
(* not sent ("event lama yang dikirim ulang harus masuk hitungan duplicate *)
(* bukan unique", report.md:49).                                           *)
ImplementsEventLog == Log!Spec

(* What is in the queue gets its row, unless the process is restarted or   *)
(* the store raises ("dalam kondisi stabil, event unik akan muncul",       *)
(* report.md:45): no duplicate in front of it is in its way.               *)
QueuedIsStored ==
  \A e \in Event, n \in 0..MaxRestarts :
    e \in Elements(queue) /\ lives = n ~>
      e \in rows \/ lives > n \/ raised
=============================================================================
