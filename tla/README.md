# Verification of sistem_paralel_terdistribusi

TLA+ specifications of the repository's distributed programs, the TLC runs that
check them on small instances, and TLAPS proofs for every instance. Paths below
are relative to the repository root.

## 1. The system

The repository holds four independent programs and some exercises.

### tugas-3: a distributed synchronisation system

Nodes of one process (`src/cluster.py`) talk over an in-process message bus.
All code runs on one asyncio event loop, so a handler is atomic up to its next
real suspension; what interleaves are handlers, ticks, client calls and loops.

| Component | State | Operations | Interaction |
|---|---|---|---|
| `communication/message_passing.py` | one bounded queue per node, the set of cut-off nodes | `send`, `receive`, `dispatch_messages`, `partition_nodes`, `heal_partition` | every other component sends and is dispatched through it |
| `consensus/raft.py` | term, vote, log, commit and apply positions, futures of waiting clients | four message handlers, election and leader ticks, `submit` | bus; calls `apply_callback`, resolves futures |
| `nodes/lock_manager.py` | lock table (holders, waiters, locks per client), wait-for graph, ages | `acquire`, `release`, `release_all`, lease loop, deadlock loop, `_apply_command` | submits every change through Raft; changed only by the applied log |
| `nodes/queue_node.py` | local queues, in-flight and replica messages, log file | `enqueue`, `dequeue`, `ack`, handlers, visibility loop, replay, promotion | bus; failure detector calls `_on_peer_failure` |
| `nodes/cache_node.py` | MESI lines, eviction order, one pending read per key | `get`, `put`, `delete`, fetch/invalidate/response handlers | bus |
| `consensus/pbft.py` | log of entries with prepares and commits | `submit`, three phase handlers | bus |
| `communication/failure_detector.py` | health per peer | `record_heartbeat`, check loop | callbacks into the queue node |
| `nodes/base_node.py`, `cluster.py`, `server.py`, `utils/` | wiring, HTTP routes, settings, counters | start/stop | - |

Hard behaviours: elections over a lossy bus, logs truncated and re-sent,
acknowledgements that arrive terms later, client calls that time out while
their command stays in the log, retries that duplicate commands, leases that
expire under a client, deadlocks among clients that retry.

### uas: a log aggregator on Redis Streams and Postgres

A publisher posts batches with retries; `/publish` raises a counter and adds the
events to a stream; workers read them in a consumer group, process each in one
transaction (insert unless present, counter, audit row) and acknowledge; entries
left pending are claimed again after 15 s. Hard behaviours: crash between commit
and acknowledgement, failing events, requests that fail half-way.

### uts: a log aggregator in one process

`publish` counts events and puts them into an in-memory queue; one worker takes
them out and has a thread add each to a SQLite table with a unique key; the
simulator posts batches one after the other. Hard behaviours: what is queued is
lost with the process while its rows stay, an exception of the store ends the
worker, a lost answer leaves the simulator not knowing what was taken, and a
later run sends the same ids.

### simulasi_komunikasi.py: a demo of three communication models

A tkinter program with a tab for each of request/response, publish/subscribe and
message passing. Packets move over a canvas and call back on arrival; delays are
`after` timers; a reset clears packets, queues and counters, but no timer. Hard
behaviours: timers of before a reset that fire after it, overlapping
publications, messages planned for later.

### The rest

`two_thread.py` and `multi_thread.py` (thread exercises) and `tugas-praktikum/`
(container exercises) hold no protocol worth a model.

### What makes each component correct

* Raft: one leader per term; logs that agree wherever they share an entry; what
  is applied is never replaced; a client gets the answer to its own command.
* Lock manager: an exclusive holder is alone; whoever can run is woken; what a
  client was told stands; a deadlock is broken, and only a deadlock.
* Queue: an enqueued message is delivered until it is acknowledged, across
  timeouts and restarts.
* Cache: a stale line has its invalidation on the way;
  the cache and its eviction order hold the same keys.
* PBFT: two correct nodes never commit different requests at one number; what is
  broadcast is executed, in order.
* Aggregators: every accepted event ends in exactly one row and is counted as new
  once.
* Demo: a blocked client has one request under way and is unblocked in the end;
  notifications and messages arrive once, in order, where they belong.

## 2. Modules

| Module | Models | Extends |
|---|---|---|
| `MessageBus` | the bus: channels, partitions, send and dispatch | |
| `Raft` | `consensus/raft.py` | `MessageBus` |
| `LockManager` | `nodes/lock_manager.py` | |
| `QueueNode` | `nodes/queue_node.py` | `MessageBus` |
| `CacheNode` | `nodes/cache_node.py` | `MessageBus` |
| `PBFT` | `consensus/pbft.py` over a network that reorders, repeats and loses | |
| `PBFTOnBus` | correct PBFT nodes on the bus; implements `PBFT` | `PBFT`; `MessageBus` by INSTANCE |
| `EventLog` | what both aggregators promise (abstract) | |
| `Aggregator` | uas: `publisher.py`, `main.py`, `broker.py`, `consumer.py`, `db.py`; implements `EventLog` | |
| `Dedup` | uts: `publisher_simulator.py`, `main.py`, `service.py`, `store.py`; implements `EventLog` | |
| `RequestResponse`, `PubSub`, `MessagePassing` | the demo's tabs | |
| `Simulasi` | the demo: the three tabs in one event loop | the tabs by INSTANCE |
| `RaftProofs`, `LockProofs`, `QueueProofs`, `CacheProofs`, `PBFTProofs`, `AggregatorProofs`, `DedupProofs`, `SimulasiProofs` | the theorems | the module of the name (`PBFTProofs`: `PBFTOnBus`), TLAPS |
| `MCRaft`, `MCRaftStale`, `MCLock`, `MCQueue`, `MCCache`, `MCPBFT`, `MCPBFTOnBus`, `MCAggregator`, `MCDedup`, `MCSimulasi` | instances for TLC | |

A definition marked "Faulty:" is the form a plausible mistake would give the
definition below it. No specification uses it; it is there so that one can see
each property fail when the code is wrong.

### MessageBus and Raft

`inbox` is `_channels`, `partitions` is `_partitions`. `Accepts` is the test of
`send()`: made when a message is sent, against cut-off nodes and a full channel.
A dropped message is the only loss the code knows; the runs get it through short
channels (`MaxInbox`) and partitions. No call passes a delay, so a handler and
its sends are one step.

Each Raft variable has the name it has in the code. Positions are shifted by
one, so the code's -1 is 0. `ElectionTimeout` is a tick after the deadline
(`BecomeCandidate` and `StartElection`), `Dispatch` takes the oldest message
and runs its handler, `Submit` is `submit()` up to its await and `SubmitTimeout`
the branch after it; the future's resolution is part of `Apply`
(`_apply_committed`), which every commit runs. `request` follows each
`submit()` call from the outside. `ballots`, `elected`, `ledger`, `acks` and
`tainted` are history variables no action reads. `ledger` is the log of each term's
leader, as long as it became, and `acks` the entries of its leader's own term that
a node has acknowledged: the proofs argue about them. `tainted` records the two
steps for which the code checks less than the protocol asks: an acknowledgement of
an earlier term that raises `match_index`, and a commit of a follower's tail beyond
what the leader matched.

### LockManager

The lock table is a deterministic function of the applied commands, so it is
modelled on one node; Raft between `submit()` and `_apply_command` is the FIFO
`underWay`. A command whose submitter stopped waiting stays there with `awaited`
FALSE. `call` is where each client's `acquire()` or `release()` stands;
`Retry` and `GiveUp` are the two ways out of a refused or unanswered attempt.
`CallRelease` and `CallReleaseAll` ask nothing of what the client holds or was told
it holds, as the code does not: the table decides when the command is applied.
Client ages are kept as the pairs `client_age` (the first is not the older), all
that `select_victim` compares. Leases are abstracted: `FindExpired` lets any
holder's lease pass, and `ReleaseExpired` submits the releases one at a time,
awaiting each, so the table may change between the two. `detect_cycle` may find
any simple cycle of the graph (its choice depends on dictionary order).
`granted` and `revoked` are history, read by no action: what each client was told
it holds, and what a loop of the service took from it.

### QueueNode

One queue name. `queues`, `inflight`, `replicas` and the records of each log
file (`logged`, `replicated`) are per node; a copy in a queue is its message id
and whether its visibility timeout still hides it. Time is `Elapse`: the timeout
of a copy passes; `Requeue` is the visibility loop, and `Dequeue` requeues too
before it looks (`_requeue_expired_inflight`). `Enqueue` takes any placement the
hash ring could give. `PeerFailure` is `_on_peer_failure`: no code calls
`record_heartbeat`, so the detector declares every peer dead, once per process.
`Restart` restarts the process with all its nodes and replays the logs. No call
suspends half-way (the log is written synchronously), so each is one step.
`acked` and `doubled` are history: what was acknowledged, and which messages a
step of the code itself multiplied (a peer's dequeue, a promotion, a restart
that replays what was acknowledged).

### CacheNode

`cache` holds the lines (a value and a MESI state), `tracked` the keys the
eviction policy knows, `pending` is `_pending_reads`. A value is the number of
the `put()` that wrote it. `put()` and `delete()` never suspend, since `send()`
does not, so each is one step; `get()` is `GetMiss` up to its await, and then
`TimeOut` or, when a response has come, `Resume`, which installs the line some
time after the response was handled. A hit changes nothing but the order of
eviction, and the victim may be any key of the policy, which covers LRU and LFU.
No memory stands behind the cache: a delete or an eviction can lose the value.
`last` and `raced` are history. `raced` collects the keys written while a read of
them, another node's write or a message of theirs was under way, or while a
channel was full: for these the code does keep stale lines (a fetched line
is installed after its invalidation was handled; two writers invalidate each
other), so `StaleIsDoomed` and `OwnerIsAlone` say what holds of the others, at
every instant while their invalidations and fetches are in flight. Neither says that
a read after a `put()` returns its value: `put()` returns while its invalidations
are queued, so until they are handled a hit elsewhere returns the old one, for these
keys too. That is less than `algorithms.md:79-80` claims (§4). EXCLUSIVE never arises
in the runs: a line is only installed so from one that already was.

### PBFT

Correct nodes follow the three handlers; the nodes in `faulty` may have sent
anything under their own names, so they need no action: `Arrives` says what can
reach a handler. A digest stands for its request, which is what
`_on_pre_prepare` checks. Messages are weaker than the bus: what was sent stays
in `sent` and arrives in any order, any number of times or never. An entry that
exists has `pre_prepare_received`. `set_byzantine`, whose digests match no
request, is a faulty primary whose messages are all rejected.

### PBFTOnBus

The same handlers, with `inbox` and `partitions` of `MessageBus` in place of
`sent`: `SubmitOnBus` is `submit()` with its broadcast, `Dispatch` takes the
oldest envelope of a node, runs the handler of its phase and sends what it
broadcasts. `sent` stays as a record of what was ever sent, which makes the step
a step of `PBFT`. The nodes cut off are chosen at the start (`Cut`): a node that
is reconnected between two requests misses the first, executes the second and so
breaks `ExecutedInOrder`, since `_apply` (`pbft.py:232`) asks for no order.

### Aggregator

`stream`, the group's `delivered` position and its pending entries (`fresh`, by
delivery, until 15 s have passed, then `stale`) are Redis; `rows`,
`unique_processed` and `duplicate_dropped` are Postgres; `received` is the
counter raised by `/publish`. A `worker` is at one of the awaits of
`worker_loop`: each action takes it from one to the next (`Claim`,
`ProcessClaimed`, `AckClaimed`, `Read`, `ProcessNew`, `AckNew`). One event's
transaction is a step. `BrokerFails` is a command whose connection breaks before
or after Redis ran it; `Restart` loses every handler and worker but not the two
stores. A `request` follows a publisher's batch through its attempts; a handler
that its client gave up on runs on. `Refused` are events whose transaction always
raises.

### EventLog

Four variables (what was offered, promised, stored, and counted as new) and three
steps; `Store` takes an event that is not stored yet and counts it. Both
aggregators map to it (`ImplementsEventLog`): what is posted, delivered, claimed
or committed twice is one `Store` and stutters, a crash is a stutter. In
`Aggregator` both the row and the counter are in Postgres; in `Dedup` the rows
outlive the counter, so `counted` is the rows this process found at its start
(`inherited`) plus what it counted.

### Dedup

`run` is where each run of the simulator's `main()` stands, `requests` what is
posted and not yet answered. `publish()` never suspends (the queue has no limit)
and is one step; the worker suspends at `get()` and while the thread runs, so
`Take`, `AddIfNew` and `Count` are three. `StoreRaises` ends the worker: `finally`
marks the task done, nothing catches the exception, and nobody starts another.
`PostFails` is a lost or late answer; the simulator ends, and the request may
still be served. `Restart` loses all but `rows`. `lives`, `inherited` and `raised`
are history.

### The demo

All packets move at one speed and are stepped in the order of their list, so each
tab's packets arrive in the order they were made in. `processing`, `timers` and
`planned` are the `after` timers of the tabs. In `RequestResponse` the user may
change the delay between requests, so answers come in any order; in `PubSub` the
timers of one publication are 180 ms apart, and `DueBefore` is what follows for
the order of two. `resets`, `before`, `survivors`, `received` and `last` are
history. `Simulasi` composes the tabs; the user works in one of them (a bound:
the tabs share no state).

## 3. Runs

| Run | Instance | Shows |
|---|---|---|
| `raft` | 3 nodes, 2 commands, terms up to 2, channels of 1, one leader cut off at a time, 2 candidacies | type invariant, election safety, log matching, state machine safety and leader completeness as long as no unsound commit happened, leadership at the majority, clients answered with their own command until a second leader is elected, final votes |
| `raft_stale` | 3 nodes along one schedule of 6 terms | violation: a late acknowledgement commits an entry no majority holds |
| `lock` | 2 clients, 1 resource, both modes, 2 commands under way, one abandoned, re-entry | type invariant, exclusive alone, no lost wake-up, grants stand |
| `lock_deadlock` | 2 clients, 2 exclusive resources, 1 command under way, with fairness | every deadlock is broken; `client_locks` mirrors the holders |
| `lock_refused` | 2 clients, 1 resource | violation: a promoted waiter's own retry is refused |
| `queue` | 2 nodes, 2 messages, replication 2, channels of 1, either node cut off, 1 dequeue that asks the peers, 1 restart | type invariant; what a log holds and nobody acknowledged is still held; a message is in one place unless a step multiplied it |
| `cache` | 3 nodes, 2 keys, room for 1 line, channels of 2, 2 writes, 2 reads that miss | type invariant; the policy knows exactly the lines; a stale or doubly owned line has its invalidation on the way unless its key's writes raced |
| `pbft` | 4 nodes, any one faulty, 2 requests, 1 number | type invariant, agreement, what is executed is backed by votes |
| `pbft_bus` | 4 correct nodes of which one is cut off, 2 requests, channels of 9, with fairness | type invariant; a connected node executes in the order of the numbers; what is broadcast is executed by every connected node |
| `uas` | 2 workers, a batch of two events (the second may always raise), 2 attempts, 1 fault, claims of up to 2 every second round, with fairness | type invariant; acknowledged means processed; accepted means in the stream; counters cover what was acknowledged; implements `EventLog`; what was accepted and is not held up is processed in the end |
| `uts` | 2 runs of the simulator, a batch of two events or of a duplicate or two batches, 1 restart, with fairness | type invariant; what was received is counted, queued or with the worker; implements `EventLog`; what is queued is stored unless the process restarts or the store raises |
| `simulasi` | 5 requests, 3 publications to any topic, 5 messages among 3 nodes, 2 resets, with fairness | type invariants; requests under way; notifications and messages once and in order; a waiting client is unblocked |

**Bounds.** Three nodes are the smallest cluster in which a majority is neither
one node nor all; two terms with two candidacies give rival candidates of one
term, a deposed leader and a new one, and conflicting logs; channels of one
message make every message losable. Deeper schedules (six terms) are followed
one at a time by `MCRaftStale`, each step a step of `Raft`. `MCRaft` drops from
the state what no step reads before assigning it again (a `VIEW`), and treats
nodes and commands as interchangeable; nothing in Raft orders them. Two clients
make conflicts, upgrades, duplicated commands and 2-cycles; two commands under
way let a client's old command follow its next one, an expired lease's release
cross a new grant, and an abort meet a retry.

In `queue` two nodes give every message a primary and a replica, and a channel of
one message makes every send losable; nodes and messages are interchangeable.
In `cache` three nodes are a writer, a reader and a node with a copy; two keys and room for
one line make every install evict; two reads at once share a future or answer
each other. It bounds calls (`MaxWrites`, `MaxReads`), so its behaviours end and
deadlock is not checked.
In `pbft` four nodes are the smallest cluster that tolerates a fault, and the
second request is what a faulty primary equivocates with; numbers do not
interact, so one is enough for agreement (the theorem covers all). `Faults` names
who may be faulty: any one node in `pbft`, none in `pbft_bus`. Behaviours
end when nothing new can arrive, so deadlock is not checked there. In `pbft_bus`
the cut-off node makes every quorum need all the others, two requests can
overtake each other, and channels of 9 are never full, as `InOrderWhileRoom` (§5)
assumes (with room for six, `SubmittedIsExecuted` fails: a vote that found the
channel full is not sent again). In `uas` one
fault is a crash, a failed transaction, a lost connection or a timed-out request
at any point, and the second attempt of a batch that was taken gives the duplicates;
`MaxAttempts` and `MaxFaults` are the only bounds on behaviour, and they also end
the faults, without which nothing is promised. In `uts` two runs that send the
same ids on both sides of a restart, or into one process, give every kind of
duplicate; a run that has ended posts no more, so deadlock is not checked, nor in
`simulasi`, where the user stops. There two resets and five requests give an
answer that unblocks a later request and its own answer that comes after; three
publications have two sets of timers overlap across a reset; five messages with
a burst of two fill one inbox while another is emptied.

**Fairness**, in `lock_deadlock`. The log applies what was submitted (WF of
`Apply`), a client that has not reached its deadline retries every 50 ms and the
deadlock loop looks every two seconds (SF of `Retry` and `DetectDeadlock`: only
the bound on commands under way, which the code does not have, disables them
from time to time). Nothing is assumed of clients that start, stop or give up,
nor of timeouts. `FairSpec` bounds what is explored inside the next-state
relation, not by a constraint, so that liveness is judged on whole behaviours.

In `uas` the entries' age passes and each worker goes on (WF of `Age` and
`WorkerStep`): the loops run for ever and every await of theirs has a timeout.
Nothing is assumed of publishers. In `uts` the worker goes on (WF of
`WorkerStep`): the event loop resumes it and the thread comes back; `StoreRaises`
and `Restart` may come in between, and the property says so. In `pbft_bus` every
node's dispatch loop runs on (WF of `Dispatch(n)`). In `simulasi` Tk steps the
packets and runs each request's timer (WF of `Arrive` and `ServerRespond(i)` of
`RequestResponse`); the user need not press anything.

## 4. What the violations show

Each of the two runs checks one sentence of the repository's documents or comments,
and TLC finds a behaviour of the code that breaks it.

* `raft_stale` - `raft.py:376` accepts a successful acknowledgement of any earlier
  term. The acknowledged positions may hold other entries by then, so the leader
  commits an entry only it has; another leader then commits a different one
  (`architecture.md:64-71`).
* `lock_refused` - `lock_manager.py:203` refuses a client the lock it holds
  exclusively. A waiter is promoted while its `acquire()` sleeps; from then on
  its retries are refused until `acquire()` returns False, although it holds the lock
  (`lock_manager.py:274`).

More disagreements limit what a passing run states. The models have the behaviour
(but for `pbft.py:226`, whose instance is out of reach), and no run states the
sentence it breaks:

* `cache_node.py:204-220` - `algorithms.md:79-80`: "kuat (linearizable untuk single key)
  — write meng-invalidate semua replica sebelum sukses". `put()` queues the
  invalidations and returns, so a read elsewhere may follow its success and return
  the old value, with no other call under way. `StaleIsDoomed` and `OwnerIsAlone`
  say what is left: the old line's invalidation is on the way.
* `raft.py:412` resolves a future by position only. A deposed leader whose entry was
  overwritten answers its client with the result of the command that replaced the
  client's own (`algorithms.md:26-30` promises that of its own). `AnswersAreOwn`
  speaks of the time before a second leader.
* `lock_manager.py:206` - "Cycle = deadlock" (`algorithms.md:95`, `lock_manager.py:63`),
  but the edges of a client whose `acquire()` ended without the lock stay. One that
  gave up is on a cycle as soon as the holder asks for a lock of its own, and the
  detector aborts one of two clients of which only one waits. `DeadlockIsBroken`
  asks only that deadlocks are broken.
* `queue_node.py:245` replays an "ack" record by taking its message out of
  `inflight`, which is empty then. An acknowledged message is in the queue again after
  a restart, which is not the state that the log is said to reconstruct
  (`architecture.md:101`). `OneCopy` leaves these messages out.
* `main.py:80` raises `received` before the events are added, in another store. A
  request that fails in between has counted what nobody will process, and
  `received = unique_processed + duplicate_dropped` (`report.md:159-160`) does not hold once
  all is done. `CountersCoverAcknowledged` is the inequality that does.
* `simulasi_komunikasi.py:193` says that the client cannot send until it is answered.
  A reset leaves the server's timer alone, and the answer to a request of before it
  unblocks the client for a request of its own; `OneAtATime` counts those as
  `survivors`.
* `pbft.py:226` counts 2f + 1 votes with f = (n - 1) // 3. For n = 5 two such sets
  may share the faulty primary alone, though `algorithms.md:116` claims safety
  for every n; `AgreementHolds` assumes n = 3f + 1. (A search over five nodes is
  beyond a run of reasonable length.)
* `consumer.py:22` processes the claimed entries without a `try` of their own. An
  entry whose processing raises ends the loop, the next claim returns it first
  again, and those behind it may never be reached (`report.md:139-142` says that
  another worker processes what a crashed one left): `AcceptedIsProcessed` leaves out
  what is held up.

## 5. Proofs

The theorems assume of the constants what the modules' ASSUMEs name, which TLC
evaluates in every run, and where a theorem assumes more it says so. They hold for
every value of the bounds (terms, calls, restarts), so the bounds restrict the runs
and not the proofs.

### Raft

`RaftProofs`, for every set of nodes and commands, batch and channel size:

* `TypeCorrect` - the type invariant, inductive as it stands: it says enough of
  the messages (their entries are entries) and of `next_index` (positive) for
  every slice that is sent, overwritten or applied to be well typed.
* `ElectionSafe` - no two nodes win a term. The inductive invariant says that a
  node's recorded ballots agree with its current vote, that it cast none for a
  later term, that every vote response in a channel and every counted vote
  stands for a ballot, and that a winner had a majority of ballots; lemma
  `MajoritiesMeet` (two majorities share a node) gives the contradiction.
* `VotesFinal` - no step takes back a vote within a term or lowers a term.

The logs build on these. `Step` sorts the actions into seven kinds by what
they do to votes, logs and commits, and `Sends` says what a step may send; every
invariant of the first two theorems is kept by each kind, and only lemma `NextStep`
looks at the actions themselves.

* `LogsMatch` - Log Matching. It is not inductive: nothing in it says where an entry
  came from. `LedgerInv` says that every log and every ledger, up to an entry of
  term t, is the ledger of t (`Rooted`); that a leader's log is its ledger; that only
  terms that were won have one; and that what an AppendEntries message carries is an
  excerpt of its sender's ledger, or nothing that any log accepts. Two logs with an
  entry of one term at one position are then the same ledger up to there.
* `StateMachineSafe` - State Machine Safety and Leader Completeness, as long as no
  step was tainted. `AckInv` is about the entries a leader wrote in its own term.
  Each is either dead (a majority went on to later terms without acknowledging
  it, so no majority ever will) or kept: by every node that acknowledged it, by
  the ledger of every later term that was won, and by a candidate as soon as one
  that acknowledged the entry votes for it (`UpToDateHolds`: a log that is at least as
  up to date holds it). `CommitInv` adds that acknowledgements under way and
  the leader's `match_index` stand for `acks`, that what a node applied is the
  beginning of a ledger up to an entry that a majority acknowledged, and that a
  leader sends no other commit position. Two such beginnings agree
  (`ChosenAgrees`). The last three hold only while `tainted` is empty, which is where
  the proof needs it: a late acknowledgement makes `match_index` stand for
  nothing (`raft_stale` shows where that leads), and a tail nobody matched need not
  be the leader's. `AckInv` holds for ever: whatever a tainted commit applies, the
  logs keep what was truly acknowledged by a majority.
* `AnswersOwn` - while at most one election was won, every future stands at the
  position of its own command, on the node that was elected: nobody sends that
  node entries, so nobody overwrites them (`AnswerInv`).
* `MajorityIsLeader` - for two nodes or more, which it assumes. A cluster of one node
  never counts an answer, and its candidate, which has its majority from the start,
  stays one for ever.

### Lock manager

`LockProofs`, for every set of clients and resources:

* `TypeCorrect`, `ExclusiveAlone`, `NoLostWakeUp`, `LocksMirrored` - from one
  inductive invariant over the lock table. The promotion of waiters
  (`Promotes`, `Joined`) is the heart: the joined holders are all shared or one
  alone, and whoever is then first is blocked.
* `GrantsStand` - adds that a client has at most one awaited command, that it is
  the one of its call, and that no release of its own is under way for a lock it
  counts as granted (`GivenBack`): only then can a command never take back what
  a later answer granted.

### Queue

`QueueProofs`, for every number of nodes and messages, replication factor and channel
size, and any number of restarts:

* `TypeCorrect` - with `TypeInv`: whatever a node, a log or a channel holds was
  enqueued, and a message that tells of an acknowledgement tells of one there was.
* `LoggedStaysHeld` - `LoggedIsHeld` and `TypeInv` are inductive together: a restart
  rebuilds from the logs what they hold, and nothing but an acknowledgement takes a
  message from a node that logged it.
* `OneCopyEach` - counting copies is not inductive, since a copy may be on its way.
  `Singles` says of a message no step multiplied that it is in one place at most, an
  "enqueue" message counted; that one log at most has it, once; that nobody holds or
  has logged what a message still brings; and that nothing of it is left once it is
  acknowledged.

### Cache

`CacheProofs`, for every number of nodes, keys, readers and lines:

* `TypeCorrect`, and `PolicyMirrors` (inductive with the type invariant): the
  eviction policy and the cache hold the same keys, and never more than fit.
* `NothingStaleSpreads`, `OwnersAlone` - from `CoherenceInv`. Of a key that did not
  race it says that a line of an old value has its invalidation in the node's
  channel before any fetch of the key, that what is on the way to a reader is
  the last value, and that beside a modified line every other one is so doomed and
  no reader is about to install one. `SharedOnly` says that no line is ever
  EXCLUSIVE: a fetched line is installed so from one that already was, and none is
  the first. The part of `OwnerIsAlone` about EXCLUSIVE lines is about a state the code
  has a name for and never reaches.

### PBFT

`PBFTProofs`, for every number of nodes, requests and numbers:

* `TypeCorrect`.
* `ExecutedIsBacked` - the inductive invariant `Votes` says that every vote
  counted was cast for the digest of that log entry, that a correct node casts
  one COMMIT for a number and only when prepared, and that what is committed has
  a quorum. A quorum holds a correct node (`OneCorrect`), whose own prepares back it.
* `AgreementHolds` - assumes n = 3f + 1, where two quorums share a correct node
  (`QuorumsMeet`).

and on the bus, for every channel size and all cut-off sets:

* `Implements` - `SpecOnBus => Spec`. What is in a channel was sent (`OnBus`), so
  every dispatch is an arrival `PBFT` allows, or changes nothing it sees.
* `TypeCorrectOnBus`, and `AgreementOnBus`: agreement holds on the bus, for
  n = 3f + 1, by `Implements` and `AgreementHolds`.
* `InOrderWhileRoom` - `SpecOnBus /\ []RoomLeft => []ExecutedInOrder`. The code does
  not compare numbers, so the order comes from the bus: a broadcast is one step and
  a node has one channel. The inductive invariant `Order` looks at `Known(n, k)`,
  what n will have heard after k more messages. With the whole channel this is for
  every connected node all that was said (`AllTold`), and for every k it is closed
  under what a message comes after (`Causal`: the sender's message for the number
  before, the PRE-PREPARE, and before a COMMIT its sender's PREPARE and those of 2f
  nodes). So no vote finds its entry missing, the votes a node has for a number it
  has for the one before, and it has cast its own (`Acted`). `Acted` also says that a
  node executes as soon as it has a quorum with another's vote in it: `_on_prepare()`
  does not look, and need not, since a node's own vote never completes a quorum
  that another began. `RoomLeft` (no channel of a connected node is full, 10000
  messages in the code) cannot be left out: a dropped vote lets a later request
  overtake.

### Aggregators

`AggregatorProofs`, for any events, batches, workers and faults:

* `TypeCorrect` - with it, whatever is pending or in a worker's hands was delivered.
* `DeliveredAtLeastOnce` - `AtLeastOnce` adds to `AcknowledgedIsProcessed` that
  what a worker is about to acknowledge is committed (`CommittedFirst`): no
  order of crashes, claims and lost answers acknowledges first.
* `AcceptedStands` - `Answers` adds that a handler adds the events of its batch
  in order, and that what it has added is in the stream.
* `CountersCover` - two countings. `DoneCounted`: the entries that are acknowledged or
  that a worker will acknowledge next are no more than what was counted, since each was
  committed with a counter in the same transaction, and no transaction holds two.
  `Receives`: what running handlers have still to add (`Owed`), on top of the stream, was
  counted as received, since the counter is raised first.
* `Implements` - `Spec => ImplementsEventLog`. The invariant `Sourced` says that
  what is in the stream and the table was posted, and that `unique_processed` is
  the number of rows; a `Commit` of a new event is `Store`, every other step
  offers, promises or stutters.

`DedupProofs`, for any events, plans, runs of the simulator and restarts:

* `TypeCorrect` and `Accounted` (inductive with the type invariant).
* `Implements` - `Spec => ImplementsEventLog`. The invariant `Backed` says that
  what is in a request, in the queue, in the worker's hands or in the table was
  sent, and that the count of all processes is the number of rows; `AddIfNew` of
  a new event is `Store`, every other step offers, promises or stutters.

### Demo

`SimulasiProofs`, for every number of requests, publications, messages, nodes and
resets. The tabs share no variable, so each has an inductive invariant of its own
that the other two leave alone:

* `TypeCorrect`.
* `BlockingClient` - a request is in one packet or with the server
  (`InOnePlace`), so each step adds one to those under way, moves one or ends one.
* `Delivery` - PubSub: what a subscriber received was published before what moves to
  it, that before what is due to it, and all of these before what moves to the broker
  (`PacketsInOrder`, `TimersInOrder`, `ReceivedInOrder`), so no publication is in two
  of them; `NoneLost` says that it is in one. The timers of one subscriber fire in the
  order of publication because it has one place among the subscribers of
  each of its topics (`SlotIs`, which is about the four entries of SUBS: a list with
  a subscriber that stands behind different others for two of its topics would not
  do). MessagePassing: the order is inductive as it stands; the count needs that
  a round of `_process_queues()` takes one message from each busy node.

### Only model-checked

* Every liveness property (liveness and ENABLED are beyond the proof system), and
  the two violations, which are behaviours TLC shows.

## 6. Plan

Modelled so far, in order of importance: the bus and Raft, the lock manager, the
uas aggregator, the queue, PBFT and its run on the bus, the cache, the uts
aggregator, the demo. Next:

1. An abstract lock that one exclusive or many shared clients hold, implemented
   by `LockManager`.
2. `QueueNode`: liveness of a message whose forward was accepted, under fair
   loops, and a detector of its own.

## 7. Not modelled

* Cache nodes that are cut off: their messages are lost through full channels only.
* `NetworkChannel` and `broadcast()` of the bus: nothing calls them.
* Restarts of a Raft node: the code persists nothing, so a restarted node is a
  new one with an old name, and no promise about it could hold.
* `failure_detector.py` beyond what it triggers in the queue.
* `server.py`, `cluster.py`, `base_node.py`, `utils/`, the uas and uts read-only
  routes and request validation: wiring, formatting and reads.
* The demo's drawing, log lines, latency and throughput figures, and
  `ComparisonTab`, which only reads.
* A crash of the machine under uts: the store commits with `synchronous=NORMAL`,
  which keeps its rows through a crash of the process only.
* That the lease loop ends the hold of a client that gave up (`lock_manager.py:293`):
  modelled, and its liveness is beyond what TLC explores here in reasonable time.
* `two_thread.py`, `multi_thread.py`, `tugas-praktikum/`, `demo.py`, benchmarks: no protocol.
