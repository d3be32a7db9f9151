---------------------------- MODULE LockManager ----------------------------
(***************************************************************************)
(* The lock service of tugas-3/src/nodes/lock_manager.py on one leader:    *)
(* the lock table, changed only by commands coming out of the Raft log,    *)
(* and what submits commands: client calls with their retry loops, the     *)
(* lease loop and the deadlock loop.                                       *)
(*                                                                         *)
(* Raft.submit is abstracted to a FIFO of commands under way: a command is *)
(* applied some time after it was submitted, possibly after its submitter  *)
(* stopped waiting for it.  Leader changes are left to module Raft.        *)
(***************************************************************************)
EXTENDS Naturals, Sequences, FiniteSets

CONSTANTS
  Client, Resource,
  Mode,          \* the lock modes clients ask for, of {"shared", "exclusive"}
  MaxUnderWay    \* bound: commands submitted and not yet applied

ASSUME LockAssumption ==
  /\ IsFiniteSet(Client)
  /\ Mode \subseteq {"shared", "exclusive"}
  /\ MaxUnderWay \in Nat \ {0}

VARIABLES
  \* The replicated lock table:
  holders,       \* resource -> (client -> mode), over the clients that hold it
  waiters,       \* resource -> queue of [client, mode]
  client_locks,  \* client -> the resources it holds
  \* The deadlock detector:
  wait_for,      \* the edges <<waiter, holder>>
  client_age,    \* pairs of clients with a recorded age: the first not the older
  \* Submissions:
  underWay,      \* commands submitted and not yet applied
  call,          \* client -> the call it is in
  expired,       \* <<client, resource>> the lease loop found and still has to release
  \* History, never read by an action:
  granted,       \* client -> the resources it was told it has and did not give back
  revoked        \* client -> those the lease or the deadlock loop took from it

tableVars  == <<holders, waiters, client_locks>>
detectVars == <<wait_for, client_age>>
callVars   == <<underWay, call, expired>>
histVars   == <<granted, revoked>>
vars       == <<tableVars, detectVars, callVars, histVars>>

Waiter == [client : Client, mode : {"shared", "exclusive"}]

Command ==
  [op : {"acquire"}, client : Client, resource : Resource, mode : Mode,
   by : {"client"}, awaited : BOOLEAN]
  \cup
  [op : {"release"}, client : Client, resource : Resource,
   by : {"client", "lease loop"}, awaited : BOOLEAN]
  \cup
  [op : {"release_all", "abort"}, client : Client,
   by : {"client", "deadlock loop"}, awaited : BOOLEAN]

Call ==
  [kind : {"idle", "release"}]
  \cup
  [kind : {"acquire"}, resource : Resource, mode : Mode,
   attempt : {"submitted", "refused", "unanswered"}]

Idle == [kind |-> "idle"]

Init ==
  /\ holders = [r \in Resource |-> [c \in {} |-> "shared"]]
  /\ waiters = [r \in Resource |-> <<>>]
  /\ client_locks = [c \in Client |-> {}]
  /\ wait_for = {}
  /\ client_age = {}
  /\ underWay = <<>>
  /\ call = [c \in Client |-> Idle]
  /\ expired = {}
  /\ granted = [c \in Client |-> {}]
  /\ revoked = [c \in Client |-> {}]

-----------------------------------------------------------------------------
(* The lock table.                                                         *)

Holds(c, r) == c \in DOMAIN holders[r]
AllShared(h) == \A c \in DOMAIN h : h[c] = "shared"
Held(h, c, mode) == [x \in DOMAIN h \cup {c} |-> IF x = c THEN mode ELSE h[x]]
Without(h, c) == [x \in DOMAIN h \ {c} |-> h[x]]
Waits(c, r) == \E i \in DOMAIN waiters[r] : waiters[r][i].client = c

(* Faulty: lets the first waiter in whoever holds the lock. *)
CanJoin_HeadAlways(h, w, k) ==
  \/ k <= 1
  \/ AllShared(h) /\ \A i \in 1..k : w[i].mode = "shared"

(* _promote_waiters: k of the queue w join the holders h one after the      *)
(* other, shared waiters while the lock is free or shared, an exclusive one *)
(* only on a free lock; the first that cannot join stops the loop.          *)
CanJoin(h, w, k) ==
  \/ k = 0
  \/ k = 1 /\ DOMAIN h = {}
  \/ AllShared(h) /\ \A i \in 1..k : w[i].mode = "shared"

(* Faulty: promotes one waiter at most. *)
Promotes_One(h, w, k) == k = IF w # <<>> /\ CanJoin(h, w, 1) THEN 1 ELSE 0

Promotes(h, w, k) ==
  /\ k <= Len(w) /\ CanJoin(h, w, k)
  /\ k < Len(w) => ~CanJoin(h, w, k + 1)

Joins(w, k) == {w[i].client : i \in 1..k}

Joined(h, w, k) ==
  [c \in DOMAIN h \cup Joins(w, k) |->
     IF \E i \in 1..k : w[i] = [client |-> c, mode |-> "exclusive"] THEN "exclusive"
     ELSE IF c \in Joins(w, k) THEN "shared" ELSE h[c]]

(* Faulty: does not note the lock for the waiters it promotes. *)
Vacate_Unnoted(c, R) ==
  \E n \in [R -> 0..Cardinality(Client)] :
    /\ \A r \in R : Promotes(Without(holders[r], c), waiters[r], n[r])
    /\ holders' = [r \in Resource |->
         IF r \in R THEN Joined(Without(holders[r], c), waiters[r], n[r]) ELSE holders[r]]
    /\ waiters' = [r \in Resource |->
         IF r \in R THEN SubSeq(waiters[r], n[r] + 1, Len(waiters[r])) ELSE waiters[r]]
    /\ client_locks' = [client_locks EXCEPT ![c] = @ \ R]

(* _do_release for each of the resources R, all held by c: c leaves, and    *)
(* n[r] waiters of r are promoted.                                          *)
Vacate(c, R) ==
  \E n \in [R -> 0..Cardinality(Client)] :
    /\ \A r \in R : Promotes(Without(holders[r], c), waiters[r], n[r])
    /\ holders' = [r \in Resource |->
         IF r \in R THEN Joined(Without(holders[r], c), waiters[r], n[r]) ELSE holders[r]]
    /\ waiters' = [r \in Resource |->
         IF r \in R THEN SubSeq(waiters[r], n[r] + 1, Len(waiters[r])) ELSE waiters[r]]
    /\ client_locks' = [x \in Client |->
         (IF x = c THEN client_locks[x] \ R ELSE client_locks[x])
           \cup {r \in R : x \in Joins(waiters[r], n[r])}]

(* DeadlockDetector.remove_client *)
Forget(c) ==
  /\ wait_for' = {e \in wait_for : e[1] # c /\ e[2] # c}
  /\ client_age' = {p \in client_age : p[1] # c /\ p[2] # c}

HasAge(c) == <<c, c>> \in client_age

(* DeadlockDetector.set_client_age: now, unless there is an age already. *)
SetAge(c) ==
  client_age' = IF HasAge(c) THEN client_age
                ELSE client_age \cup {<<c, d>> : d \in {x \in Client : x = c \/ HasAge(x)}}

(* Faulty: adds no edges for a client that is queued already. *)
WithWaits_Once(c, r) ==
  IF Waits(c, r) THEN wait_for
  ELSE wait_for \cup {<<c, h>> : h \in DOMAIN holders[r] \ {c}}

(* DeadlockDetector.add_wait for every holder of r but c itself. *)
WithWaits(c, r) == wait_for \cup {<<c, h>> : h \in DOMAIN holders[r] \ {c}}

(* _do_acquire: "ok" is its result. *)
DoAcquire(c, r, mode, ok) ==
  /\ ok = (DOMAIN holders[r] = {} \/ (mode = "shared" /\ AllShared(holders[r])))
  /\ SetAge(c)
  /\ IF ok
     THEN /\ holders' = [holders EXCEPT ![r] = Held(@, c, mode)]
          /\ client_locks' = [client_locks EXCEPT ![c] = @ \cup {r}]
          /\ UNCHANGED <<waiters, wait_for>>
     ELSE /\ wait_for' = WithWaits(c, r)
          /\ waiters' = IF Waits(c, r) THEN waiters
                        ELSE [waiters EXCEPT ![r] = Append(@, [client |-> c, mode |-> mode])]
          /\ UNCHANGED <<holders, client_locks>>

(* _do_release: the detector forgets a client that leaves a lock free.      *)
DoRelease(c, r) ==
  IF Holds(c, r)
  THEN /\ Vacate(c, {r})
       /\ IF DOMAIN holders[r] = {c} THEN Forget(c) ELSE UNCHANGED detectVars
  ELSE UNCHANGED <<tableVars, detectVars>>

(* _do_release_all *)
DoReleaseAll(c) ==
  /\ Vacate(c, {r \in client_locks[c] : Holds(c, r)})
  /\ Forget(c)

-----------------------------------------------------------------------------
(* Submitting and applying commands.                                       *)

Submit(cmd) ==
  /\ Len(underWay) < MaxUnderWay
  /\ underWay' = Append(underWay, cmd)
  /\ UNCHANGED <<tableVars, detectVars>>

(* A loop of the service waits for the command it submitted.               *)
Waiting(loop) == \E i \in DOMAIN underWay : underWay[i].by = loop /\ underWay[i].awaited

SubmitAcquire(c, r, mode) ==
  /\ Submit([op |-> "acquire", client |-> c, resource |-> r, mode |-> mode,
             by |-> "client", awaited |-> TRUE])
  /\ call' = [call EXCEPT ![c] = [kind |-> "acquire", resource |-> r, mode |-> mode,
                                  attempt |-> "submitted"]]
  /\ UNCHANGED <<expired, histVars>>

(* acquire(): the first attempt. *)
CallAcquire(c, r, mode) ==
  /\ call[c] = Idle
  /\ SubmitAcquire(c, r, mode)

(* Faulty: tries again without waiting for the answer. *)
Retry_Impatient(c) ==
  /\ call[c].kind = "acquire"
  /\ SubmitAcquire(c, call[c].resource, call[c].mode)

(* acquire(): the loop sleeps 50 ms after an attempt that was not granted   *)
(* and tries again,                                                         *)
Retry(c) ==
  /\ call[c].kind = "acquire"
  /\ call[c].attempt \in {"refused", "unanswered"}
  /\ SubmitAcquire(c, call[c].resource, call[c].mode)

(* until its deadline has passed; then it returns False.                    *)
GiveUp(c) ==
  /\ call[c].kind = "acquire"
  /\ call[c].attempt \in {"refused", "unanswered"}
  /\ call' = [call EXCEPT ![c] = Idle]
  /\ UNCHANGED <<tableVars, detectVars, underWay, expired, histVars>>

(* release(): of any lock, held or not. *)
CallRelease(c, r) ==
  /\ call[c] = Idle
  /\ Submit([op |-> "release", client |-> c, resource |-> r, by |-> "client", awaited |-> TRUE])
  /\ call' = [call EXCEPT ![c] = [kind |-> "release"]]
  /\ granted' = [granted EXCEPT ![c] = @ \ {r}]
  /\ revoked' = [revoked EXCEPT ![c] = @ \ {r}]
  /\ UNCHANGED expired

(* release_all() *)
CallReleaseAll(c) ==
  /\ call[c] = Idle
  /\ Submit([op |-> "release_all", client |-> c, by |-> "client", awaited |-> TRUE])
  /\ call' = [call EXCEPT ![c] = [kind |-> "release"]]
  /\ granted' = [granted EXCEPT ![c] = {}]
  /\ revoked' = [revoked EXCEPT ![c] = {}]
  /\ UNCHANGED expired

(* submit()'s wait_for expires: the command stays in the log.               *)
SubmitTimeout ==
  /\ \E i \in DOMAIN underWay :
       /\ underWay[i].awaited
       /\ underWay' = [underWay EXCEPT ![i].awaited = FALSE]
       /\ call' = IF underWay[i].by # "client" THEN call
                  ELSE [call EXCEPT ![underWay[i].client] =
                          IF @.kind = "acquire" THEN [@ EXCEPT !.attempt = "unanswered"] ELSE Idle]
  /\ UNCHANGED <<tableVars, detectVars, expired, histVars>>

(* Faulty: notes the pairs the wrong way round. *)
FindExpired_Swapped(r, C) ==
  /\ expired = {} /\ ~Waiting("lease loop")
  /\ C # {} /\ C \subseteq DOMAIN holders[r]
  /\ expired' = {r} \X C
  /\ UNCHANGED <<tableVars, detectVars, underWay, call, histVars>>

(* _lease_expiry_loop: the loop finds that the leases of the clients C on r *)
(* have passed,                                                             *)
FindExpired(r, C) ==
  /\ expired = {} /\ ~Waiting("lease loop")
  /\ C # {} /\ C \subseteq DOMAIN holders[r]
  /\ expired' = C \X {r}
  /\ UNCHANGED <<tableVars, detectVars, underWay, call, histVars>>

(* and releases one after the other, whatever happens to the lock while it  *)
(* waits for the release before.                                            *)
ReleaseExpired(c, r) ==
  /\ <<c, r>> \in expired /\ ~Waiting("lease loop")
  /\ Submit([op |-> "release", client |-> c, resource |-> r, by |-> "lease loop",
             awaited |-> TRUE])
  /\ expired' = expired \ {<<c, r>>}
  /\ UNCHANGED <<call, histVars>>

(* detect_cycle and select_victim: which cycle the search meets first       *)
(* depends on dictionary order; its youngest client is the victim, a client *)
(* without a recorded age counting as the oldest.                           *)
Cycles ==
  {s \in UNION {[1..k -> Client] : k \in 2..Cardinality(Client)} :
     /\ \A i, j \in DOMAIN s : s[i] = s[j] => i = j
     /\ \A i \in DOMAIN s : <<s[i], s[IF i = Len(s) THEN 1 ELSE i + 1]>> \in wait_for}

Younger(c, d) == HasAge(c) /\ (HasAge(d) => <<c, d>> \in client_age)

IsVictim(v, s) ==
  /\ \E i \in DOMAIN s : s[i] = v
  /\ \A i \in DOMAIN s : s[i] # v => ~Younger(s[i], v)

(* _deadlock_detection_loop *)
DetectDeadlock(v) ==
  /\ \E s \in Cycles : IsVictim(v, s)
  /\ ~Waiting("deadlock loop")
  /\ Submit([op |-> "abort", client |-> v, by |-> "deadlock loop", awaited |-> TRUE])
  /\ UNCHANGED <<call, expired, histVars>>

(* _apply_command on the oldest command under way; a submitter that still   *)
(* waits for it gets the result.                                            *)
ApplyAcquire(cmd) ==
  /\ cmd.op = "acquire"
  /\ \E ok \in BOOLEAN :
       /\ DoAcquire(cmd.client, cmd.resource, cmd.mode, ok)
       /\ IF cmd.awaited
          THEN /\ call' = [call EXCEPT ![cmd.client] = IF ok THEN Idle
                                                      ELSE [@ EXCEPT !.attempt = "refused"]]
               /\ IF ok
                  THEN /\ granted' = [granted EXCEPT ![cmd.client] = @ \cup {cmd.resource}]
                       /\ revoked' = [revoked EXCEPT ![cmd.client] = @ \ {cmd.resource}]
                  ELSE UNCHANGED histVars
          ELSE UNCHANGED <<call, histVars>>

ApplyRelease(cmd) ==
  /\ cmd.op # "acquire"
  /\ IF cmd.op = "release" THEN DoRelease(cmd.client, cmd.resource)
                           ELSE DoReleaseAll(cmd.client)
  /\ call' = IF cmd.awaited /\ cmd.by = "client" THEN [call EXCEPT ![cmd.client] = Idle]
                                                 ELSE call
  /\ granted' = granted
  /\ revoked' = IF cmd.by = "client" THEN revoked
                ELSE [revoked EXCEPT ![cmd.client] =
                        @ \cup {r \in granted[cmd.client] : cmd.client \notin DOMAIN holders'[r]}]

Apply ==
  /\ underWay # <<>>
  /\ underWay' = Tail(underWay)
  /\ UNCHANGED expired
  /\ ApplyAcquire(Head(underWay)) \/ ApplyRelease(Head(underWay))

Next ==
  \/ \E c \in Client, r \in Resource :
       \/ \E mode \in Mode : CallAcquire(c, r, mode)
       \/ CallRelease(c, r)
       \/ ReleaseExpired(c, r)
  \/ \E c \in Client : Retry(c) \/ GiveUp(c) \/ CallReleaseAll(c) \/ DetectDeadlock(c)
  \/ \E r \in Resource, C \in SUBSET Client : FindExpired(r, C)
  \/ SubmitTimeout
  \/ Apply

Spec == Init /\ [][Next]_vars

(* What keeps going on its own: the log applies what was submitted, a       *)
(* client that has not reached its deadline retries every 50 ms, and the    *)
(* deadlock loop looks every 2 s.  Strong fairness for the last two: only   *)
(* the bound on commands under way, which the code has not, disables them   *)
(* from time to time.                                                       *)
Fairness ==
  /\ WF_vars(Apply)
  /\ \A c \in Client : SF_vars(Retry(c))
  /\ SF_vars(\E v \in Client : DetectDeadlock(v))

-----------------------------------------------------------------------------
(* Properties.                                                             *)

(* Every variable holds values of the kind the code gives it. *)
TypeOK ==
  /\ DOMAIN holders = Resource
  /\ \A r \in Resource :
       /\ DOMAIN holders[r] \subseteq Client
       /\ \A c \in DOMAIN holders[r] : holders[r][c] \in {"shared", "exclusive"}
  /\ waiters \in [Resource -> Seq(Waiter)]
  /\ client_locks \in [Client -> SUBSET Resource]
  /\ wait_for \subseteq Client \X Client
  /\ client_age \subseteq Client \X Client
  /\ underWay \in Seq(Command)
  /\ call \in [Client -> Call]
  /\ expired \subseteq Client \X Resource
  /\ granted \in [Client -> SUBSET Resource]
  /\ revoked \in [Client -> SUBSET Resource]

(* Exclusive: not compatible with anything (architecture.md:75): an         *)
(* exclusive holder is alone, through every promotion of waiters.           *)
ExclusiveIsAlone ==
  \A r \in Resource : \A c \in DOMAIN holders[r] :
    holders[r][c] = "exclusive" => DOMAIN holders[r] = {c}

(* No lost wake-up: after every command, whoever is first in a queue cannot *)
(* be let in; and nobody queues twice for one lock.  A release, an expired  *)
(* lease or an abort that frees the way promotes in the same step.          *)
FirstWaiterIsBlocked ==
  \A r \in Resource :
    /\ waiters[r] # <<>> =>
         /\ DOMAIN holders[r] # {}
         /\ Head(waiters[r]).mode = "exclusive" \/ ~AllShared(holders[r])
    /\ \A i, j \in DOMAIN waiters[r] : waiters[r][i].client = waiters[r][j].client => i = j

(* client_locks, which release_all and abort go by, is the inverse of the   *)
(* holders: an abort takes every lock the victim has, promoted ones too.    *)
ClientLocksMirrorHolders ==
  \A c \in Client : client_locks[c] = {r \in Resource : Holds(c, r)}

(* A client that was told True has the lock until it gives it back or a     *)
(* loop of the service takes it: no late, retried or abandoned command of   *)
(* its own takes it away.                                                   *)
GrantStands ==
  \A c \in Client : \A r \in granted[c] : Holds(c, r) \/ r \in revoked[c]

(* acquire() blocks until granted or timeout (lock_manager.py:274): an      *)
(* attempt is not refused to a client that holds the lock as it asked.      *)
BlocksUntilGranted ==
  [][\A c \in Client :
       call[c].kind = "acquire" /\ call'[c].kind = "acquire" =>
         (call[c].attempt = "submitted" /\ call'[c].attempt = "refused" =>
            ~(Holds(c, call[c].resource)
              /\ holders[call[c].resource][c] = call[c].mode))]_vars

(* c is in acquire() for a lock d holds. *)
AwaitsLockOf(c, d) ==
  /\ c # d
  /\ call[c].kind = "acquire"
  /\ Holds(d, call[c].resource)

(* Clients that keep trying for each other's locks do not do so for ever:   *)
(* the deadlock loop breaks every such circle, however often the detector   *)
(* forgot one of the clients on the way.                                    *)
Deadlocked == \E c, d \in Client : AwaitsLockOf(c, d) /\ AwaitsLockOf(d, c)

DeadlockIsBroken == Deadlocked ~> ~Deadlocked
=============================================================================
