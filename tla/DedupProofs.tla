---------------------------- MODULE DedupProofs -----------------------------
(***************************************************************************)
(* Theorems about Dedup for any events, runs, plans and number of          *)
(* restarts: type correctness, the counters' balance, and that the service *)
(* implements EventLog.                                                    *)
(***************************************************************************)
EXTENDS Dedup, FiniteSetTheorems, SequenceTheorems, TLAPS

(***************************************************************************)
(* Types.                                                                  *)
(***************************************************************************)

(* A run that has posted a batch has not come to the end of its plan.       *)
RunOK(p) ==
  \/ p = [at |-> "new"]
  \/ \E at \in {"ready", "posted", "failed"}, plan \in Plans, k \in Nat :
       /\ p = [at |-> at, plan |-> plan, answered |-> k]
       /\ k <= Len(plan) /\ (at # "ready" => k < Len(plan))

ClientsOK ==
  /\ DOMAIN run = Run /\ run = [r \in Run |-> run[r]]
  /\ \A r \in Run : RunOK(run[r])
  /\ requests \subseteq Requests

ServerOK ==
  /\ queue \in Seq(Event)
  /\ received \in Nat /\ unique_processed \in Nat /\ duplicate_dropped \in Nat
  /\ worker \in Workers

StoreOK ==
  /\ rows \subseteq Event /\ inherited \subseteq rows
  /\ lives \in 0..MaxRestarts /\ raised \in BOOLEAN

Types == ClientsOK /\ ServerOK /\ StoreOK

LEMMA PlanFacts ==
  ASSUME NEW plan \in Plans
  PROVE  /\ plan \in Seq(Seq(Event)) /\ Len(plan) \in Nat
         /\ \A i \in 1..Len(plan) : plan[i] \in Seq(Event)
<1>1. plan \in Seq(Seq(Event)) BY DedupAssumption
<1> QED BY <1>1, ElementOfSeq, LenProperties

LEMMA RestartsAreCounted == MaxRestarts \in Nat
BY DedupAssumption

LEMMA Moved ==
  ASSUME NEW p, NEW at, NEW plan, NEW k, p = [at |-> at, plan |-> plan, answered |-> k], NEW to
  PROVE  [p EXCEPT !.at = to] = [at |-> to, plan |-> plan, answered |-> k]
<1>1. [[at |-> at, plan |-> plan, answered |-> k] EXCEPT !.at = to]
        = [at |-> to, plan |-> plan, answered |-> k]
  OBVIOUS
<1> QED BY <1>1

LEMMA TypesAreTypes == Types => TypeOK
<1> SUFFICES ASSUME Types PROVE TypeOK OBVIOUS
<1>1. ASSUME NEW r \in Run
      PROVE  run[r] \in Runs /\ (run[r].at # "new" => run[r].answered \in 0..Len(run[r].plan))
  <2>1. CASE run[r] = [at |-> "new"] BY <2>1 DEF Runs
  <2>2. CASE \E at \in {"ready", "posted", "failed"}, plan \in Plans, k \in Nat :
               /\ run[r] = [at |-> at, plan |-> plan, answered |-> k]
               /\ k <= Len(plan) /\ (at # "ready" => k < Len(plan))
    <3>1. PICK at \in {"ready", "posted", "failed"}, plan \in Plans, k \in Nat :
               /\ run[r] = [at |-> at, plan |-> plan, answered |-> k]
               /\ k <= Len(plan) /\ (at # "ready" => k < Len(plan))
      BY <2>2
    <3>2. Len(plan) \in Nat BY PlanFacts
    <3> QED BY <3>1, <3>2 DEF Runs
  <2> QED BY <2>1, <2>2 DEF Types, ClientsOK, RunOK
<1>2. run \in [Run -> Runs] BY <1>1 DEF Types, ClientsOK
<1> QED BY <1>1, <1>2 DEF TypeOK, Types, ClientsOK, ServerOK, StoreOK

LEMMA InitTypes == Init => Types
<1> SUFFICES ASSUME Init PROVE Types OBVIOUS
<1>1. ClientsOK BY DEF Init, ClientsOK, RunOK
<1>2. ServerOK BY EmptySeq DEF Init, ServerOK, Workers
<1>3. lives \in 0..MaxRestarts BY RestartsAreCounted DEF Init
<1>4. StoreOK BY <1>3 DEF Init, StoreOK
<1> QED BY <1>1, <1>2, <1>4 DEF Types

(* Only run r is changed, to p.                                             *)
LEMMA RunBecomes ==
  ASSUME ClientsOK, NEW r \in Run, NEW p, RunOK(p),
         run' = [run EXCEPT ![r] = p], requests' \subseteq Requests
  PROVE  ClientsOK'
<1>1. DOMAIN run' = Run /\ run' = [x \in Run |-> run'[x]] BY DEF ClientsOK
<1>2. \A x \in Run : run'[x] = IF x = r THEN p ELSE run[x] BY DEF ClientsOK
<1> QED BY <1>1, <1>2 DEF ClientsOK

(* What is known of a run that is under way.                                *)
LEMMA RunUnderWay ==
  ASSUME ClientsOK, NEW r \in Run, run[r].at # "new"
  PROVE  /\ run[r].at \in {"ready", "posted", "failed"}
         /\ run[r].plan \in Plans /\ run[r].answered \in Nat
         /\ run[r] = [at |-> run[r].at, plan |-> run[r].plan, answered |-> run[r].answered]
         /\ run[r].answered <= Len(run[r].plan)
         /\ run[r].at # "ready" => run[r].answered < Len(run[r].plan)
<1>1. PICK at \in {"ready", "posted", "failed"}, plan \in Plans, k \in Nat :
           /\ run[r] = [at |-> at, plan |-> plan, answered |-> k]
           /\ k <= Len(plan) /\ (at # "ready" => k < Len(plan))
  BY DEF ClientsOK, RunOK
<1> QED BY <1>1

LEMMA RunOKMeans ==
  ASSUME NEW at \in {"ready", "posted", "failed"}, NEW plan \in Plans, NEW k \in Nat,
         k <= Len(plan), at # "ready" => k < Len(plan)
  PROVE  RunOK([at |-> at, plan |-> plan, answered |-> k])
BY DEF RunOK

LEMMA ClientsStay ==
  ClientsOK /\ UNCHANGED runVars => ClientsOK'
BY DEF ClientsOK, runVars

LEMMA StartTypes ==
  ASSUME ClientsOK, NEW r \in Run, Start(r)
  PROVE  ClientsOK'
<1>1. PICK plan \in Plans :
        run' = [run EXCEPT ![r] = [at |-> "ready", plan |-> plan, answered |-> 0]]
  BY DEF Start
<1>2. RunOK([at |-> "ready", plan |-> plan, answered |-> 0])
  <2>1. 0 \in Nat /\ 0 <= Len(plan) BY PlanFacts
  <2> QED BY <2>1, RunOKMeans
<1> QED BY <1>1, <1>2, RunBecomes DEF Start, ClientsOK

LEMMA PostTypes ==
  ASSUME ClientsOK, NEW r \in Run, Post(r)
  PROVE  /\ ClientsOK'
         /\ run[r].plan[run[r].answered + 1] \in Seq(Event)
<1> DEFINE p == [at |-> "posted", plan |-> run[r].plan, answered |-> run[r].answered]
           q == [from |-> r, batch |-> run[r].plan[run[r].answered + 1], queued |-> FALSE]
<1>1. run[r].at = "ready" /\ run[r].answered < Len(run[r].plan) BY DEF Post
<1>2. run[r].plan \in Plans /\ run[r].answered \in Nat
      /\ run[r] = [at |-> run[r].at, plan |-> run[r].plan, answered |-> run[r].answered]
  BY <1>1, RunUnderWay
<1>3. [run[r] EXCEPT !.at = "posted"] = p
  BY <1>2, Moved
<1>31. run' = [run EXCEPT ![r] = p] BY <1>3 DEF Post
<1>4. RunOK(p)
  <2>1. run[r].answered <= Len(run[r].plan) BY <1>1, <1>2, PlanFacts
  <2> QED BY <1>1, <1>2, <2>1, RunOKMeans
<1>5. run[r].plan[run[r].answered + 1] \in Seq(Event) BY <1>1, <1>2, PlanFacts
<1>6. q \in Requests BY <1>5 DEF Requests
<1>7. requests' \subseteq Requests BY <1>6 DEF Post, ClientsOK
<1> HIDE DEF p, q
<1> QED BY <1>31, <1>4, <1>5, <1>7, RunBecomes

LEMMA RespondTypes ==
  ASSUME ClientsOK, NEW q \in requests, Respond(q)
  PROVE  ClientsOK'
<1>1. q.from \in Run /\ requests' \subseteq Requests BY DEF ClientsOK, Requests, Respond
<1>2. CASE run[q.from].at = "posted"
  <2> DEFINE p == [at |-> "ready", plan |-> run[q.from].plan,
                   answered |-> run[q.from].answered + 1]
  <2>1. run[q.from].plan \in Plans /\ run[q.from].answered \in Nat
        /\ run[q.from].answered < Len(run[q.from].plan)
        /\ run[q.from] = [at |-> run[q.from].at, plan |-> run[q.from].plan,
                          answered |-> run[q.from].answered]
    BY <1>1, <1>2, RunUnderWay
  <2>2. run' = [run EXCEPT ![q.from] = p] BY <1>2 DEF Respond
  <2>3. RunOK(p)
    <3>1. run[q.from].answered + 1 \in Nat /\ run[q.from].answered + 1 <= Len(run[q.from].plan)
      BY <2>1, PlanFacts
    <3> QED BY <2>1, <3>1, RunOKMeans
  <2> HIDE DEF p
  <2> QED BY <1>1, <2>2, <2>3, RunBecomes
<1>3. CASE run[q.from].at # "posted"
  <2>1. run' = run BY <1>3 DEF Respond, ClientsOK
  <2> QED BY <1>1, <2>1 DEF ClientsOK
<1> QED BY <1>2, <1>3

LEMMA PostFailsTypes ==
  ASSUME ClientsOK, NEW r \in Run, PostFails(r)
  PROVE  ClientsOK'
<1> DEFINE p == [at |-> "failed", plan |-> run[r].plan, answered |-> run[r].answered]
<1>1. run[r].at = "posted" BY DEF PostFails
<1>2. run[r].plan \in Plans /\ run[r].answered \in Nat /\ run[r].answered < Len(run[r].plan)
      /\ run[r] = [at |-> run[r].at, plan |-> run[r].plan, answered |-> run[r].answered]
  BY <1>1, RunUnderWay
<1>3. [run[r] EXCEPT !.at = "failed"] = p
  BY <1>2, Moved
<1>31. run' = [run EXCEPT ![r] = p] BY <1>3 DEF PostFails
<1>4. RunOK(p)
  <2>1. run[r].answered <= Len(run[r].plan) BY <1>2, PlanFacts
  <2> QED BY <1>2, <2>1, RunOKMeans
<1> HIDE DEF p
<1> QED BY <1>31, <1>4, RunBecomes DEF PostFails, ClientsOK

LEMMA RestartTypes ==
  ASSUME ClientsOK, Restart
  PROVE  ClientsOK'
<1>1. ASSUME NEW r \in Run PROVE RunOK(run'[r])
  <2>1. CASE run[r].at = "posted"
    <3>1. run[r].plan \in Plans /\ run[r].answered \in Nat /\ run[r].answered < Len(run[r].plan)
          /\ run[r] = [at |-> run[r].at, plan |-> run[r].plan, answered |-> run[r].answered]
      BY <2>1, RunUnderWay
    <3>2. run'[r] = [at |-> "failed", plan |-> run[r].plan, answered |-> run[r].answered]
      BY <2>1, <3>1 DEF Restart
    <3>3. run[r].answered <= Len(run[r].plan) BY <3>1, PlanFacts
    <3> QED BY <3>1, <3>2, <3>3, RunOKMeans
  <2>2. CASE run[r].at # "posted" BY <2>2 DEF Restart, ClientsOK
  <2> QED BY <2>1, <2>2
<1>2. DOMAIN run' = Run /\ run' = [r \in Run |-> run'[r]] BY DEF Restart
<1> QED BY <1>1, <1>2 DEF Restart, ClientsOK

LEMMA WorkerCases ==
  ASSUME ServerOK
  PROVE  /\ worker.at \in {"get", "dead", "adding", "added"}
         /\ worker.at \in {"adding", "added"} => worker.event \in Event
         /\ worker.at = "added" => worker.inserted \in BOOLEAN
BY DEF ServerOK, Workers

LEMMA TakeTypes == ASSUME ServerOK, Take PROVE ServerOK'
<1>1. queue # <<>> /\ queue \in Seq(Event) BY DEF ServerOK, Take
<1>2. Head(queue) \in Event /\ Tail(queue) \in Seq(Event) BY <1>1, HeadTailProperties
<1>3. [at |-> "adding", event |-> Head(queue)] \in Workers BY <1>2 DEF Workers
<1> QED BY <1>2, <1>3 DEF ServerOK, Take

LEMMA PublishTypes ==
  ASSUME ClientsOK, ServerOK, NEW q \in requests, Publish(q)
  PROVE  ClientsOK' /\ ServerOK'
<1>1. q \in Requests /\ q.batch \in Seq(Event) BY DEF ClientsOK, Requests
<1>2. queue' \in Seq(Event) BY <1>1, ConcatProperties DEF Publish, ServerOK
<1>3. received' \in Nat BY <1>1, LenProperties DEF Publish, ServerOK
<1>4. ServerOK' BY <1>2, <1>3 DEF Publish, ServerOK, workVars
<1>5. [q EXCEPT !.queued = TRUE] \in Requests BY <1>1 DEF Requests
<1>6. ClientsOK' BY <1>5 DEF Publish, ClientsOK
<1> QED BY <1>4, <1>6

LEMMA TypesInductive == Types /\ [Next]_vars => Types'
<1> SUFFICES ASSUME Types, [Next]_vars PROVE Types' OBVIOUS
<1> USE DEF Types
<1>1. ASSUME NEW r \in Run, Start(r) PROVE Types'
  BY <1>1, StartTypes DEF Start, ServerOK, StoreOK, serverVars, workVars, lifeVars
<1>2. ASSUME NEW r \in Run, Post(r) PROVE Types'
  BY <1>2, PostTypes DEF Post, ServerOK, StoreOK, serverVars, workVars, lifeVars
<1>3. ASSUME NEW r \in Run, PostFails(r) PROVE Types'
  BY <1>3, PostFailsTypes DEF PostFails, ServerOK, StoreOK, serverVars, workVars, lifeVars
<1>4. ASSUME NEW q \in requests, Publish(q) PROVE Types'
  BY <1>4, PublishTypes DEF Publish, StoreOK, lifeVars
<1>5. ASSUME NEW q \in requests, Respond(q) PROVE Types'
  BY <1>5, RespondTypes DEF Respond, ServerOK, StoreOK, serverVars, workVars, lifeVars
<1>6. CASE Take BY <1>6, TakeTypes, ClientsStay DEF Take, StoreOK, lifeVars
<1>7. CASE AddIfNew
  <2>1. worker.event \in Event BY <1>7, WorkerCases DEF AddIfNew
  <2>2. worker' \in Workers BY <1>7, <2>1 DEF AddIfNew, Workers
  <2> QED BY <1>7, <2>1, <2>2, ClientsStay DEF AddIfNew, ServerOK, StoreOK, lifeVars
<1>8. CASE Count
  <2>1. worker' \in Workers BY <1>8 DEF Count, Workers
  <2> QED BY <1>8, <2>1, ClientsStay DEF Count, ServerOK, StoreOK, lifeVars
<1>9. CASE StoreRaises
  <2>1. worker' \in Workers BY <1>9 DEF StoreRaises, Workers
  <2> QED BY <1>9, <2>1, ClientsStay DEF StoreRaises, ServerOK, StoreOK
<1>10. CASE Restart
  <2>1. ServerOK' BY <1>10, EmptySeq DEF Restart, ServerOK, Workers
  <2>3. lives' \in 0..MaxRestarts BY <1>10, RestartsAreCounted DEF Restart, StoreOK
  <2>2. StoreOK' BY <1>10, <2>3 DEF Restart, StoreOK
  <2> QED BY <1>10, <2>1, <2>2, RestartTypes
<1>11. CASE UNCHANGED vars
  BY <1>11, ClientsStay DEF vars, serverVars, workVars, lifeVars, ServerOK, StoreOK
<1> QED BY <1>1, <1>2, <1>3, <1>4, <1>5, <1>6, <1>7, <1>8, <1>9, <1>10, <1>11
        DEF Next, WorkerStep

(* Every reachable state is well-typed.                                     *)
THEOREM TypeCorrect == Spec => []TypeOK
<1>1. Spec => []Types BY InitTypes, TypesInductive, PTL DEF Spec
<1> QED BY <1>1, TypesAreTypes, PTL

(***************************************************************************)
(* The counters.                                                           *)
(***************************************************************************)

LEMMA AccountedInductive ==
  Types /\ Types' /\ EveryEventIsAccounted /\ [Next]_vars => EveryEventIsAccounted'
<1> SUFFICES ASSUME Types, Types', EveryEventIsAccounted, [Next]_vars
             PROVE  EveryEventIsAccounted'
  OBVIOUS
<1> USE DEF EveryEventIsAccounted
<1>1. received \in Nat /\ unique_processed \in Nat /\ duplicate_dropped \in Nat
      /\ queue \in Seq(Event) /\ Len(queue) \in Nat
  BY LenProperties DEF Types, ServerOK
<1>2. CASE UNCHANGED serverVars BY <1>2 DEF serverVars, workVars
<1>3. ASSUME NEW q \in requests, Publish(q) PROVE EveryEventIsAccounted'
  <2>1. q.batch \in Seq(Event) BY DEF Types, ClientsOK, Requests
  <2>2. Len(queue') = Len(queue) + Len(q.batch) /\ Len(q.batch) \in Nat
    BY <1>1, <1>3, <2>1, ConcatProperties, LenProperties DEF Publish
  <2> QED BY <1>1, <1>3, <2>2 DEF Publish, workVars
<1>4. CASE Take
  <2>1. Len(queue') = Len(queue) - 1 BY <1>1, <1>4, HeadTailProperties DEF Take
  <2>2. worker.at = "get" /\ worker'.at = "adding" BY <1>4 DEF Take
  <2> QED BY <1>1, <1>4, <2>1, <2>2 DEF Take
<1>5. CASE AddIfNew
  <2>1. worker.at = "adding" /\ worker'.at = "added" BY <1>5 DEF AddIfNew
  <2> QED BY <1>5, <2>1 DEF AddIfNew
<1>6. CASE Count
  <2>1. worker.at = "added" /\ worker'.at = "get" BY <1>6 DEF Count
  <2>2. unique_processed' + duplicate_dropped' = unique_processed + duplicate_dropped + 1
    BY <1>1, <1>6 DEF Count
  <2> QED BY <1>1, <1>6, <2>1, <2>2 DEF Count
<1>7. CASE StoreRaises
  <2>1. worker.at = "adding" /\ worker'.at = "dead" BY <1>7 DEF StoreRaises
  <2> QED BY <1>7, <2>1 DEF StoreRaises
<1>8. CASE Restart
  <2>1. Len(<<>>) = 0 BY EmptySeq
  <2>2. worker'.at = "get" BY <1>8 DEF Restart
  <2> QED BY <1>8, <2>1, <2>2 DEF Restart
<1> QED BY <1>2, <1>3, <1>4, <1>5, <1>6, <1>7, <1>8
        DEF Next, WorkerStep, Start, Post, PostFails, Respond, vars

(* However events are batched, repeated and retried, and whatever becomes  *)
(* of the worker, no event that this process received is left out of the   *)
(* count or counted twice.                                                 *)
THEOREM Accounted == Spec => []EveryEventIsAccounted
<1>1. Init => EveryEventIsAccounted
  <2>1. Len(<<>>) = 0 BY EmptySeq
  <2> QED BY <2>1 DEF Init, EveryEventIsAccounted
<1>2. Spec => []Types BY InitTypes, TypesInductive, PTL DEF Spec
<1> QED BY <1>1, <1>2, AccountedInductive, PTL DEF Spec

(***************************************************************************)
(* What the runs have sent and were told.                                  *)
(***************************************************************************)

(* How many batches a run has posted, and how many were answered.           *)
Posted(p) == IF p.at = "new" THEN 0 ELSE IF p.at = "ready" THEN p.answered ELSE p.answered + 1
Answered(p) == IF p.at = "new" THEN 0 ELSE p.answered

InPlan(e, p, k) == \E i \in 1..k : e \in Elements(p.plan[i])

LEMMA OfferedMeans ==
  ASSUME ClientsOK, NEW e
  PROVE  e \in Offered <=> \E r \in Run : InPlan(e, run[r], Posted(run[r]))
<1>1. ASSUME NEW r \in Run, InPlan(e, run[r], Posted(run[r])) PROVE e \in Offered
  <2>1. CASE run[r].at = "new" BY <1>1, <2>1 DEF InPlan, Posted
  <2>2. CASE run[r].at = "ready"
    <3>1. e \in Sent(r, run[r].answered) BY <1>1, <2>2 DEF InPlan, Posted, Sent
    <3> QED BY <2>2, <3>1 DEF Offered
  <2>3. CASE run[r].at \in {"posted", "failed"}
    <3>1. e \in Sent(r, run[r].answered + 1) BY <1>1, <2>3 DEF InPlan, Posted, Sent
    <3> QED BY <2>3, <3>1 DEF Offered
  <2> QED BY <2>1, <2>2, <2>3, RunUnderWay
<1>2. ASSUME e \in Offered PROVE \E r \in Run : InPlan(e, run[r], Posted(run[r]))
  <2>1. CASE \E r \in Run : run[r].at # "new" /\ e \in Sent(r, run[r].answered)
    <3>1. PICK r \in Run : run[r].at # "new" /\ e \in Sent(r, run[r].answered) BY <2>1
    <3>2. PICK i \in 1..run[r].answered : e \in Elements(run[r].plan[i]) BY <3>1 DEF Sent
    <3>3. run[r].answered \in Nat BY <3>1, RunUnderWay
    <3>4. i \in 1..Posted(run[r]) BY <3>1, <3>2, <3>3 DEF Posted
    <3> QED BY <3>2, <3>4 DEF InPlan
  <2>2. CASE \E r \in Run : run[r].at \in {"posted", "failed"}
                            /\ e \in Sent(r, run[r].answered + 1)
    <3>1. PICK r \in Run : run[r].at \in {"posted", "failed"}
                           /\ e \in Sent(r, run[r].answered + 1)
      BY <2>2
    <3>2. PICK i \in 1..run[r].answered + 1 : e \in Elements(run[r].plan[i]) BY <3>1 DEF Sent
    <3>3. Posted(run[r]) = run[r].answered + 1 BY <3>1 DEF Posted
    <3> QED BY <3>2, <3>3 DEF InPlan
  <2> QED BY <1>2, <2>1, <2>2 DEF Offered
<1> QED BY <1>1, <1>2

LEMMA PromisedMeans ==
  ASSUME ClientsOK, NEW e
  PROVE  e \in Promised <=> \E r \in Run : InPlan(e, run[r], Answered(run[r]))
<1>1. ASSUME NEW r \in Run, InPlan(e, run[r], Answered(run[r])) PROVE e \in Promised
  <2>1. run[r].at # "new" BY <1>1 DEF InPlan, Answered
  <2>2. e \in Sent(r, run[r].answered) BY <1>1, <2>1 DEF InPlan, Answered, Sent
  <2> QED BY <2>1, <2>2 DEF Promised
<1>2. ASSUME e \in Promised PROVE \E r \in Run : InPlan(e, run[r], Answered(run[r]))
  <2>1. PICK r \in Run : run[r].at # "new" /\ e \in Sent(r, run[r].answered)
    BY <1>2 DEF Promised
  <2> QED BY <2>1 DEF Sent, InPlan, Answered
<1> QED BY <1>1, <1>2

(* The same of the next state.                                              *)
LEMMA OfferedNext ==
  ASSUME ClientsOK', NEW e
  PROVE  e \in Offered' <=> \E r \in Run : InPlan(e, run'[r], Posted(run'[r]))
<1>0. \A r \in Run : run'[r].at # "new" =>
        run'[r].at \in {"ready", "posted", "failed"} /\ run'[r].answered \in Nat
  <2> SUFFICES ASSUME NEW r \in Run, run'[r].at # "new"
               PROVE  run'[r].at \in {"ready", "posted", "failed"} /\ run'[r].answered \in Nat
    OBVIOUS
  <2>1. PICK at \in {"ready", "posted", "failed"}, plan \in Plans, k \in Nat :
             /\ run'[r] = [at |-> at, plan |-> plan, answered |-> k]
             /\ k <= Len(plan) /\ (at # "ready" => k < Len(plan))
    BY DEF ClientsOK, RunOK
  <2> QED BY <2>1
<1>1. ASSUME NEW r \in Run, InPlan(e, run'[r], Posted(run'[r])) PROVE e \in Offered'
  <2>1. CASE run'[r].at = "new" BY <1>1, <2>1 DEF InPlan, Posted
  <2>2. CASE run'[r].at = "ready"
    <3>1. e \in Sent(r, run[r].answered)' BY <1>1, <2>2 DEF InPlan, Posted, Sent
    <3> QED BY <2>2, <3>1 DEF Offered
  <2>3. CASE run'[r].at \in {"posted", "failed"}
    <3>1. e \in Sent(r, run[r].answered + 1)' BY <1>1, <2>3 DEF InPlan, Posted, Sent
    <3> QED BY <2>3, <3>1 DEF Offered
  <2> QED BY <2>1, <2>2, <2>3, <1>0
<1>2. ASSUME e \in Offered' PROVE \E r \in Run : InPlan(e, run'[r], Posted(run'[r]))
  <2>1. CASE \E r \in Run : run'[r].at # "new" /\ e \in Sent(r, run[r].answered)'
    <3>1. PICK r \in Run : run'[r].at # "new" /\ e \in Sent(r, run[r].answered)' BY <2>1
    <3>2. PICK i \in 1..run'[r].answered : e \in Elements(run'[r].plan[i])
      BY <3>1 DEF Sent, Elements
    <3>3. run'[r].answered \in Nat BY <3>1, <1>0
    <3>4. i \in 1..Posted(run'[r]) BY <3>1, <3>2, <3>3 DEF Posted
    <3> QED BY <3>2, <3>4 DEF InPlan
  <2>2. CASE \E r \in Run : run'[r].at \in {"posted", "failed"}
                            /\ e \in Sent(r, run[r].answered + 1)'
    <3>1. PICK r \in Run : run'[r].at \in {"posted", "failed"}
                           /\ e \in Sent(r, run[r].answered + 1)'
      BY <2>2
    <3>2. PICK i \in 1..run'[r].answered + 1 : e \in Elements(run'[r].plan[i])
      BY <3>1 DEF Sent, Elements
    <3>3. Posted(run'[r]) = run'[r].answered + 1 BY <3>1 DEF Posted
    <3> QED BY <3>2, <3>3 DEF InPlan
  <2> QED BY <1>2, <2>1, <2>2 DEF Offered
<1> QED BY <1>1, <1>2

LEMMA PromisedNext ==
  ASSUME ClientsOK', NEW e
  PROVE  e \in Promised' <=> \E r \in Run : InPlan(e, run'[r], Answered(run'[r]))
<1>1. ASSUME NEW r \in Run, InPlan(e, run'[r], Answered(run'[r])) PROVE e \in Promised'
  <2>1. run'[r].at # "new" BY <1>1 DEF InPlan, Answered
  <2>2. e \in Sent(r, run[r].answered)' BY <1>1, <2>1 DEF InPlan, Answered, Sent
  <2> QED BY <2>1, <2>2 DEF Promised
<1>2. ASSUME e \in Promised' PROVE \E r \in Run : InPlan(e, run'[r], Answered(run'[r]))
  <2>1. PICK r \in Run : run'[r].at # "new" /\ e \in Sent(r, run[r].answered)'
    BY <1>2 DEF Promised
  <2> QED BY <2>1 DEF Sent, InPlan, Answered
<1> QED BY <1>1, <1>2

(* A step of the runs that posts nothing, and one that answers nothing.     *)
PostsNothing ==
  \A r \in Run : Posted(run'[r]) = Posted(run[r])
                 /\ (Posted(run[r]) # 0 => run'[r].plan = run[r].plan)
AnswersNothing ==
  \A r \in Run : Answered(run'[r]) = Answered(run[r])
                 /\ (Answered(run[r]) # 0 => run'[r].plan = run[r].plan)

LEMMA SamePlan ==
  ASSUME NEW e, NEW p, NEW o, NEW k, k # 0 => o.plan = p.plan
  PROVE  InPlan(e, o, k) <=> InPlan(e, p, k)
BY DEF InPlan

LEMMA NothingPosted ==
  ASSUME ClientsOK, ClientsOK', PostsNothing
  PROVE  Offered' = Offered
<1>1. ASSUME NEW e PROVE e \in Offered' <=> e \in Offered
  <2>1. \A r \in Run : InPlan(e, run'[r], Posted(run'[r])) <=> InPlan(e, run[r], Posted(run[r]))
    BY SamePlan DEF PostsNothing
  <2> QED BY <2>1, OfferedMeans, OfferedNext
<1> QED BY <1>1

LEMMA NothingAnswered ==
  ASSUME ClientsOK, ClientsOK', AnswersNothing
  PROVE  Promised' = Promised
<1>1. ASSUME NEW e PROVE e \in Promised' <=> e \in Promised
  <2>1. \A r \in Run :
          InPlan(e, run'[r], Answered(run'[r])) <=> InPlan(e, run[r], Answered(run[r]))
    BY SamePlan DEF AnswersNothing
  <2> QED BY <2>1, PromisedMeans, PromisedNext
<1> QED BY <1>1

LEMMA PromisedIsOffered ==
  ASSUME ClientsOK'
  PROVE  Promised' \subseteq Offered'
<1> SUFFICES ASSUME NEW e \in Promised' PROVE e \in Offered' OBVIOUS
<1>1. PICK r \in Run : InPlan(e, run'[r], Answered(run'[r])) BY PromisedNext
<1>2. PICK i \in 1..Answered(run'[r]) : e \in Elements(run'[r].plan[i]) BY <1>1 DEF InPlan
<1>3. i \in 1..Posted(run'[r])
  <2>1. run'[r].at # "new" BY <1>2 DEF Answered
  <2>2. PICK at \in {"ready", "posted", "failed"}, plan \in Plans, k \in Nat :
             /\ run'[r] = [at |-> at, plan |-> plan, answered |-> k]
             /\ k <= Len(plan) /\ (at # "ready" => k < Len(plan))
    BY <2>1 DEF ClientsOK, RunOK
  <2> QED BY <1>2, <2>1, <2>2 DEF Posted, Answered
<1> QED BY <1>2, <1>3, OfferedNext DEF InPlan

(***************************************************************************)
(* The refinement.                                                         *)
(***************************************************************************)

(* What is on its way to the table, and what is in it, was sent, and every  *)
(* row was counted once.                                                    *)
Backed ==
  /\ \A q \in requests : Elements(q.batch) \subseteq Offered
  /\ Elements(queue) \subseteq Offered
  /\ worker.at \in {"adding", "added"} => worker.event \in Offered
  /\ rows \subseteq Offered
  /\ Counted = Cardinality(rows)

LEMMA ElementsMeans ==
  ASSUME NEW s \in Seq(Event)
  PROVE  Elements(s) \subseteq Event
BY ElementOfSeq, LenProperties DEF Elements

LEMMA ElementsOfConcat ==
  ASSUME NEW s \in Seq(Event), NEW t \in Seq(Event)
  PROVE  Elements(s \o t) = Elements(s) \cup Elements(t)
<1>1. /\ s \o t \in Seq(Event) /\ Len(s \o t) = Len(s) + Len(t)
      /\ Len(s) \in Nat /\ Len(t) \in Nat
      /\ DOMAIN s = 1..Len(s) /\ DOMAIN t = 1..Len(t) /\ DOMAIN (s \o t) = 1..Len(s) + Len(t)
      /\ \A i \in 1..Len(s) + Len(t) :
           (s \o t)[i] = IF i <= Len(s) THEN s[i] ELSE t[i - Len(s)]
  BY ConcatProperties, LenProperties
<1>2. ASSUME NEW e \in Elements(s \o t) PROVE e \in Elements(s) \cup Elements(t)
  <2>1. PICK i \in 1..Len(s) + Len(t) : e = (s \o t)[i] BY <1>1, <1>2 DEF Elements
  <2>2. CASE i <= Len(s) BY <1>1, <2>1, <2>2 DEF Elements
  <2>3. CASE ~(i <= Len(s))
    <3>1. i - Len(s) \in 1..Len(t) BY <1>1, <2>1, <2>3
    <3> QED BY <1>1, <2>1, <2>3, <3>1 DEF Elements
  <2> QED BY <2>2, <2>3
<1>3. ASSUME NEW e \in Elements(s) PROVE e \in Elements(s \o t)
  <2>1. PICK i \in 1..Len(s) : e = s[i] BY <1>1, <1>3 DEF Elements
  <2>2. i \in 1..Len(s) + Len(t) /\ (s \o t)[i] = s[i] BY <1>1, <2>1
  <2> QED BY <1>1, <2>1, <2>2 DEF Elements
<1>4. ASSUME NEW e \in Elements(t) PROVE e \in Elements(s \o t)
  <2>1. PICK i \in 1..Len(t) : e = t[i] BY <1>1, <1>4 DEF Elements
  <2>2. i + Len(s) \in 1..Len(s) + Len(t) /\ (s \o t)[i + Len(s)] = t[i]
    <3>1. i + Len(s) \in 1..Len(s) + Len(t) /\ ~(i + Len(s) <= Len(s)) BY <1>1, <2>1
    <3>2. (i + Len(s)) - Len(s) = i BY <1>1, <2>1
    <3> QED BY <1>1, <3>1, <3>2
  <2> QED BY <1>1, <2>1, <2>2 DEF Elements
<1> QED BY <1>2, <1>3, <1>4

LEMMA ElementsOfTail ==
  ASSUME NEW s \in Seq(Event), s # <<>>
  PROVE  Head(s) \in Elements(s) /\ Elements(Tail(s)) \subseteq Elements(s)
<1>1. /\ Head(s) = s[1] /\ Tail(s) \in Seq(Event) /\ Len(Tail(s)) = Len(s) - 1
      /\ \A i \in 1..Len(Tail(s)) : Tail(s)[i] = s[i + 1]
  BY HeadTailProperties
<1>2. Len(s) \in Nat /\ Len(s) # 0 /\ DOMAIN s = 1..Len(s)
      /\ DOMAIN Tail(s) = 1..Len(Tail(s))
  BY <1>1, EmptySeq, LenProperties
<1>3. 1 \in DOMAIN s BY <1>2
<1>4. ASSUME NEW i \in DOMAIN Tail(s) PROVE Tail(s)[i] \in Elements(s)
  <2>1. i + 1 \in DOMAIN s /\ Tail(s)[i] = s[i + 1] BY <1>1, <1>2
  <2> QED BY <2>1 DEF Elements
<1> QED BY <1>1, <1>3, <1>4 DEF Elements

LEMMA RowsAreFinite ==
  ASSUME StoreOK
  PROVE  /\ IsFiniteSet(rows) /\ IsFiniteSet(inherited)
         /\ Cardinality(rows) \in Nat /\ Cardinality(inherited) \in Nat
BY DedupAssumption, FS_Subset, FS_CardinalityType DEF StoreOK

(* The effect of a step on what EventLog sees.                              *)
LEMMA PostOffers ==
  ASSUME Types, Types', NEW r \in Run, Post(r)
  PROVE  LET S == Elements(run[r].plan[run[r].answered + 1]) IN
         /\ S \subseteq Event /\ Offered' = Offered \cup S /\ Promised' = Promised
<1> DEFINE S == Elements(run[r].plan[run[r].answered + 1])
<1>1. run[r].at = "ready" /\ run[r].answered < Len(run[r].plan) /\ run[r].answered \in Nat
      /\ DOMAIN run = Run
  BY RunUnderWay DEF Post, Types, ClientsOK
<1>2. S \subseteq Event BY PostTypes, ElementsMeans DEF Types
<1>3. run'[r].at = "posted" /\ run'[r].plan = run[r].plan /\ run'[r].answered = run[r].answered
      /\ \A x \in Run \ {r} : run'[x] = run[x]
  <2>1. run[r] = [at |-> run[r].at, plan |-> run[r].plan, answered |-> run[r].answered]
    BY <1>1, RunUnderWay DEF Types
  <2>2. [run[r] EXCEPT !.at = "posted"]
          = [at |-> "posted", plan |-> run[r].plan, answered |-> run[r].answered]
    BY <2>1, Moved
  <2>3. run'[r] = [run[r] EXCEPT !.at = "posted"] /\ \A x \in Run \ {r} : run'[x] = run[x]
    BY <1>1 DEF Post
  <2> QED BY <2>2, <2>3
<1>4. Posted(run[r]) = run[r].answered /\ Posted(run'[r]) = run[r].answered + 1
  BY <1>1, <1>3 DEF Posted
<1>5. Promised' = Promised
  <2>1. AnswersNothing BY <1>1, <1>3 DEF AnswersNothing, Answered
  <2> QED BY <2>1, NothingAnswered DEF Types
<1>6. ASSUME NEW e PROVE InPlan(e, run'[r], Posted(run'[r]))
                         <=> InPlan(e, run[r], Posted(run[r])) \/ e \in S
  <2>1. 1..run[r].answered + 1 = 1..run[r].answered \cup {run[r].answered + 1} BY <1>1
  <2> QED BY <1>3, <1>4, <2>1 DEF InPlan
<1>7. ASSUME NEW e PROVE e \in Offered' <=> e \in Offered \/ e \in S
  BY <1>3, <1>6, OfferedMeans, OfferedNext DEF Types
<1> QED BY <1>2, <1>5, <1>7

LEMMA RespondPromises ==
  ASSUME Types, Types', NEW q \in requests, Respond(q)
  PROVE  /\ Offered' = Offered
         /\ \A e \in Promised : e \in Promised'
<1>1. q.from \in Run /\ DOMAIN run = Run BY DEF Types, ClientsOK, Requests
<1>2. CASE run[q.from].at = "posted"
  <2>1. /\ run'[q.from] = [at |-> "ready", plan |-> run[q.from].plan,
                           answered |-> run[q.from].answered + 1]
        /\ \A x \in Run \ {q.from} : run'[x] = run[x]
    BY <1>1, <1>2 DEF Respond
  <2>2. run[q.from].answered \in Nat BY <1>1, <1>2, RunUnderWay DEF Types
  <2>3. PostsNothing BY <1>2, <2>1 DEF PostsNothing, Posted
  <2>4. Offered' = Offered BY <2>3, NothingPosted DEF Types
  <2>5. ASSUME NEW e \in Promised PROVE e \in Promised'
    <3>1. PICK r \in Run : InPlan(e, run[r], Answered(run[r])) BY <2>5, PromisedMeans DEF Types
    <3>2. InPlan(e, run'[r], Answered(run'[r]))
      <4>1. CASE r = q.from BY <1>2, <2>1, <2>2, <3>1, <4>1 DEF InPlan, Answered
      <4>2. CASE r # q.from BY <2>1, <3>1, <4>2
      <4> QED BY <4>1, <4>2
    <3> QED BY <3>2, PromisedNext DEF Types
  <2> QED BY <2>4, <2>5
<1>3. CASE run[q.from].at # "posted"
  <2>1. run' = run BY <1>1, <1>3 DEF Respond, Types, ClientsOK
  <2>2. PostsNothing /\ AnswersNothing BY <2>1 DEF PostsNothing, AnswersNothing
  <2> QED BY <2>2, NothingPosted, NothingAnswered DEF Types
<1> QED BY <1>2, <1>3

(* Starting, failing and restarting neither post nor answer.                *)
LEMMA OthersKeep ==
  ASSUME Types, Types',
         \/ \E r \in Run : Start(r) \/ PostFails(r)
         \/ Restart
         \/ UNCHANGED run
  PROVE  Offered' = Offered /\ Promised' = Promised
<1>1. ASSUME NEW r \in Run,
             \/ run[r].at = "new" /\ run'[r].at = "ready" /\ run'[r].answered = 0
             \/ /\ run[r].at = "posted" /\ run'[r].at = "failed"
                /\ run'[r].plan = run[r].plan /\ run'[r].answered = run[r].answered
             \/ run'[r] = run[r]
      PROVE  /\ Posted(run'[r]) = Posted(run[r])
             /\ Posted(run[r]) # 0 => run'[r].plan = run[r].plan
             /\ Answered(run'[r]) = Answered(run[r])
             /\ Answered(run[r]) # 0 => run'[r].plan = run[r].plan
  BY <1>1 DEF Posted, Answered
<1>2. ASSUME NEW r \in Run, run[r].at = "posted"
      PROVE  LET p == [run[r] EXCEPT !.at = "failed"] IN
             p.at = "failed" /\ p.plan = run[r].plan /\ p.answered = run[r].answered
  <2>1. run[r] = [at |-> run[r].at, plan |-> run[r].plan, answered |-> run[r].answered]
    BY <1>2, RunUnderWay DEF Types
  <2>2. [run[r] EXCEPT !.at = "failed"]
          = [at |-> "failed", plan |-> run[r].plan, answered |-> run[r].answered]
    BY <2>1, Moved
  <2> QED BY <2>2
<1>3. ASSUME NEW x \in Run
      PROVE  \/ run[x].at = "new" /\ run'[x].at = "ready" /\ run'[x].answered = 0
             \/ /\ run[x].at = "posted" /\ run'[x].at = "failed"
                /\ run'[x].plan = run[x].plan /\ run'[x].answered = run[x].answered
             \/ run'[x] = run[x]
  <2>0. DOMAIN run = Run BY DEF Types, ClientsOK
  <2>1. ASSUME NEW r \in Run, Start(r)
        PROVE  \/ run[x].at = "new" /\ run'[x].at = "ready" /\ run'[x].answered = 0
               \/ run'[x] = run[x]
    BY <2>0, <2>1 DEF Start
  <2>2. ASSUME NEW r \in Run, PostFails(r)
        PROVE  \/ run[x].at = "posted" /\ run'[x] = [run[x] EXCEPT !.at = "failed"]
               \/ run'[x] = run[x]
    BY <2>0, <2>2 DEF PostFails
  <2>3. ASSUME Restart
        PROVE  \/ run[x].at = "posted" /\ run'[x] = [run[x] EXCEPT !.at = "failed"]
               \/ run'[x] = run[x]
    BY <2>3 DEF Restart
  <2> QED BY <1>2, <2>1, <2>2, <2>3
<1>4. PostsNothing /\ AnswersNothing BY <1>1, <1>3 DEF PostsNothing, AnswersNothing
<1> QED BY <1>4, NothingPosted, NothingAnswered DEF Types

LEMMA InitBacked == Init => Backed
<1> SUFFICES ASSUME Init PROVE Backed OBVIOUS
<1>1. Elements(queue) = {} BY EmptySeq DEF Init, Elements
<1>2. Cardinality({}) = 0 BY FS_EmptySet
<1>3. Counted = 0 BY <1>2 DEF Init, Counted
<1> QED BY <1>1, <1>2, <1>3 DEF Init, Backed

(* What a step of the service does to the stored events and their count.    *)
StoresNothing == rows' = rows /\ Counted' = Counted

LEMMA BackedInductive ==
  ASSUME Types, Types', Backed, [Next]_vars
  PROVE  /\ Backed'
         /\ \/ \E S \in SUBSET Event : Log!Offer(S) \/ Log!Promise(S)
            \/ \E e \in Event : Log!Store(e)
            \/ UNCHANGED Log!vars
<1> DEFINE Abstract ==
      \/ \E S \in SUBSET Event : Log!Offer(S) \/ Log!Promise(S)
      \/ \E e \in Event : Log!Store(e)
      \/ UNCHANGED Log!vars
<1>1. ASSUME NEW r \in Run, Start(r) \/ PostFails(r) PROVE Backed' /\ Abstract
  <2>1. Offered' = Offered /\ Promised' = Promised BY <1>1, OthersKeep
  <2>2. UNCHANGED <<requests, serverVars, rows, lifeVars>> BY <1>1 DEF Start, PostFails
  <2>3. Counted' = Counted BY <2>2 DEF Counted, serverVars, workVars, lifeVars
  <2> QED BY <2>1, <2>2, <2>3 DEF Backed, serverVars, workVars, Log!vars
<1>2. ASSUME NEW r \in Run, Post(r) PROVE Backed' /\ Abstract
  <2> DEFINE S == Elements(run[r].plan[run[r].answered + 1])
  <2>1. S \subseteq Event /\ Offered' = Offered \cup S /\ Promised' = Promised
    BY <1>2, PostOffers
  <2>2. UNCHANGED <<serverVars, rows, lifeVars>> BY <1>2 DEF Post
  <2>3. Counted' = Counted BY <2>2 DEF Counted, serverVars, workVars, lifeVars
  <2>4. \A q \in requests' : Elements(q.batch) \subseteq Offered'
    BY <1>2, <2>1 DEF Post, Backed
  <2>5. Backed' BY <2>1, <2>2, <2>3, <2>4 DEF Backed, serverVars, workVars
  <2>6. Log!Offer(S) BY <2>1, <2>2, <2>3 DEF Log!Offer
  <2> QED BY <2>1, <2>5, <2>6
<1>3. ASSUME NEW q \in requests, Publish(q) PROVE Backed' /\ Abstract
  <2>1. Offered' = Offered /\ Promised' = Promised BY <1>3, OthersKeep DEF Publish
  <2>2. UNCHANGED <<workVars, rows, lifeVars>> BY <1>3 DEF Publish
  <2>3. Counted' = Counted BY <2>2 DEF Counted, workVars, lifeVars
  <2>4. q.batch \in Seq(Event) /\ queue \in Seq(Event)
    BY DEF Types, ClientsOK, ServerOK, Requests
  <2>5. Elements(queue') = Elements(queue) \cup Elements(q.batch)
    BY <1>3, <2>4, ElementsOfConcat DEF Publish
  <2>6. \A x \in requests' : \E y \in requests : x.batch = y.batch
    <3>1. [q EXCEPT !.queued = TRUE].batch = q.batch BY DEF Types, ClientsOK, Requests
    <3> QED BY <1>3, <3>1 DEF Publish
  <2>7. Backed' BY <2>1, <2>2, <2>3, <2>5, <2>6 DEF Backed, workVars
  <2> QED BY <2>1, <2>2, <2>3, <2>7 DEF Log!vars
<1>4. ASSUME NEW q \in requests, Respond(q) PROVE Backed' /\ Abstract
  <2>1. Offered' = Offered /\ Promised \subseteq Promised' BY <1>4, RespondPromises
  <2>2. UNCHANGED <<serverVars, rows, lifeVars>> /\ requests' \subseteq requests
    BY <1>4 DEF Respond
  <2>3. Counted' = Counted BY <2>2 DEF Counted, serverVars, workVars, lifeVars
  <2>4. Backed' BY <2>1, <2>2, <2>3 DEF Backed, serverVars, workVars
  <2>5. Promised' \subseteq Offered BY <2>1, PromisedIsOffered DEF Types
  <2>6. Offered \subseteq Event
    <3>1. ASSUME NEW e \in Offered PROVE e \in Event
      <4>1. PICK r \in Run : InPlan(e, run[r], Posted(run[r])) BY <3>1, OfferedMeans DEF Types
      <4>2. PICK i \in 1..Posted(run[r]) : e \in Elements(run[r].plan[i]) BY <4>1 DEF InPlan
      <4>3. run[r].at # "new" BY <4>2 DEF Posted
      <4>4. run[r].plan \in Plans /\ i \in 1..Len(run[r].plan)
        <5>1. /\ run[r].at \in {"ready", "posted", "failed"} /\ run[r].plan \in Plans
              /\ run[r].answered \in Nat /\ run[r].answered <= Len(run[r].plan)
              /\ run[r].at # "ready" => run[r].answered < Len(run[r].plan)
          BY <4>3, RunUnderWay DEF Types
        <5>2. Len(run[r].plan) \in Nat BY <5>1, PlanFacts
        <5> QED BY <4>2, <5>1, <5>2 DEF Posted
      <4> QED BY <4>2, <4>4, PlanFacts, ElementsMeans
    <3> QED BY <3>1
  <2>7. Log!Promise(Promised') BY <2>1, <2>2, <2>3, <2>5 DEF Log!Promise
  <2> QED BY <2>4, <2>5, <2>6, <2>7
<1>5. CASE Take
  <2>1. Offered' = Offered /\ Promised' = Promised BY <1>5, OthersKeep DEF Take, runVars
  <2>2. Head(queue) \in Elements(queue) /\ Elements(Tail(queue)) \subseteq Elements(queue)
    BY <1>5, ElementsOfTail DEF Take, Types, ServerOK
  <2>3. worker.at = "get" /\ worker'.at = "adding" /\ worker'.event = Head(queue)
    BY <1>5 DEF Take
  <2>4. UNCHANGED <<runVars, unique_processed, rows, lifeVars>> BY <1>5 DEF Take
  <2>5. Counted' = Counted BY <2>3, <2>4 DEF Counted, lifeVars
  <2>6. queue' = Tail(queue) BY <1>5 DEF Take
  <2>7. Backed' BY <2>1, <2>2, <2>3, <2>4, <2>5, <2>6 DEF Backed, runVars
  <2> QED BY <2>1, <2>4, <2>5, <2>7 DEF Log!vars
<1>6. CASE AddIfNew
  <2>1. Offered' = Offered /\ Promised' = Promised BY <1>6, OthersKeep DEF AddIfNew, runVars
  <2>2. /\ worker.at = "adding" /\ worker'.at = "added" /\ worker'.event = worker.event
        /\ worker'.inserted = (worker.event \notin rows) /\ rows' = rows \cup {worker.event}
        /\ UNCHANGED <<runVars, queue, unique_processed, lifeVars>>
    BY <1>6 DEF AddIfNew
  <2>3. worker.event \in Offered /\ worker.event \in Event
    BY <2>2, WorkerCases DEF Backed, Types
  <2>4. Cardinality(inherited) \in Nat /\ Cardinality(rows) \in Nat /\ IsFiniteSet(rows)
        /\ unique_processed \in Nat
    BY RowsAreFinite DEF Types, ServerOK
  <2>5. Counted = Cardinality(inherited) + unique_processed BY <2>2, <2>4 DEF Counted
  <2>6. CASE worker.event \in rows
    <3>1. rows' = rows BY <2>2, <2>6
    <3>20. ~worker'.inserted BY <2>2, <2>6
    <3>2. Counted' = Cardinality(inherited) + unique_processed
      BY <2>2, <2>4, <3>20 DEF Counted, lifeVars
    <3>3. Backed' BY <2>1, <2>2, <2>3, <2>5, <3>1, <3>2 DEF Backed, runVars
    <3> QED BY <2>1, <2>5, <3>1, <3>2, <3>3 DEF Log!vars
  <2>7. CASE worker.event \notin rows
    <3>1. Cardinality(rows') = Cardinality(rows) + 1 BY <2>2, <2>4, <2>7, FS_AddElement
    <3>2. Counted' = Counted + 1 BY <2>2, <2>4, <2>5, <2>7 DEF Counted, lifeVars
    <3>3. Backed'
      <4>1. Counted' = Cardinality(rows') BY <3>1, <3>2 DEF Backed
      <4> QED BY <2>1, <2>2, <2>3, <4>1 DEF Backed, runVars
    <3>4. Log!Store(worker.event) BY <2>1, <2>2, <2>3, <2>7, <3>2 DEF Log!Store
    <3> QED BY <2>3, <3>3, <3>4
  <2> QED BY <2>6, <2>7
<1>7. CASE Count
  <2>1. Offered' = Offered /\ Promised' = Promised BY <1>7, OthersKeep DEF Count, runVars
  <2>2. /\ worker.at = "added" /\ worker'.at = "get"
        /\ unique_processed' = IF worker.inserted THEN unique_processed + 1 ELSE unique_processed
        /\ UNCHANGED <<runVars, queue, rows, lifeVars>>
    BY <1>7 DEF Count
  <2>3. Cardinality(inherited) \in Nat /\ unique_processed \in Nat
    BY RowsAreFinite DEF Types, ServerOK
  <2>4. Counted' = Counted BY <2>2, <2>3 DEF Counted, lifeVars
  <2>5. Backed' BY <2>1, <2>2, <2>4 DEF Backed, runVars
  <2> QED BY <2>1, <2>2, <2>4, <2>5 DEF Log!vars
<1>8. CASE StoreRaises
  <2>1. Offered' = Offered /\ Promised' = Promised
    BY <1>8, OthersKeep DEF StoreRaises, runVars
  <2>2. /\ worker.at = "adding" /\ worker'.at = "dead"
        /\ UNCHANGED <<runVars, queue, unique_processed, rows, inherited>>
    BY <1>8 DEF StoreRaises
  <2>3. Counted' = Counted BY <2>2 DEF Counted
  <2>4. Backed' BY <2>1, <2>2, <2>3 DEF Backed, runVars
  <2> QED BY <2>1, <2>2, <2>3, <2>4 DEF Log!vars
<1>9. CASE Restart
  <2>1. Offered' = Offered /\ Promised' = Promised BY <1>9, OthersKeep
  <2>2. /\ requests' = {} /\ queue' = <<>> /\ unique_processed' = 0 /\ worker'.at = "get"
        /\ inherited' = rows /\ rows' = rows
    BY <1>9 DEF Restart
  <2>3. Cardinality(rows) \in Nat BY RowsAreFinite DEF Types
  <2>4. Counted' = Cardinality(rows) BY <2>2, <2>3 DEF Counted
  <2>5. Elements(queue') = {} BY <2>2, EmptySeq DEF Elements
  <2>6. Backed' BY <2>1, <2>2, <2>4, <2>5 DEF Backed
  <2> QED BY <2>1, <2>2, <2>4, <2>6 DEF Log!vars, Backed
<1>10. CASE UNCHANGED vars
  <2>1. Offered' = Offered /\ Promised' = Promised BY <1>10, OthersKeep DEF vars, runVars
  <2>2. Counted' = Counted BY <1>10 DEF vars, serverVars, workVars, lifeVars, Counted
  <2>3. Backed' BY <1>10, <2>1, <2>2 DEF vars, runVars, serverVars, workVars, Backed
  <2> QED BY <1>10, <2>1, <2>2, <2>3 DEF vars, Log!vars
<1> QED BY <1>1, <1>2, <1>3, <1>4, <1>5, <1>6, <1>7, <1>8, <1>9, <1>10
        DEF Next, WorkerStep

LEMMA InitIsInit == Init => Log!Init
<1> SUFFICES ASSUME Init PROVE Log!Init OBVIOUS
<1>1. Offered = {} /\ Promised = {} BY DEF Init, Offered, Promised
<1>2. Counted = 0 BY FS_EmptySet DEF Init, Counted
<1> QED BY <1>1, <1>2 DEF Init, Log!Init

(* Across restarts, lost answers, repeated runs and a store that raises, a *)
(* known event is never counted as new again, no row is lost, nothing is   *)
(* stored that was not sent, and no answer 200 is ever taken back.         *)
THEOREM Implements == Spec => ImplementsEventLog
<1>1. Types /\ Types' /\ Backed /\ [Next]_vars => Backed' /\ [Log!Next]_(Log!vars)
  BY BackedInductive DEF Log!Next
<1>2. Spec => []Types BY InitTypes, TypesInductive, PTL DEF Spec
<1>3. Spec => []Backed BY <1>1, <1>2, InitBacked, PTL DEF Spec
<1> QED BY <1>1, <1>2, <1>3, InitIsInit, PTL DEF Spec, ImplementsEventLog, Log!Spec
=============================================================================
