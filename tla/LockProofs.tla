----------------------------- MODULE LockProofs -----------------------------
(***************************************************************************)
(* Theorems about LockManager for any clients, resources and number of     *)
(* commands under way: type correctness, the consistency of the lock table *)
(* and that a grant stands until it is given back or revoked.              *)
(***************************************************************************)
EXTENDS LockManager, FiniteSetTheorems, SequenceTheorems, TLAPS

(***************************************************************************)
(* One lock: its holders h and its queue w.                                *)
(***************************************************************************)

HoldersOK(h) ==
  /\ DOMAIN h \subseteq Client
  /\ \A c \in DOMAIN h : h[c] \in {"shared", "exclusive"}

Alone(h) == \A c \in DOMAIN h : h[c] = "exclusive" => DOMAIN h = {c}

Blocked(h, w) ==
  w # <<>> => /\ DOMAIN h # {}
              /\ Head(w).mode = "exclusive" \/ ~AllShared(h)

NobodyTwice(w) == \A i, j \in DOMAIN w : w[i].client = w[j].client => i = j

(* _promote_waiters (lock_manager.py:240-264) leaves a lock well-formed     *)
(* and alone with its exclusive holder, and takes no holder off it.         *)
LEMMA JoinedHolders ==
  ASSUME NEW h, NEW w \in Seq(Waiter), NEW k \in Nat,
         HoldersOK(h), Alone(h), Promotes(h, w, k)
  PROVE  /\ HoldersOK(Joined(h, w, k))
         /\ Alone(Joined(h, w, k))
         /\ DOMAIN Joined(h, w, k) = DOMAIN h \cup Joins(w, k)
         /\ Joins(w, k) \subseteq Client
<1> DEFINE g == Joined(h, w, k)
<1>1. /\ Len(w) \in Nat /\ k <= Len(w)
      /\ \A i \in 1..k : w[i] \in Waiter
  BY ElementOfSeq, LenProperties DEF Promotes
<1>2. \A i \in 1..k : w[i].client \in Client /\ w[i].mode \in {"shared", "exclusive"}
  BY <1>1 DEF Waiter
<1>3. Joins(w, k) \subseteq Client BY <1>2 DEF Joins
<1>4. DOMAIN g = DOMAIN h \cup Joins(w, k) BY DEF Joined
<1>5. \A c \in DOMAIN g :
        g[c] = IF \E i \in 1..k : w[i] = [client |-> c, mode |-> "exclusive"] THEN "exclusive"
               ELSE IF c \in Joins(w, k) THEN "shared" ELSE h[c]
  BY DEF Joined
<1> HIDE DEF g
<1>6. HoldersOK(g)
  <2>1. DOMAIN g \subseteq Client BY <1>3, <1>4 DEF HoldersOK
  <2>2. \A c \in DOMAIN g : g[c] \in {"shared", "exclusive"}
    BY <1>4, <1>5 DEF HoldersOK
  <2> QED BY <2>1, <2>2 DEF HoldersOK
<1>7. Alone(g)
  <2>1. CASE k = 0
    <3>1. Joins(w, k) = {} BY <2>1 DEF Joins
    <3>2. DOMAIN g = DOMAIN h BY <3>1, <1>4
    <3>3. \A c \in DOMAIN g : g[c] = h[c] BY <3>1, <3>2, <2>1, <1>5
    <3> QED BY <3>2, <3>3 DEF Alone
  <2>2. CASE k = 1 /\ DOMAIN h = {}
    <3>1. Joins(w, k) = {w[1].client} BY <2>2 DEF Joins
    <3> QED BY <3>1, <1>4, <2>2 DEF Alone
  <2>3. CASE AllShared(h) /\ \A i \in 1..k : w[i].mode = "shared"
    <3>1. \A c \in DOMAIN g : g[c] = "shared"
      <4> SUFFICES ASSUME NEW c \in DOMAIN g PROVE g[c] = "shared" OBVIOUS
      <4>1. ~\E i \in 1..k : w[i] = [client |-> c, mode |-> "exclusive"]
        BY <2>3
      <4>2. CASE c \in Joins(w, k) BY <4>1, <4>2, <1>5
      <4>3. CASE c \notin Joins(w, k)
        BY <4>1, <4>3, <1>4, <1>5, <2>3 DEF AllShared
      <4> QED BY <4>2, <4>3
    <3> QED BY <3>1 DEF Alone
  <2> QED BY <2>1, <2>2, <2>3 DEF Promotes, CanJoin
<1> QED BY <1>3, <1>4, <1>6, <1>7 DEF g

(* It stops only at a waiter that is really blocked.                        *)
LEMMA RestIsBlocked ==
  ASSUME NEW h, NEW w \in Seq(Waiter), NEW k \in Nat,
         HoldersOK(h), NobodyTwice(w), Promotes(h, w, k)
  PROVE  LET rest == SubSeq(w, k + 1, Len(w))
         IN  rest \in Seq(Waiter) /\ Blocked(Joined(h, w, k), rest) /\ NobodyTwice(rest)
<1> DEFINE g == Joined(h, w, k)
           rest == SubSeq(w, k + 1, Len(w))
<1>1. /\ Len(w) \in Nat /\ k <= Len(w) /\ DOMAIN w = 1..Len(w)
      /\ \A i \in 1..Len(w) : w[i] \in Waiter
  BY ElementOfSeq, LenProperties DEF Promotes
<1>2. /\ rest \in Seq(Waiter)
      /\ Len(rest) = Len(w) - k
      /\ \A i \in 1..Len(rest) : rest[i] = w[k + i]
  <2>1. \A i \in k + 1 .. Len(w) : w[i] \in Waiter BY <1>1
  <2>2. k + 1 \in Int /\ Len(w) \in Int BY <1>1
  <2>3. /\ SubSeq(w, k + 1, Len(w)) \in Seq(Waiter)
        /\ Len(SubSeq(w, k + 1, Len(w))) = IF k + 1 <= Len(w) THEN Len(w) - (k + 1) + 1 ELSE 0
        /\ \A i \in 1 .. Len(w) - (k + 1) + 1 : SubSeq(w, k + 1, Len(w))[i] = w[k + 1 + i - 1]
    BY <2>1, <2>2, SubSeqProperties
  <2>4. /\ k + 1 <= Len(w) => Len(w) - (k + 1) + 1 = Len(w) - k
        /\ ~(k + 1 <= Len(w)) => 0 = Len(w) - k
    <3> DEFINE n == Len(w)
    <3>1. n \in Nat /\ k <= n BY <1>1
    <3> HIDE DEF n
    <3>2. /\ k + 1 <= n => n - (k + 1) + 1 = n - k
          /\ ~(k + 1 <= n) => 0 = n - k
      BY <3>1
    <3> QED BY <3>2 DEF n
  <2>5. Len(w) - (k + 1) + 1 = Len(w) - k /\ \A i \in 1..(Len(w) - k) : k + 1 + i - 1 = k + i
    BY <1>1
  <2> HIDE DEF rest
  <2>6. Len(rest) = Len(w) - k BY <2>3, <2>4, Zenon DEF rest
  <2>7. \A i \in 1..(Len(w) - k) : rest[i] = w[k + 1 + i - 1] BY <2>3, <2>5, Zenon DEF rest
  <2>8. \A i \in 1..Len(rest) : rest[i] = w[k + i] BY <2>5, <2>6, <2>7
  <2>9. rest \in Seq(Waiter) BY <2>3, Zenon DEF rest
  <2> QED BY <2>6, <2>8, <2>9
<1>3. DOMAIN rest = 1..Len(rest) /\ Len(rest) \in Nat BY <1>2, LenProperties
<1>4. /\ DOMAIN g = DOMAIN h \cup Joins(w, k)
      /\ \A c \in DOMAIN g :
           g[c] = IF \E i \in 1..k : w[i] = [client |-> c, mode |-> "exclusive"] THEN "exclusive"
                  ELSE IF c \in Joins(w, k) THEN "shared" ELSE h[c]
  BY DEF Joined
<1> HIDE DEF g, rest
<1>5. NobodyTwice(rest)
  <2> SUFFICES ASSUME NEW i \in DOMAIN rest, NEW j \in DOMAIN rest,
                      rest[i].client = rest[j].client
               PROVE  i = j
    BY DEF NobodyTwice
  <2>1. k + i \in DOMAIN w /\ k + j \in DOMAIN w BY <1>1, <1>2, <1>3
  <2>2. w[k + i].client = w[k + j].client BY <1>2, <1>3
  <2>3. k + i = k + j BY <2>1, <2>2 DEF NobodyTwice
  <2> QED BY <2>3, <1>3
<1>6. Blocked(g, rest)
  <2> SUFFICES ASSUME rest # <<>>
               PROVE  DOMAIN g # {} /\ (Head(rest).mode = "exclusive" \/ ~AllShared(g))
    BY DEF Blocked
  <2>1. Len(rest) > 0 BY <1>2, <1>3, EmptySeq
  <2>2. k < Len(w) /\ Head(rest) = w[k + 1]
    BY <2>1, <1>1, <1>2, <1>3
  <2>3. ~CanJoin(h, w, k + 1) BY <2>2 DEF Promotes
  <2>4. DOMAIN g # {}
    <3>1. CASE k = 0
      <4>1. ~CanJoin(h, w, 1) BY <3>1, <2>3
      <4> QED BY <4>1, <1>4 DEF CanJoin
    <3>2. CASE k # 0
      <4>1. w[1].client \in Joins(w, k) BY <3>2 DEF Joins
      <4> QED BY <4>1, <1>4
    <3> QED BY <3>1, <3>2
  <2>5. ASSUME AllShared(g), w[k + 1].mode # "exclusive" PROVE FALSE
    <3>1. \A i \in 1..k : w[i].mode = "shared"
      <4> SUFFICES ASSUME NEW i \in 1..k, w[i].mode # "shared" PROVE FALSE OBVIOUS
      <4>1. w[i] \in Waiter BY <1>1
      <4>2. w[i] = [client |-> w[i].client, mode |-> "exclusive"] BY <4>1 DEF Waiter
      <4>3. w[i].client \in DOMAIN g BY <1>4 DEF Joins
      <4>4. g[w[i].client] = "exclusive" BY <4>2, <4>3, <1>4
      <4> QED BY <4>3, <4>4, <2>5 DEF AllShared
    <3>2. w[k + 1].mode = "shared"
      <4>1. w[k + 1] \in Waiter BY <2>2, <1>1
      <4> QED BY <4>1, <2>5 DEF Waiter
    <3>3. \A i \in 1..(k + 1) : w[i].mode = "shared" BY <3>1, <3>2
    <3>4. ~AllShared(h) BY <3>3, <2>3 DEF CanJoin
    <3>5. k = 0 \/ DOMAIN h = {}
      BY <3>4 DEF Promotes, CanJoin
    <3>6. CASE DOMAIN h = {} BY <3>6, <3>4 DEF AllShared
    <3>7. CASE k = 0
      <4>1. Joins(w, k) = {} BY <3>7 DEF Joins
      <4>2. \A c \in DOMAIN h : c \in DOMAIN g /\ g[c] = h[c] BY <4>1, <3>7, <1>4
      <4> QED BY <4>2, <3>4, <2>5 DEF AllShared
    <3> QED BY <3>5, <3>6, <3>7
  <2> QED BY <2>2, <2>4, <2>5
<1> QED BY <1>2, <1>5, <1>6 DEF g, rest

(***************************************************************************)
(* The table: what an acquire and a release do to all locks.               *)
(***************************************************************************)

TableType ==
  /\ DOMAIN holders = Resource
  /\ \A r \in Resource : HoldersOK(holders[r])
  /\ waiters \in [Resource -> Seq(Waiter)]
  /\ client_locks \in [Client -> SUBSET Resource]

TableInv == ExclusiveIsAlone /\ FirstWaiterIsBlocked /\ ClientLocksMirrorHolders

LEMMA TypeOfTable == TypeOK => TableType
BY DEF TypeOK, TableType, HoldersOK

(* The table invariants, lock by lock. *)
LEMMA LockByLock ==
  TableInv <=> /\ \A r \in Resource : /\ Alone(holders[r])
                                      /\ Blocked(holders[r], waiters[r])
                                      /\ NobodyTwice(waiters[r])
               /\ ClientLocksMirrorHolders
BY DEF TableInv, ExclusiveIsAlone, FirstWaiterIsBlocked, Alone, Blocked, NobodyTwice

(* A lock without c, before its queue moves. *)
LEMMA WithoutHolders ==
  ASSUME NEW h, HoldersOK(h), Alone(h), NEW c
  PROVE  /\ HoldersOK(Without(h, c)) /\ Alone(Without(h, c))
         /\ DOMAIN Without(h, c) = DOMAIN h \ {c}
<1>1. /\ DOMAIN Without(h, c) = DOMAIN h \ {c}
      /\ \A x \in DOMAIN h \ {c} : Without(h, c)[x] = h[x]
  BY DEF Without
<1> QED BY <1>1 DEF HoldersOK, Alone

(* _do_release and _do_release_all (lock_manager.py:218-238) keep the table *)
(* consistent and take only c off the locks R.                              *)
LEMMA VacateKeeps ==
  ASSUME TableType, TableInv, NEW c \in Client, NEW R \in SUBSET Resource,
         \A r \in R : Holds(c, r), Vacate(c, R)
  PROVE  /\ TableType' /\ TableInv'
         /\ \A x \in Client, r \in Resource :
              Holds(x, r) /\ ~(x = c /\ r \in R) => Holds(x, r)'
<1>1. PICK n \in [R -> 0..Cardinality(Client)] :
        /\ \A r \in R : Promotes(Without(holders[r], c), waiters[r], n[r])
        /\ holders' = [r \in Resource |->
             IF r \in R THEN Joined(Without(holders[r], c), waiters[r], n[r]) ELSE holders[r]]
        /\ waiters' = [r \in Resource |->
             IF r \in R THEN SubSeq(waiters[r], n[r] + 1, Len(waiters[r])) ELSE waiters[r]]
        /\ client_locks' = [x \in Client |->
             (IF x = c THEN client_locks[x] \ R ELSE client_locks[x])
               \cup {r \in R : x \in Joins(waiters[r], n[r])}]
  BY DEF Vacate
<1>2. \A r \in R : n[r] \in Nat OBVIOUS
<1>3. \A r \in Resource : /\ HoldersOK(holders[r]) /\ waiters[r] \in Seq(Waiter)
                          /\ Alone(holders[r]) /\ Blocked(holders[r], waiters[r])
                          /\ NobodyTwice(waiters[r])
  BY LockByLock DEF TableType
<1>4. ASSUME NEW r \in R
      PROVE  /\ HoldersOK(holders'[r]) /\ Alone(holders'[r])
             /\ DOMAIN holders'[r] = (DOMAIN holders[r] \ {c}) \cup Joins(waiters[r], n[r])
             /\ waiters'[r] \in Seq(Waiter)
             /\ Blocked(holders'[r], waiters'[r]) /\ NobodyTwice(waiters'[r])
  <2> DEFINE h == Without(holders[r], c)
  <2>1. /\ HoldersOK(h) /\ Alone(h) /\ DOMAIN h = DOMAIN holders[r] \ {c}
    BY <1>3, WithoutHolders
  <2>2. /\ holders'[r] = Joined(h, waiters[r], n[r])
        /\ waiters'[r] = SubSeq(waiters[r], n[r] + 1, Len(waiters[r]))
        /\ Promotes(h, waiters[r], n[r])
    BY <1>1
  <2>3. n[r] \in Nat /\ waiters[r] \in Seq(Waiter) /\ NobodyTwice(waiters[r]) BY <1>2, <1>3
  <2> HIDE DEF h
  <2>4. /\ HoldersOK(holders'[r]) /\ Alone(holders'[r])
        /\ DOMAIN holders'[r] = DOMAIN h \cup Joins(waiters[r], n[r])
    <3>1. /\ HoldersOK(Joined(h, waiters[r], n[r])) /\ Alone(Joined(h, waiters[r], n[r]))
          /\ DOMAIN Joined(h, waiters[r], n[r]) = DOMAIN h \cup Joins(waiters[r], n[r])
          /\ Joins(waiters[r], n[r]) \subseteq Client
      <4> DEFINE w == waiters[r]
                 k == n[r]
      <4>1. w \in Seq(Waiter) /\ k \in Nat /\ HoldersOK(h) /\ Alone(h) /\ Promotes(h, w, k)
        BY <2>1, <2>2, <2>3
      <4> HIDE DEF w, k
      <4>2. /\ HoldersOK(Joined(h, w, k)) /\ Alone(Joined(h, w, k))
            /\ DOMAIN Joined(h, w, k) = DOMAIN h \cup Joins(w, k)
            /\ Joins(w, k) \subseteq Client
        BY <4>1, JoinedHolders
      <4> QED BY <4>2 DEF w, k
    <3> QED BY <3>1, <2>2
  <2>5. /\ waiters'[r] \in Seq(Waiter)
        /\ Blocked(holders'[r], waiters'[r]) /\ NobodyTwice(waiters'[r])
    BY <2>1, <2>2, <2>3, RestIsBlocked
  <2> QED BY <2>1, <2>4, <2>5
<1>5. ASSUME NEW r \in Resource \ R
      PROVE  holders'[r] = holders[r] /\ waiters'[r] = waiters[r]
  BY <1>1
<1>6. TableType'
  <2>1. DOMAIN holders' = Resource BY <1>1
  <2>2. \A r \in Resource : HoldersOK(holders'[r]) BY <1>3, <1>4, <1>5
  <2>3. \A r \in Resource : waiters'[r] \in Seq(Waiter) BY <1>3, <1>4, <1>5
  <2>4. waiters' \in [Resource -> Seq(Waiter)] BY <1>1, <2>3
  <2>5. client_locks' \in [Client -> SUBSET Resource] BY <1>1 DEF TableType
  <2> QED BY <2>1, <2>2, <2>4, <2>5 DEF TableType, HoldersOK
<1>7. ClientLocksMirrorHolders'
  <2> SUFFICES ASSUME NEW x \in Client, NEW r \in Resource
               PROVE  r \in client_locks'[x] <=> x \in DOMAIN holders'[r]
    BY <1>6 DEF ClientLocksMirrorHolders, TableType, Holds
  <2>1. r \in client_locks[x] <=> x \in DOMAIN holders[r]
    BY DEF TableInv, ClientLocksMirrorHolders, Holds
  <2>2. client_locks'[x] = (IF x = c THEN client_locks[x] \ R ELSE client_locks[x])
                             \cup {q \in R : x \in Joins(waiters[q], n[q])}
    BY <1>1
  <2>3. CASE r \in R BY <2>1, <2>2, <2>3, <1>4
  <2>4. CASE r \notin R BY <2>1, <2>2, <2>4, <1>5
  <2> QED BY <2>3, <2>4
<1>8. TableInv'
  <2>1. \A r \in Resource : /\ Alone(holders'[r])
                            /\ Blocked(holders'[r], waiters'[r])
                            /\ NobodyTwice(waiters'[r])
    BY <1>3, <1>4, <1>5
  <2> QED BY <2>1, <1>7 DEF TableInv, ExclusiveIsAlone, FirstWaiterIsBlocked,
                            Alone, Blocked, NobodyTwice
<1>9. \A x \in Client, r \in Resource :
        Holds(x, r) /\ ~(x = c /\ r \in R) => Holds(x, r)'
  <2> SUFFICES ASSUME NEW x \in Client, NEW r \in Resource,
                      Holds(x, r), ~(x = c /\ r \in R)
               PROVE  x \in DOMAIN holders'[r]
    BY DEF Holds
  <2>1. CASE r \in R BY <2>1, <1>4 DEF Holds
  <2>2. CASE r \notin R BY <2>2, <1>5 DEF Holds
  <2> QED BY <2>1, <2>2
<1> QED BY <1>6, <1>8, <1>9

(* _do_acquire (lock_manager.py:176-216) keeps the table consistent, takes  *)
(* nobody off a lock, and answers "ok" only when the client holds it.       *)
LEMMA AcquireKeeps ==
  ASSUME TableType, TableInv, NEW c \in Client, NEW r \in Resource, NEW mode \in Mode,
         NEW ok \in BOOLEAN, DoAcquire(c, r, mode, ok)
  PROVE  /\ TableType' /\ TableInv'
         /\ \A x \in Client, q \in Resource : Holds(x, q) => Holds(x, q)'
         /\ ok => Holds(c, r)'
<1>1. mode \in {"shared", "exclusive"} BY LockAssumption
<1>2. \A q \in Resource : /\ HoldersOK(holders[q]) /\ waiters[q] \in Seq(Waiter)
                          /\ Alone(holders[q]) /\ Blocked(holders[q], waiters[q])
                          /\ NobodyTwice(waiters[q])
  BY LockByLock DEF TableType
<1>3. CASE ok
  <2> DEFINE h == holders[r]
             g == Held(h, c, mode)
  <2>1. /\ holders' = [holders EXCEPT ![r] = g] /\ waiters' = waiters
        /\ client_locks' = [client_locks EXCEPT ![c] = @ \cup {r}]
        /\ DOMAIN h = {} \/ (mode = "shared" /\ AllShared(h))
    BY <1>3 DEF DoAcquire
  <2>2. /\ holders'[r] = g /\ DOMAIN holders' = Resource
        /\ \A q \in Resource \ {r} : holders'[q] = holders[q]
    BY <2>1 DEF TableType
  <2>3. /\ DOMAIN g = DOMAIN h \cup {c}
        /\ \A x \in DOMAIN g : g[x] = IF x = c THEN mode ELSE h[x]
    BY DEF Held
  <2>4. HoldersOK(h) /\ Alone(h) /\ Blocked(h, waiters[r]) BY <1>2
  <2> HIDE DEF h, g
  <2>5. HoldersOK(g) BY <1>1, <2>3, <2>4 DEF HoldersOK
  <2>6. Alone(g) BY <2>1, <2>3, <2>4 DEF Alone, AllShared
  <2>7. Blocked(g, waiters[r]) BY <2>1, <2>3, <2>4 DEF Blocked, AllShared
  <2>8. TableType'
    <3>1. \A q \in Resource : HoldersOK(holders'[q]) BY <1>2, <2>2, <2>5
    <3>2. client_locks' \in [Client -> SUBSET Resource] BY <2>1 DEF TableType
    <3> QED BY <3>1, <3>2, <2>1, <2>2 DEF TableType, HoldersOK
  <2>9. ClientLocksMirrorHolders'
    <3> SUFFICES ASSUME NEW x \in Client, NEW q \in Resource
                 PROVE  q \in client_locks'[x] <=> x \in DOMAIN holders'[q]
      BY <2>8 DEF ClientLocksMirrorHolders, TableType, Holds
    <3>1. q \in client_locks[x] <=> x \in DOMAIN holders[q]
      BY DEF TableInv, ClientLocksMirrorHolders, Holds
    <3>2. client_locks'[x] = IF x = c THEN client_locks[x] \cup {r} ELSE client_locks[x]
      BY <2>1 DEF TableType
    <3>3. CASE q = r BY <3>1, <3>2, <3>3, <2>2, <2>3 DEF h
    <3>4. CASE q # r BY <3>1, <3>2, <3>4, <2>2
    <3> QED BY <3>3, <3>4
  <2>10. TableInv'
    <3>1. \A q \in Resource : /\ Alone(holders'[q])
                              /\ Blocked(holders'[q], waiters'[q])
                              /\ NobodyTwice(waiters'[q])
      BY <1>2, <2>1, <2>2, <2>6, <2>7
    <3> QED BY <3>1, <2>9 DEF TableInv, ExclusiveIsAlone, FirstWaiterIsBlocked,
                              Alone, Blocked, NobodyTwice
  <2>11. \A x \in Client, q \in Resource : Holds(x, q) => Holds(x, q)'
    <3> SUFFICES ASSUME NEW x \in Client, NEW q \in Resource, x \in DOMAIN holders[q]
                 PROVE  x \in DOMAIN holders'[q]
      BY DEF Holds
    <3> QED BY <2>2, <2>3 DEF h
  <2>12. Holds(c, r)' BY <2>2, <2>3 DEF Holds
  <2> QED BY <2>8, <2>10, <2>11, <2>12
<1>4. CASE ~ok
  <2>1. /\ holders' = holders /\ client_locks' = client_locks
        /\ waiters' = IF Waits(c, r) THEN waiters
                      ELSE [waiters EXCEPT ![r] = Append(@, [client |-> c, mode |-> mode])]
        /\ DOMAIN holders[r] # {} /\ (mode = "exclusive" \/ ~AllShared(holders[r]))
    BY <1>1, <1>4 DEF DoAcquire
  <2>2. /\ waiters'[r] \in Seq(Waiter)
        /\ Blocked(holders[r], waiters'[r]) /\ NobodyTwice(waiters'[r])
    <3>1. CASE Waits(c, r) BY <3>1, <2>1, <1>2
    <3>2. CASE ~Waits(c, r)
      <4> DEFINE w == waiters[r]
                 e == [client |-> c, mode |-> mode]
      <4>1. waiters'[r] = Append(w, e) BY <3>2, <2>1 DEF TableType
      <4>2. w \in Seq(Waiter) /\ e \in Waiter BY <1>1, <1>2 DEF Waiter
      <4>3. /\ Append(w, e) \in Seq(Waiter)
            /\ Len(Append(w, e)) = Len(w) + 1
            /\ \A i \in 1..Len(w) : Append(w, e)[i] = w[i]
            /\ Append(w, e)[Len(w) + 1] = e
        BY <4>2, AppendProperties
      <4>4. DOMAIN w = 1..Len(w) /\ Len(w) \in Nat BY <4>2, LenProperties
      <4>5. DOMAIN Append(w, e) = 1..(Len(w) + 1) BY <4>3, LenProperties
      <4>6. Head(Append(w, e)) = IF w = <<>> THEN e ELSE Head(w)
        BY <4>2, HeadTailAppend
      <4>7. \A i \in 1..Len(w) : w[i].client # c BY <3>2, <4>4 DEF Waits
      <4>8. e.client = c /\ e.mode = mode OBVIOUS
      <4>9. Blocked(holders[r], w) /\ NobodyTwice(w) BY <1>2
      <4> HIDE DEF w, e
      <4>10. Blocked(holders[r], Append(w, e))
        BY <4>6, <4>8, <4>9, <2>1 DEF Blocked
      <4>11. NobodyTwice(Append(w, e))
        <5> SUFFICES ASSUME NEW i \in 1..(Len(w) + 1), NEW j \in 1..(Len(w) + 1),
                            Append(w, e)[i].client = Append(w, e)[j].client
                     PROVE  i = j
          BY <4>5 DEF NobodyTwice
        <5>1. CASE i = Len(w) + 1 /\ j = Len(w) + 1 BY <5>1
        <5>2. CASE i = Len(w) + 1 /\ j # Len(w) + 1
          <6>1. j \in 1..Len(w) BY <5>2, <4>4
          <6> QED BY <6>1, <5>2, <4>3, <4>7, <4>8
        <5>3. CASE i # Len(w) + 1 /\ j = Len(w) + 1
          <6>1. i \in 1..Len(w) BY <5>3, <4>4
          <6> QED BY <6>1, <5>3, <4>3, <4>7, <4>8
        <5>4. CASE i # Len(w) + 1 /\ j # Len(w) + 1
          <6>1. i \in 1..Len(w) /\ j \in 1..Len(w) BY <5>4, <4>4
          <6> QED BY <6>1, <4>3, <4>4, <4>9 DEF NobodyTwice
        <5> QED BY <5>1, <5>2, <5>3, <5>4
      <4> QED BY <4>1, <4>3, <4>10, <4>11
    <3> QED BY <3>1, <3>2
  <2>3. /\ waiters' \in [Resource -> Seq(Waiter)]
        /\ \A q \in Resource \ {r} : waiters'[q] = waiters[q]
    <3>1. CASE Waits(c, r) BY <3>1, <2>1 DEF TableType
    <3>2. CASE ~Waits(c, r)
      <4>1. waiters' = [waiters EXCEPT ![r] = waiters'[r]] BY <3>2, <2>1 DEF TableType
      <4>2. waiters'[r] \in Seq(Waiter) BY <2>2
      <4> QED BY <4>1, <4>2 DEF TableType
    <3> QED BY <3>1, <3>2
  <2>4. TableType' BY <2>1, <2>3 DEF TableType, HoldersOK
  <2>5. TableInv'
    <3>1. \A q \in Resource : /\ Alone(holders'[q])
                              /\ Blocked(holders'[q], waiters'[q])
                              /\ NobodyTwice(waiters'[q])
      BY <1>2, <2>1, <2>2, <2>3
    <3>2. ClientLocksMirrorHolders'
      BY <2>1 DEF TableInv, ClientLocksMirrorHolders, Holds
    <3> QED BY <3>1, <3>2 DEF TableInv, ExclusiveIsAlone, FirstWaiterIsBlocked,
                              Alone, Blocked, NobodyTwice
  <2> QED BY <1>4, <2>1, <2>4, <2>5 DEF Holds
<1> QED BY <1>3, <1>4

(***************************************************************************)
(* Commands and calls.                                                     *)
(***************************************************************************)

LEMMA CommandFields ==
  ASSUME NEW cmd \in Command
  PROVE  /\ cmd.client \in Client /\ cmd.awaited \in BOOLEAN
         /\ cmd.op = "acquire" => /\ cmd.resource \in Resource /\ cmd.mode \in Mode
                                  /\ cmd.by = "client"
         /\ cmd.op = "release" => cmd.resource \in Resource
         /\ [cmd EXCEPT !.awaited = FALSE] \in Command
BY DEF Command

(* What a submitted command leaves: one more command, the table untouched   *)
(* (raft.py:417-435).                                                       *)
LEMMA SubmitAppends ==
  ASSUME underWay \in Seq(Command), NEW cmd \in Command, Submit(cmd)
  PROVE  /\ underWay' \in Seq(Command)
         /\ Len(underWay') = Len(underWay) + 1 /\ Len(underWay) \in Nat
         /\ DOMAIN underWay = 1..Len(underWay) /\ DOMAIN underWay' = 1..(Len(underWay) + 1)
         /\ \A i \in 1..Len(underWay) : underWay'[i] = underWay[i]
         /\ underWay'[Len(underWay) + 1] = cmd
         /\ UNCHANGED <<tableVars, detectVars>>
<1>1. underWay' = Append(underWay, cmd) /\ UNCHANGED <<tableVars, detectVars>> BY DEF Submit
<1>2. /\ Append(underWay, cmd) \in Seq(Command)
      /\ Len(Append(underWay, cmd)) = Len(underWay) + 1
      /\ \A i \in 1..Len(underWay) : Append(underWay, cmd)[i] = underWay[i]
      /\ Append(underWay, cmd)[Len(underWay) + 1] = cmd
  BY AppendProperties
<1>3. DOMAIN underWay = 1..Len(underWay) /\ Len(underWay) \in Nat BY LenProperties
<1>4. DOMAIN underWay' = 1..Len(underWay') BY <1>1, <1>2, LenProperties
<1> QED BY <1>1, <1>2, <1>3, <1>4

(* The command whose submitter stops waiting for it.                        *)
LEMMA AbandonOne ==
  ASSUME underWay \in Seq(Command), NEW i \in DOMAIN underWay,
         underWay' = [underWay EXCEPT ![i].awaited = FALSE]
  PROVE  /\ underWay' \in Seq(Command) /\ DOMAIN underWay' = DOMAIN underWay
         /\ underWay'[i] = [underWay[i] EXCEPT !.awaited = FALSE]
         /\ \A j \in DOMAIN underWay \ {i} : underWay'[j] = underWay[j]
         /\ underWay[i] \in Command
<1>1. underWay[i] \in Command /\ i \in 1..Len(underWay) BY ElementOfSeq, LenProperties
<1>2. [underWay[i] EXCEPT !.awaited = FALSE] \in Command BY <1>1, CommandFields
<1>3. underWay' = [underWay EXCEPT ![i] = [underWay[i] EXCEPT !.awaited = FALSE]] OBVIOUS
<1> DEFINE e == [underWay[i] EXCEPT !.awaited = FALSE]
<1>4. underWay' = [underWay EXCEPT ![i] = e] /\ e \in Command BY <1>2, <1>3
<1> HIDE DEF e
<1>5. underWay' \in Seq(Command)
  <2>1. e \in Command /\ i \in 1..Len(underWay) BY <1>1, <1>4
  <2>2. [underWay EXCEPT ![i] = e] \in Seq(Command) BY <2>1, ExceptSeq, Zenon
  <2> QED BY <2>2, <1>4
<1>6. /\ DOMAIN underWay' = DOMAIN underWay /\ underWay'[i] = e
      /\ \A j \in DOMAIN underWay \ {i} : underWay'[j] = underWay[j]
  BY <1>4
<1> QED BY <1>1, <1>5, <1>6 DEF e

(* The oldest command is taken off; the others move up.                     *)
LEMMA TakeOldest ==
  ASSUME underWay \in Seq(Command), underWay # <<>>, underWay' = Tail(underWay)
  PROVE  /\ Head(underWay) \in Command /\ Head(underWay) = underWay[1]
         /\ underWay' \in Seq(Command) /\ Len(underWay) \in Nat \ {0}
         /\ DOMAIN underWay = 1..Len(underWay) /\ DOMAIN underWay' = 1..(Len(underWay) - 1)
         /\ \A i \in DOMAIN underWay' : underWay'[i] = underWay[i + 1]
<1>1. /\ Head(underWay) \in Command /\ Tail(underWay) \in Seq(Command)
      /\ Len(Tail(underWay)) = Len(underWay) - 1
      /\ \A i \in 1..Len(Tail(underWay)) : Tail(underWay)[i] = underWay[i + 1]
  BY HeadTailProperties
<1>2. Len(underWay) \in Nat \ {0} /\ DOMAIN underWay = 1..Len(underWay)
  BY EmptySeq, LenProperties
<1>3. DOMAIN Tail(underWay) = 1..Len(Tail(underWay)) BY <1>1, LenProperties
<1>4. Head(underWay) = underWay[1] OBVIOUS
<1> QED BY <1>1, <1>2, <1>3, <1>4

(***************************************************************************)
(* Applying a command.                                                     *)
(***************************************************************************)

(* Nobody but the client of a release leaves a lock.                        *)
LEMMA ReleaseKeeps ==
  ASSUME TableType, TableInv, NEW cmd \in Command, ApplyRelease(cmd)
  PROVE  /\ TableType' /\ TableInv'
         /\ \A x \in Client, q \in Resource :
              /\ Holds(x, q)
              /\ x # cmd.client \/ (cmd.op = "release" /\ q # cmd.resource)
              => Holds(x, q)'
<1>1. cmd.client \in Client /\ (cmd.op = "release" => cmd.resource \in Resource)
  BY CommandFields
<1>2. CASE cmd.op = "release" /\ Holds(cmd.client, cmd.resource)
  <2>1. Vacate(cmd.client, {cmd.resource}) BY <1>2 DEF ApplyRelease, DoRelease
  <2>2. {cmd.resource} \in SUBSET Resource BY <1>1, <1>2
  <2>3. \A r \in {cmd.resource} : Holds(cmd.client, r) BY <1>2
  <2>4. /\ TableType' /\ TableInv'
        /\ \A x \in Client, r \in Resource :
             Holds(x, r) /\ ~(x = cmd.client /\ r \in {cmd.resource}) => Holds(x, r)'
    BY <1>1, <2>1, <2>2, <2>3, VacateKeeps
  <2> QED BY <2>4
<1>3. CASE cmd.op = "release" /\ ~Holds(cmd.client, cmd.resource)
  <2>1. UNCHANGED <<holders, waiters, client_locks>>
    BY <1>3 DEF ApplyRelease, DoRelease, tableVars
  <2> QED BY <2>1 DEF TableType, HoldersOK, TableInv, ExclusiveIsAlone, FirstWaiterIsBlocked,
                      ClientLocksMirrorHolders, Holds, AllShared
<1>4. CASE cmd.op # "release"
  <2> DEFINE R == {r \in client_locks[cmd.client] : Holds(cmd.client, r)}
  <2>1. Vacate(cmd.client, R) BY <1>4 DEF ApplyRelease, DoReleaseAll
  <2>2. R \in SUBSET Resource BY <1>1 DEF TableType
  <2>3. \A r \in R : Holds(cmd.client, r) OBVIOUS
  <2> HIDE DEF R
  <2>4. /\ TableType' /\ TableInv'
        /\ \A x \in Client, r \in Resource :
             Holds(x, r) /\ ~(x = cmd.client /\ r \in R) => Holds(x, r)'
    BY <1>1, <2>1, <2>2, <2>3, VacateKeeps
  <2> QED BY <2>4, <1>4
<1> QED BY <1>2, <1>3, <1>4

(***************************************************************************)
(* Type correctness and the table invariants, step by step.                *)
(***************************************************************************)

(* The part of TypeOK outside the table. *)
RestType ==
  /\ wait_for \subseteq Client \X Client
  /\ client_age \subseteq Client \X Client
  /\ underWay \in Seq(Command)
  /\ call \in [Client -> Call]
  /\ expired \subseteq Client \X Resource
  /\ granted \in [Client -> SUBSET Resource]
  /\ revoked \in [Client -> SUBSET Resource]

LEMMA TypeParts == TypeOK <=> TableType /\ RestType
BY DEF TypeOK, TableType, RestType, HoldersOK

Inv == TypeOK /\ TableInv

LEMMA InitInv == Init => Inv
<1> SUFFICES ASSUME Init PROVE Inv OBVIOUS
<1>1. \A r \in Resource : holders[r] = [c \in {} |-> "shared"] /\ waiters[r] = <<>>
  BY DEF Init
<1>2. \A r \in Resource : DOMAIN holders[r] = {} /\ HoldersOK(holders[r])
  BY <1>1 DEF HoldersOK
<1>3. TableType BY <1>2, EmptySeq DEF Init, TableType
<1>4. RestType BY EmptySeq DEF Init, RestType, Call, Idle
<1>5. TableInv
  <2>1. \A r \in Resource : DOMAIN waiters[r] = {} BY <1>1
  <2> QED BY <1>1, <1>2, <2>1 DEF Init, TableInv, ExclusiveIsAlone, FirstWaiterIsBlocked,
                              ClientLocksMirrorHolders, Holds
<1> QED BY <1>3, <1>4, <1>5, TypeParts DEF Inv

(* A step that leaves the table alone. *)
LEMMA TableUntouched ==
  ASSUME Inv, UNCHANGED <<tableVars, detectVars>>
  PROVE  TableType' /\ TableInv'
<1>1. UNCHANGED <<holders, waiters, client_locks>> BY DEF tableVars
<1> QED BY <1>1, TypeOfTable DEF Inv, TableType, HoldersOK, TableInv, ExclusiveIsAlone,
        FirstWaiterIsBlocked, ClientLocksMirrorHolders, Holds, AllShared

(* The commands that get submitted are commands. *)
LEMMA SubmittedTypes ==
  /\ \A c \in Client, r \in Resource, mode \in Mode :
       [op |-> "acquire", client |-> c, resource |-> r, mode |-> mode,
        by |-> "client", awaited |-> TRUE] \in Command
  /\ \A c \in Client, r \in Resource, by \in {"client", "lease loop"} :
       [op |-> "release", client |-> c, resource |-> r, by |-> by, awaited |-> TRUE] \in Command
  /\ \A c \in Client :
       /\ [op |-> "release_all", client |-> c, by |-> "client", awaited |-> TRUE] \in Command
       /\ [op |-> "abort", client |-> c, by |-> "deadlock loop", awaited |-> TRUE] \in Command
BY DEF Command

(* The calls a client can be in. *)
LEMMA CallTypes ==
  /\ Idle \in Call /\ [kind |-> "release"] \in Call
  /\ \A r \in Resource, mode \in Mode :
       [kind |-> "acquire", resource |-> r, mode |-> mode, attempt |-> "submitted"] \in Call
  /\ \A k \in Call : k.kind = "acquire" =>
       /\ k.resource \in Resource /\ k.mode \in Mode
       /\ \A a \in {"submitted", "refused", "unanswered"} : [k EXCEPT !.attempt = a] \in Call
BY DEF Idle, Call

(* SubmitAcquire preserves the types. *)
LEMMA SubmitAcquireType ==
  ASSUME Inv, NEW c \in Client, NEW r \in Resource, NEW mode \in Mode, SubmitAcquire(c, r, mode)
  PROVE  Inv'
<1> DEFINE cmd == [op |-> "acquire", client |-> c, resource |-> r, mode |-> mode,
                   by |-> "client", awaited |-> TRUE]
           k == [kind |-> "acquire", resource |-> r, mode |-> mode, attempt |-> "submitted"]
<1>1. cmd \in Command /\ k \in Call BY SubmittedTypes, CallTypes
<1>2. Submit(cmd) /\ call' = [call EXCEPT ![c] = k] /\ UNCHANGED <<expired, granted, revoked>>
  BY DEF SubmitAcquire, histVars
<1> HIDE DEF cmd, k
<1>3. RestType BY TypeParts DEF Inv
<1>4. underWay' \in Seq(Command) /\ UNCHANGED <<tableVars, detectVars>>
  BY <1>1, <1>2, <1>3, SubmitAppends DEF RestType
<1>5. RestType' BY <1>1, <1>2, <1>3, <1>4 DEF RestType, detectVars
<1>6. TableType' /\ TableInv' BY <1>4, TableUntouched
<1> QED BY <1>5, <1>6, TypeParts DEF Inv, TypeOK, TableType, RestType, HoldersOK

(* _apply_command (lock_manager.py:159-174) preserves the types.            *)
LEMMA ApplyInv ==
  ASSUME Inv, Apply
  PROVE  Inv'
<1> DEFINE cmd == Head(underWay)
<1>1. RestType /\ TableType /\ TableInv BY TypeParts DEF Inv
<1>2. underWay' \in Seq(Command) /\ cmd \in Command /\ expired' = expired
  BY <1>1, TakeOldest DEF Apply, RestType
<1>3. /\ cmd.client \in Client /\ cmd.awaited \in BOOLEAN
      /\ cmd.op = "acquire" => cmd.resource \in Resource /\ cmd.mode \in Mode
  BY <1>2, CommandFields
<1>4. ApplyAcquire(cmd) \/ ApplyRelease(cmd) BY DEF Apply
<1> HIDE DEF cmd
<1>5. CASE ApplyAcquire(cmd)
  <2>1. PICK ok \in BOOLEAN :
          /\ DoAcquire(cmd.client, cmd.resource, cmd.mode, ok)
          /\ IF cmd.awaited
             THEN /\ call' = [call EXCEPT ![cmd.client] = IF ok THEN Idle
                                                      ELSE [@ EXCEPT !.attempt = "refused"]]
                  /\ IF ok
                     THEN /\ granted' = [granted EXCEPT ![cmd.client] = @ \cup {cmd.resource}]
                          /\ revoked' = [revoked EXCEPT ![cmd.client] = @ \ {cmd.resource}]
                     ELSE UNCHANGED histVars
             ELSE UNCHANGED <<call, histVars>>
    BY <1>5 DEF ApplyAcquire
  <2>2. /\ cmd.resource \in Resource /\ cmd.mode \in Mode BY <1>3, <1>5 DEF ApplyAcquire
  <2>3. TableType' /\ TableInv' BY <1>1, <1>3, <2>1, <2>2, AcquireKeeps
  <2>4. wait_for' \subseteq Client \X Client
    <3>1. DOMAIN holders[cmd.resource] \subseteq Client
      BY <1>1, <2>2 DEF TableType, HoldersOK
    <3>2. \/ wait_for' = wait_for
          \/ wait_for' = wait_for \cup
               {<<cmd.client, h>> : h \in DOMAIN holders[cmd.resource] \ {cmd.client}}
      BY <2>1 DEF DoAcquire, WithWaits
    <3> QED BY <3>1, <3>2, <1>1, <1>3 DEF RestType
  <2>5. client_age' \subseteq Client \X Client
    <3>1. SetAge(cmd.client) BY <2>1 DEF DoAcquire
    <3> QED BY <3>1, <1>1, <1>3 DEF RestType, SetAge
  <2>6. granted' \in [Client -> SUBSET Resource] /\ revoked' \in [Client -> SUBSET Resource]
    <3>1. \/ granted' = granted /\ revoked' = revoked
          \/ /\ granted' = [granted EXCEPT ![cmd.client] = @ \cup {cmd.resource}]
             /\ revoked' = [revoked EXCEPT ![cmd.client] = @ \ {cmd.resource}]
      BY <2>1 DEF histVars
    <3> QED BY <3>1, <1>1, <1>3, <2>2 DEF RestType
  <2>7. call' \in [Client -> Call]
    <3>1. CASE ~cmd.awaited BY <3>1, <2>1, <1>1 DEF RestType
    <3>2. CASE cmd.awaited /\ ok BY <3>2, <2>1, <1>1, <1>3, CallTypes DEF RestType
    <3>3. CASE cmd.awaited /\ ~ok
      <4> DEFINE k == [call[cmd.client] EXCEPT !.attempt = "refused"]
      <4>1. call' = [call EXCEPT ![cmd.client] = k] BY <3>3, <2>1
      <4>2. k \in Call
        <5>1. call[cmd.client] \in Call BY <1>1, <1>3 DEF RestType
        <5> QED BY <5>1 DEF Call
      <4> HIDE DEF k
      <4> QED BY <4>1, <4>2, <1>1, <1>3 DEF RestType
    <3> QED BY <3>1, <3>2, <3>3, <1>3
  <2> QED BY <1>2, <1>1, <2>3, <2>4, <2>5, <2>6, <2>7
          DEF Inv, RestType, TypeOK, TableType, HoldersOK
<1>6. CASE ApplyRelease(cmd)
  <2>1. TableType' /\ TableInv' BY <1>1, <1>2, <1>6, ReleaseKeeps
  <2>2. wait_for' \subseteq wait_for /\ client_age' \subseteq client_age
    <3>1. DoRelease(cmd.client, cmd.resource) \/ DoReleaseAll(cmd.client)
      BY <1>6 DEF ApplyRelease
    <3>2. Forget(cmd.client) \/ UNCHANGED detectVars
      BY <3>1 DEF DoRelease, DoReleaseAll
    <3> QED BY <3>2 DEF Forget, detectVars
  <2>3. /\ granted' = granted
        /\ call' = call \/ call' = [call EXCEPT ![cmd.client] = Idle]
        /\ \/ revoked' = revoked
           \/ revoked' = [revoked EXCEPT ![cmd.client] =
                @ \cup {r \in granted[cmd.client] : cmd.client \notin DOMAIN holders'[r]}]
    BY <1>6 DEF ApplyRelease
  <2>4. granted' \in [Client -> SUBSET Resource] /\ revoked' \in [Client -> SUBSET Resource]
    BY <1>1, <1>3, <2>3 DEF RestType
  <2>5. call' \in [Client -> Call] BY <1>1, <1>3, <2>3, CallTypes DEF RestType
  <2> QED BY <1>2, <1>1, <2>1, <2>2, <2>4, <2>5
          DEF Inv, RestType, TypeOK, TableType, HoldersOK
<1> QED BY <1>4, <1>5, <1>6

LEMMA InvStep == Inv /\ [Next]_vars => Inv'
<1> SUFFICES ASSUME Inv, [Next]_vars PROVE Inv' OBVIOUS
<1>1. RestType /\ TableType BY TypeParts DEF Inv
<1>2. ASSUME UNCHANGED <<tableVars, detectVars>>, underWay' \in Seq(Command),
             call' \in [Client -> Call], expired' \subseteq Client \X Resource,
             granted' \in [Client -> SUBSET Resource], revoked' \in [Client -> SUBSET Resource]
      PROVE  Inv'
  <2>1. TableType' /\ TableInv' BY <1>2, TableUntouched
  <2>2. wait_for' = wait_for /\ client_age' = client_age BY <1>2 DEF detectVars
  <2> QED BY <1>1, <1>2, <2>1, <2>2 DEF Inv, RestType, TypeOK, TableType, HoldersOK
<1>3. ASSUME NEW c \in Client, NEW r \in Resource, NEW mode \in Mode, CallAcquire(c, r, mode)
      PROVE  Inv'
  BY <1>3, SubmitAcquireType DEF CallAcquire
<1>4. ASSUME NEW c \in Client, Retry(c) PROVE Inv'
  <2>1. call[c] \in Call /\ call[c].kind = "acquire" BY <1>1, <1>4 DEF Retry, RestType
  <2>2. call[c].resource \in Resource /\ call[c].mode \in Mode BY <2>1, CallTypes
  <2>3. SubmitAcquire(c, call[c].resource, call[c].mode) BY <1>4 DEF Retry
  <2> QED BY <2>2, <2>3, SubmitAcquireType
<1>5. ASSUME NEW c \in Client, GiveUp(c) PROVE Inv'
  <2>1. UNCHANGED <<tableVars, detectVars>> /\ UNCHANGED <<underWay, expired, granted, revoked>>
        /\ call' = [call EXCEPT ![c] = Idle]
    BY <1>5 DEF GiveUp, histVars
  <2> QED BY <2>1, <1>1, <1>2, CallTypes DEF RestType
<1>6. ASSUME NEW c \in Client, NEW r \in Resource, CallRelease(c, r) PROVE Inv'
  <2> DEFINE cmd == [op |-> "release", client |-> c, resource |-> r, by |-> "client",
                     awaited |-> TRUE]
  <2>1. cmd \in Command BY SubmittedTypes
  <2>2. Submit(cmd) /\ call' = [call EXCEPT ![c] = [kind |-> "release"]]
        /\ granted' = [granted EXCEPT ![c] = @ \ {r}]
        /\ revoked' = [revoked EXCEPT ![c] = @ \ {r}] /\ expired' = expired
    BY <1>6 DEF CallRelease
  <2> HIDE DEF cmd
  <2>3. underWay' \in Seq(Command) /\ UNCHANGED <<tableVars, detectVars>>
    BY <1>1, <2>1, <2>2, SubmitAppends DEF RestType
  <2>4. granted' \in [Client -> SUBSET Resource] /\ revoked' \in [Client -> SUBSET Resource]
    BY <1>1, <2>2 DEF RestType
  <2>5. call' \in [Client -> Call] BY <1>1, <2>2, CallTypes DEF RestType
  <2> QED BY <1>1, <1>2, <2>2, <2>3, <2>4, <2>5 DEF RestType
<1>7. ASSUME NEW c \in Client, CallReleaseAll(c) PROVE Inv'
  <2> DEFINE cmd == [op |-> "release_all", client |-> c, by |-> "client", awaited |-> TRUE]
  <2>1. cmd \in Command BY SubmittedTypes
  <2>2. Submit(cmd) /\ call' = [call EXCEPT ![c] = [kind |-> "release"]]
        /\ granted' = [granted EXCEPT ![c] = {}]
        /\ revoked' = [revoked EXCEPT ![c] = {}] /\ expired' = expired
    BY <1>7 DEF CallReleaseAll
  <2> HIDE DEF cmd
  <2>3. underWay' \in Seq(Command) /\ UNCHANGED <<tableVars, detectVars>>
    BY <1>1, <2>1, <2>2, SubmitAppends DEF RestType
  <2>4. granted' \in [Client -> SUBSET Resource] /\ revoked' \in [Client -> SUBSET Resource]
    BY <1>1, <2>2 DEF RestType
  <2>5. call' \in [Client -> Call] BY <1>1, <2>2, CallTypes DEF RestType
  <2> QED BY <1>1, <1>2, <2>2, <2>3, <2>4, <2>5 DEF RestType
<1>8. ASSUME NEW c \in Client, NEW r \in Resource, ReleaseExpired(c, r) PROVE Inv'
  <2> DEFINE cmd == [op |-> "release", client |-> c, resource |-> r, by |-> "lease loop",
                     awaited |-> TRUE]
  <2>1. cmd \in Command BY SubmittedTypes
  <2>2. Submit(cmd) /\ expired' = expired \ {<<c, r>>} /\ UNCHANGED <<call, granted, revoked>>
    BY <1>8 DEF ReleaseExpired, histVars
  <2> HIDE DEF cmd
  <2>3. underWay' \in Seq(Command) /\ UNCHANGED <<tableVars, detectVars>>
    BY <1>1, <2>1, <2>2, SubmitAppends DEF RestType
  <2> QED BY <1>1, <1>2, <2>2, <2>3 DEF RestType
<1>9. ASSUME NEW c \in Client, DetectDeadlock(c) PROVE Inv'
  <2> DEFINE cmd == [op |-> "abort", client |-> c, by |-> "deadlock loop", awaited |-> TRUE]
  <2>1. cmd \in Command BY SubmittedTypes
  <2>2. Submit(cmd) /\ UNCHANGED <<call, expired, granted, revoked>>
    BY <1>9 DEF DetectDeadlock, histVars
  <2> HIDE DEF cmd
  <2>3. underWay' \in Seq(Command) /\ UNCHANGED <<tableVars, detectVars>>
    BY <1>1, <2>1, <2>2, SubmitAppends DEF RestType
  <2> QED BY <1>1, <1>2, <2>2, <2>3 DEF RestType
<1>10. ASSUME NEW r \in Resource, NEW C \in SUBSET Client, FindExpired(r, C) PROVE Inv'
  <2>1. /\ UNCHANGED <<tableVars, detectVars>> /\ UNCHANGED <<underWay, call, granted, revoked>>
        /\ expired' = C \X {r}
    BY <1>10 DEF FindExpired, histVars
  <2> QED BY <2>1, <1>1, <1>2 DEF RestType
<1>11. ASSUME SubmitTimeout PROVE Inv'
  <2>1. PICK i \in DOMAIN underWay :
          /\ underWay[i].awaited
          /\ underWay' = [underWay EXCEPT ![i].awaited = FALSE]
          /\ call' = IF underWay[i].by # "client" THEN call
                     ELSE [call EXCEPT ![underWay[i].client] =
                             IF @.kind = "acquire" THEN [@ EXCEPT !.attempt = "unanswered"] ELSE Idle]
    BY <1>11 DEF SubmitTimeout
  <2>2. UNCHANGED <<tableVars, detectVars>> /\ UNCHANGED <<expired, granted, revoked>>
    BY <1>11 DEF SubmitTimeout, histVars
  <2>3. underWay' \in Seq(Command) /\ underWay[i] \in Command
    BY <1>1, <2>1, AbandonOne DEF RestType
  <2>4. call' \in [Client -> Call]
    <3> DEFINE c == underWay[i].client
               k == IF call[c].kind = "acquire" THEN [call[c] EXCEPT !.attempt = "unanswered"]
                    ELSE Idle
    <3>1. c \in Client BY <2>3, CommandFields
    <3>2. call' = call \/ call' = [call EXCEPT ![c] = k] BY <2>1
    <3>3. k \in Call
      <4>1. call[c] \in Call BY <1>1, <3>1 DEF RestType
      <4> QED BY <4>1, CallTypes
    <3> HIDE DEF c, k
    <3> QED BY <1>1, <3>1, <3>2, <3>3 DEF RestType
  <2> QED BY <1>1, <1>2, <2>2, <2>3, <2>4 DEF RestType
<1>12. CASE UNCHANGED vars
  <2>1. UNCHANGED <<tableVars, detectVars>> /\ UNCHANGED <<underWay, call, expired, granted, revoked>>
    BY <1>12 DEF vars, callVars, histVars
  <2> QED BY <2>1, <1>1, <1>2 DEF RestType
<1> QED BY <1>3, <1>4, <1>5, <1>6, <1>7, <1>8, <1>9, <1>10, <1>11, <1>12, ApplyInv DEF Next

(* Every variable keeps its type: a client always waits in one call, and    *)
(* the log only ever holds commands the service can apply.                  *)
THEOREM TypeCorrect == Spec => []TypeOK
<1>1. Inv => TypeOK BY DEF Inv
<1> QED BY <1>1, InitInv, InvStep, PTL DEF Spec

(* An exclusive holder is alone, through every acquire, release, expired    *)
(* lease and abort (lock_manager.py:182-201,240-264).                       *)
THEOREM ExclusiveAlone == Spec => []ExclusiveIsAlone
<1>1. Inv => ExclusiveIsAlone BY DEF Inv, TableInv
<1> QED BY <1>1, InitInv, InvStep, PTL DEF Spec

(* No wake-up is lost: no command leaves the first of a queue waiting for a *)
(* lock it could have.                                                      *)
THEOREM NoLostWakeUp == Spec => []FirstWaiterIsBlocked
<1>1. Inv => FirstWaiterIsBlocked BY DEF Inv, TableInv
<1> QED BY <1>1, InitInv, InvStep, PTL DEF Spec

(* What release_all and an abort go by is what the client holds.            *)
THEOREM LocksMirrored == Spec => []ClientLocksMirrorHolders
<1>1. Inv => ClientLocksMirrorHolders BY DEF Inv, TableInv
<1> QED BY <1>1, InitInv, InvStep, PTL DEF Spec

(***************************************************************************)
(* Grants stand.  The argument: a client has at most one awaited command   *)
(* under way and it is the last of its commands, so when an acquire is     *)
(* answered "granted" no release of the same client is behind it.          *)
(***************************************************************************)

OneAwaited ==
  \A i, j \in DOMAIN underWay :
    /\ i < j
    /\ underWay[i].by = "client" /\ underWay[j].by = "client"
    /\ underWay[i].client = underWay[j].client
    => ~underWay[i].awaited

AwaitedIsCalled ==
  \A i \in DOMAIN underWay :
    underWay[i].by = "client" /\ underWay[i].awaited =>
      LET k == call[underWay[i].client]
      IN  IF underWay[i].op = "acquire"
          THEN k.kind = "acquire" /\ k.attempt = "submitted"
          ELSE k.kind = "release"

GivenBack ==
  \A i \in DOMAIN underWay :
    underWay[i].by = "client" =>
      /\ underWay[i].op = "release" =>
           underWay[i].resource \notin granted[underWay[i].client]
      /\ underWay[i].op \notin {"acquire", "release"} =>
           granted[underWay[i].client] = {}

GrantInv == OneAwaited /\ AwaitedIsCalled /\ GivenBack /\ GrantStands

NoneAwaited(c) ==
  \A i \in DOMAIN underWay :
    underWay[i].by = "client" /\ underWay[i].client = c => ~underWay[i].awaited

(* A client that may start or repeat a call is waiting for nothing.         *)
LEMMA FreeToCall ==
  ASSUME AwaitedIsCalled, NEW c \in Client,
         \/ call[c] = Idle
         \/ call[c].kind = "acquire" /\ call[c].attempt \in {"refused", "unanswered"}
  PROVE  NoneAwaited(c)
<1> SUFFICES ASSUME NEW i \in DOMAIN underWay, underWay[i].by = "client",
                    underWay[i].client = c, underWay[i].awaited
             PROVE  FALSE
  BY DEF NoneAwaited
<1>1. call[c].kind = "release" \/ (call[c].kind = "acquire" /\ call[c].attempt = "submitted")
  BY DEF AwaitedIsCalled
<1>2. Idle.kind = "idle" BY DEF Idle
<1> QED BY <1>1, <1>2

(* Submitting one more command.                                             *)
LEMMA SubmitOneAwaited ==
  ASSUME underWay \in Seq(Command), NEW cmd \in Command, Submit(cmd), OneAwaited,
         cmd.by = "client" => NoneAwaited(cmd.client)
  PROVE  OneAwaited'
<1> DEFINE n == Len(underWay)
<1>1. /\ n \in Nat /\ DOMAIN underWay = 1..n /\ DOMAIN underWay' = 1..(n + 1)
      /\ \A i \in 1..n : underWay'[i] = underWay[i]
      /\ underWay'[n + 1] = cmd
  BY SubmitAppends
<1> HIDE DEF n
<1> SUFFICES ASSUME NEW i \in 1..(n + 1), NEW j \in 1..(n + 1), i < j,
                    underWay'[i].by = "client", underWay'[j].by = "client",
                    underWay'[i].client = underWay'[j].client
             PROVE  ~underWay'[i].awaited
  BY <1>1 DEF OneAwaited
<1>2. i \in 1..n /\ underWay'[i] = underWay[i] BY <1>1
<1>3. CASE j = n + 1 BY <1>1, <1>2, <1>3 DEF NoneAwaited
<1>4. CASE j # n + 1
  <2>1. j \in 1..n /\ underWay'[j] = underWay[j] BY <1>1, <1>4
  <2> QED BY <2>1, <1>1, <1>2 DEF OneAwaited
<1> QED BY <1>3, <1>4

(* A step that keeps the locks, the grants and what is revoked.             *)
LEMMA GrantsUntouched ==
  ASSUME GrantStands, UNCHANGED <<tableVars, detectVars>>, UNCHANGED <<granted, revoked>>
  PROVE  GrantStands'
BY DEF GrantStands, Holds, tableVars

(* Submitting an acquire.                                                   *)
LEMMA SubmitAcquireGrant ==
  ASSUME Inv, GrantInv, NEW c \in Client, NEW r \in Resource, NEW mode \in Mode,
         SubmitAcquire(c, r, mode), NoneAwaited(c)
  PROVE  GrantInv'
<1> DEFINE cmd == [op |-> "acquire", client |-> c, resource |-> r, mode |-> mode,
                   by |-> "client", awaited |-> TRUE]
           k == [kind |-> "acquire", resource |-> r, mode |-> mode, attempt |-> "submitted"]
           n == Len(underWay)
<1>1. /\ cmd \in Command /\ cmd.op = "acquire" /\ cmd.client = c /\ cmd.by = "client"
      /\ k.kind = "acquire" /\ k.attempt = "submitted"
  BY SubmittedTypes
<1>2. Submit(cmd) /\ call' = [call EXCEPT ![c] = k] /\ UNCHANGED <<expired, granted, revoked>>
  BY DEF SubmitAcquire, histVars
<1> HIDE DEF cmd, k
<1>3. underWay \in Seq(Command) /\ call \in [Client -> Call] BY DEF Inv, TypeOK
<1>4. /\ n \in Nat /\ DOMAIN underWay = 1..n /\ DOMAIN underWay' = 1..(n + 1)
      /\ \A i \in 1..n : underWay'[i] = underWay[i]
      /\ underWay'[n + 1] = cmd /\ UNCHANGED <<tableVars, detectVars>>
  BY <1>1, <1>2, <1>3, SubmitAppends
<1> HIDE DEF n
<1>5. OneAwaited' BY <1>1, <1>2, <1>3, SubmitOneAwaited DEF GrantInv
<1>6. AwaitedIsCalled'
  <2> SUFFICES ASSUME NEW i \in 1..(n + 1), underWay'[i].by = "client", underWay'[i].awaited
               PROVE  LET q == call'[underWay'[i].client]
                      IN  IF underWay'[i].op = "acquire"
                          THEN q.kind = "acquire" /\ q.attempt = "submitted"
                          ELSE q.kind = "release"
    BY <1>4 DEF AwaitedIsCalled
  <2>1. CASE i = n + 1
    <3>1. call'[c] = k BY <1>2, <1>3
    <3> QED BY <2>1, <3>1, <1>1, <1>4
  <2>2. CASE i # n + 1
    <3>1. i \in 1..n /\ underWay'[i] = underWay[i] BY <2>2, <1>4
    <3>2. underWay[i].client # c BY <3>1, <1>4 DEF NoneAwaited
    <3>3. call'[underWay[i].client] = call[underWay[i].client] BY <3>2, <1>2
    <3> QED BY <3>1, <3>3, <1>4 DEF GrantInv, AwaitedIsCalled
  <2> QED BY <2>1, <2>2
<1>7. GivenBack'
  <2> SUFFICES ASSUME NEW i \in 1..(n + 1), underWay'[i].by = "client"
               PROVE  /\ underWay'[i].op = "release" =>
                           underWay'[i].resource \notin granted'[underWay'[i].client]
                      /\ underWay'[i].op \notin {"acquire", "release"} =>
                           granted'[underWay'[i].client] = {}
    BY <1>4 DEF GivenBack
  <2>1. CASE i = n + 1 BY <2>1, <1>1, <1>4
  <2>2. CASE i # n + 1
    <3>1. i \in 1..n /\ underWay'[i] = underWay[i] /\ granted' = granted BY <2>2, <1>2, <1>4
    <3> QED BY <3>1, <1>4 DEF GrantInv, GivenBack
  <2> QED BY <2>1, <2>2
<1>8. GrantStands' BY <1>2, <1>4, GrantsUntouched DEF GrantInv
<1> QED BY <1>5, <1>6, <1>7, <1>8 DEF GrantInv

(* Submitting a release or a release_all: the client counts R as its own no *)
(* longer.                                                                  *)
LEMMA SubmitReleaseGrant ==
  ASSUME Inv, GrantInv, NEW c \in Client, NEW R \in SUBSET Resource, NEW cmd \in Command,
         cmd.client = c, cmd.by = "client", cmd.op # "acquire",
         cmd.op = "release" => cmd.resource \in R,
         cmd.op # "release" => granted[c] \subseteq R,
         Submit(cmd), NoneAwaited(c),
         call' = [call EXCEPT ![c] = [kind |-> "release"]],
         granted' = [granted EXCEPT ![c] = @ \ R],
         revoked' = [revoked EXCEPT ![c] = @ \ R]
  PROVE  GrantInv'
<1> DEFINE n == Len(underWay)
<1>1. /\ underWay \in Seq(Command) /\ call \in [Client -> Call]
      /\ granted \in [Client -> SUBSET Resource] /\ revoked \in [Client -> SUBSET Resource]
  BY DEF Inv, TypeOK
<1>2. /\ n \in Nat /\ DOMAIN underWay = 1..n /\ DOMAIN underWay' = 1..(n + 1)
      /\ \A i \in 1..n : underWay'[i] = underWay[i]
      /\ underWay'[n + 1] = cmd /\ UNCHANGED <<tableVars, detectVars>>
  BY <1>1, SubmitAppends
<1>3. \A i \in 1..n : underWay[i].client \in Client
  BY <1>1, <1>2, ElementOfSeq, CommandFields
<1> HIDE DEF n
<1>4. /\ granted'[c] = granted[c] \ R /\ revoked'[c] = revoked[c] \ R
      /\ \A x \in Client \ {c} : granted'[x] = granted[x] /\ revoked'[x] = revoked[x]
  BY <1>1
<1>5. OneAwaited' BY <1>1, SubmitOneAwaited DEF GrantInv
<1>6. AwaitedIsCalled'
  <2> SUFFICES ASSUME NEW i \in 1..(n + 1), underWay'[i].by = "client", underWay'[i].awaited
               PROVE  LET q == call'[underWay'[i].client]
                      IN  IF underWay'[i].op = "acquire"
                          THEN q.kind = "acquire" /\ q.attempt = "submitted"
                          ELSE q.kind = "release"
    BY <1>2 DEF AwaitedIsCalled
  <2>1. CASE i = n + 1
    <3>1. call'[c] = [kind |-> "release"] BY <1>1
    <3> QED BY <2>1, <3>1, <1>2
  <2>2. CASE i # n + 1
    <3>1. i \in 1..n /\ underWay'[i] = underWay[i] BY <2>2, <1>2
    <3>2. underWay[i].client # c BY <3>1, <1>2 DEF NoneAwaited
    <3>3. call'[underWay[i].client] = call[underWay[i].client] BY <3>2
    <3> QED BY <3>1, <3>3, <1>2 DEF GrantInv, AwaitedIsCalled
  <2> QED BY <2>1, <2>2
<1>7. GivenBack'
  <2> SUFFICES ASSUME NEW i \in 1..(n + 1), underWay'[i].by = "client"
               PROVE  /\ underWay'[i].op = "release" =>
                           underWay'[i].resource \notin granted'[underWay'[i].client]
                      /\ underWay'[i].op \notin {"acquire", "release"} =>
                           granted'[underWay'[i].client] = {}
    BY <1>2 DEF GivenBack
  <2>1. CASE i = n + 1 BY <2>1, <1>2, <1>4
  <2>2. CASE i # n + 1
    <3>1. i \in 1..n /\ underWay'[i] = underWay[i] BY <2>2, <1>2
    <3>2. granted'[underWay[i].client] \subseteq granted[underWay[i].client]
      BY <3>1, <1>3, <1>4
    <3> QED BY <3>1, <3>2, <1>2 DEF GrantInv, GivenBack
  <2> QED BY <2>1, <2>2
<1>8. GrantStands'
  <2> SUFFICES ASSUME NEW x \in Client, NEW r \in granted'[x]
               PROVE  x \in DOMAIN holders'[r] \/ r \in revoked'[x]
    BY DEF GrantStands, Holds
  <2>1. r \in granted[x] BY <1>4
  <2>2. x \in DOMAIN holders[r] \/ r \in revoked[x] BY <2>1 DEF GrantInv, GrantStands, Holds
  <2>3. holders' = holders BY <1>2 DEF tableVars
  <2> QED BY <2>2, <2>3, <1>4
<1> QED BY <1>5, <1>6, <1>7, <1>8 DEF GrantInv

(* What a loop of the service submits.                                      *)
LEMMA SubmitLoopGrant ==
  ASSUME Inv, GrantInv, NEW cmd \in Command, cmd.by # "client", Submit(cmd),
         UNCHANGED <<call, granted, revoked>>
  PROVE  GrantInv'
<1> DEFINE n == Len(underWay)
<1>1. underWay \in Seq(Command) BY DEF Inv, TypeOK
<1>2. /\ n \in Nat /\ DOMAIN underWay = 1..n /\ DOMAIN underWay' = 1..(n + 1)
      /\ \A i \in 1..n : underWay'[i] = underWay[i]
      /\ underWay'[n + 1] = cmd /\ UNCHANGED <<tableVars, detectVars>>
  BY <1>1, SubmitAppends
<1> HIDE DEF n
<1>3. \A i \in DOMAIN underWay' :
        underWay'[i].by = "client" => i \in DOMAIN underWay /\ underWay'[i] = underWay[i]
  <2> SUFFICES ASSUME NEW i \in 1..(n + 1), underWay'[i].by = "client"
               PROVE  i \in 1..n /\ underWay'[i] = underWay[i]
    BY <1>2
  <2>1. i # n + 1 BY <1>2
  <2>2. i \in 1..n BY <2>1, <1>2
  <2> QED BY <2>2, <1>2
<1>4. OneAwaited' BY <1>1, SubmitOneAwaited DEF GrantInv
<1>5. AwaitedIsCalled' BY <1>3 DEF GrantInv, AwaitedIsCalled
<1>6. GivenBack' BY <1>3 DEF GrantInv, GivenBack
<1>7. GrantStands' BY <1>2, GrantsUntouched DEF GrantInv
<1> QED BY <1>4, <1>5, <1>6, <1>7 DEF GrantInv

(* A submitter stops waiting. *)
LEMMA TimeoutGrant ==
  ASSUME Inv, GrantInv, SubmitTimeout
  PROVE  GrantInv'
<1>1. PICK i \in DOMAIN underWay :
        /\ underWay[i].awaited
        /\ underWay' = [underWay EXCEPT ![i].awaited = FALSE]
        /\ call' = IF underWay[i].by # "client" THEN call
                   ELSE [call EXCEPT ![underWay[i].client] =
                           IF @.kind = "acquire" THEN [@ EXCEPT !.attempt = "unanswered"] ELSE Idle]
  BY DEF SubmitTimeout
<1>2. underWay \in Seq(Command) /\ call \in [Client -> Call] BY DEF Inv, TypeOK
<1>3. UNCHANGED <<tableVars, detectVars>> /\ UNCHANGED <<granted, revoked>>
  BY DEF SubmitTimeout, histVars
<1>4. /\ DOMAIN underWay' = DOMAIN underWay /\ underWay[i] \in Command
      /\ underWay'[i] = [underWay[i] EXCEPT !.awaited = FALSE]
      /\ \A j \in DOMAIN underWay \ {i} : underWay'[j] = underWay[j]
  BY <1>1, <1>2, AbandonOne
<1>5. /\ ~underWay'[i].awaited
      /\ underWay'[i].op = underWay[i].op /\ underWay'[i].by = underWay[i].by
      /\ underWay'[i].client = underWay[i].client
      /\ underWay'[i].op = "release" => underWay'[i].resource = underWay[i].resource
  BY <1>4 DEF Command
<1>6. DOMAIN underWay \subseteq Int BY <1>2, LenProperties
<1>7. OneAwaited'
  <2> SUFFICES ASSUME NEW j \in DOMAIN underWay, NEW k \in DOMAIN underWay, j < k,
                      underWay'[j].by = "client", underWay'[k].by = "client",
                      underWay'[j].client = underWay'[k].client
               PROVE  ~underWay'[j].awaited
    BY <1>4 DEF OneAwaited
  <2>1. CASE j = i BY <2>1, <1>5
  <2>2. CASE j # i
    <3>1. underWay'[j] = underWay[j] BY <2>2, <1>4
    <3>2. underWay[k].by = "client" /\ underWay[j].client = underWay[k].client
      BY <3>1, <1>4, <1>5
    <3> QED BY <3>1, <3>2 DEF GrantInv, OneAwaited
  <2> QED BY <2>1, <2>2
<1>8. AwaitedIsCalled'
  <2> SUFFICES ASSUME NEW j \in DOMAIN underWay, underWay'[j].by = "client", underWay'[j].awaited
               PROVE  LET q == call'[underWay'[j].client]
                      IN  IF underWay'[j].op = "acquire"
                          THEN q.kind = "acquire" /\ q.attempt = "submitted"
                          ELSE q.kind = "release"
    BY <1>4 DEF AwaitedIsCalled
  <2>1. j # i BY <1>5
  <2>2. underWay'[j] = underWay[j] BY <2>1, <1>4
  <2>3. underWay[i].by = "client" => underWay[i].client # underWay[j].client
    <3>1. i < j \/ j < i BY <2>1, <1>6
    <3> QED BY <3>1, <2>2, <1>1 DEF GrantInv, OneAwaited
  <2>4. call'[underWay[j].client] = call[underWay[j].client] BY <2>3, <1>1, <1>2
  <2> QED BY <2>2, <2>4 DEF GrantInv, AwaitedIsCalled
<1>9. GivenBack'
  <2> SUFFICES ASSUME NEW j \in DOMAIN underWay, underWay'[j].by = "client"
               PROVE  /\ underWay'[j].op = "release" =>
                           underWay'[j].resource \notin granted'[underWay'[j].client]
                      /\ underWay'[j].op \notin {"acquire", "release"} =>
                           granted'[underWay'[j].client] = {}
    BY <1>4 DEF GivenBack
  <2>1. CASE j = i BY <2>1, <1>3, <1>5 DEF GrantInv, GivenBack
  <2>2. CASE j # i BY <2>2, <1>3, <1>4 DEF GrantInv, GivenBack
  <2> QED BY <2>1, <2>2
<1>10. GrantStands' BY <1>3, GrantsUntouched DEF GrantInv
<1> QED BY <1>7, <1>8, <1>9, <1>10 DEF GrantInv

(* Applying a command and answering it. *)
LEMMA ApplyGrant ==
  ASSUME Inv, GrantInv, Apply
  PROVE  GrantInv'
<1> DEFINE n == Len(underWay)
<1>1. /\ underWay \in Seq(Command) /\ call \in [Client -> Call]
      /\ granted \in [Client -> SUBSET Resource] /\ revoked \in [Client -> SUBSET Resource]
      /\ TableType /\ TableInv
  BY TypeParts DEF Inv, TypeOK
<1>0. /\ Head(underWay) \in Command /\ Head(underWay) = underWay[1] /\ n \in Nat \ {0}
      /\ DOMAIN underWay = 1..n /\ DOMAIN underWay' = 1..(n - 1)
      /\ \A i \in DOMAIN underWay' : underWay'[i] = underWay[i + 1]
  BY <1>1, TakeOldest DEF Apply
<1>a. PICK cmd \in Command : cmd = Head(underWay) BY <1>0
<1>b. PICK c \in Client : c = cmd.client BY <1>a, CommandFields
<1>2. /\ cmd \in Command /\ cmd = underWay[1] /\ n \in Nat \ {0}
      /\ DOMAIN underWay = 1..n /\ DOMAIN underWay' = 1..(n - 1)
      /\ \A i \in DOMAIN underWay' : underWay'[i] = underWay[i + 1]
  BY <1>0, <1>a
<1>3. /\ c \in Client /\ cmd.client = c /\ cmd.awaited \in BOOLEAN
      /\ cmd.op = "acquire" =>
           cmd.resource \in Resource /\ cmd.mode \in Mode /\ cmd.by = "client"
  BY <1>2, <1>b, CommandFields
<1>4. ApplyAcquire(cmd) \/ ApplyRelease(cmd) BY <1>a DEF Apply
<1> HIDE DEF n
<1>5. \A i \in 1..(n - 1) : i + 1 \in 1..n /\ 1 < i + 1 BY <1>2
<1>6. OneAwaited'
  <2> SUFFICES ASSUME NEW j \in 1..(n - 1), NEW k \in 1..(n - 1), j < k,
                      underWay'[j].by = "client", underWay'[k].by = "client",
                      underWay'[j].client = underWay'[k].client
               PROVE  ~underWay'[j].awaited
    BY <1>2 DEF OneAwaited
  <2>1. j + 1 \in 1..n /\ k + 1 \in 1..n /\ j + 1 < k + 1 BY <1>2
  <2> QED BY <2>1, <1>2 DEF GrantInv, OneAwaited
<1>7. ASSUME cmd.by = "client", cmd.awaited, NEW j \in 1..(n - 1), underWay'[j].by = "client"
      PROVE  underWay'[j].client # c
  <2>1. underWay'[j] = underWay[j + 1] /\ j + 1 \in 1..n /\ 1 < j + 1 /\ 1 \in 1..n
    BY <1>2, <1>5
  <2> QED BY <2>1, <1>2, <1>3, <1>7 DEF GrantInv, OneAwaited
<1>8. AwaitedIsCalled'
  <2> SUFFICES ASSUME NEW j \in 1..(n - 1), underWay'[j].by = "client", underWay'[j].awaited
               PROVE  LET q == call'[underWay'[j].client]
                      IN  IF underWay'[j].op = "acquire"
                          THEN q.kind = "acquire" /\ q.attempt = "submitted"
                          ELSE q.kind = "release"
    BY <1>2 DEF AwaitedIsCalled
  <2>1. underWay'[j] = underWay[j + 1] /\ j + 1 \in 1..n BY <1>2, <1>5
  <2>2. call'[underWay'[j].client] = call[underWay'[j].client]
    <3>1. CASE cmd.by = "client" /\ cmd.awaited
      <4>1. underWay'[j].client # c /\ underWay'[j].client \in Client
        <5>1. underWay[j + 1] \in Command BY <2>1, <1>1, <1>2, ElementOfSeq
        <5> QED BY <5>1, <2>1, <3>1, <1>7, CommandFields
      <4>2. \E k : call' = [call EXCEPT ![c] = k]
        <5>1. CASE ApplyAcquire(cmd) BY <5>1, <3>1, <1>1, <1>3 DEF ApplyAcquire
        <5>2. CASE ApplyRelease(cmd) BY <5>2, <3>1, <1>1, <1>3 DEF ApplyRelease
        <5> QED BY <5>1, <5>2, <1>4
      <4> QED BY <4>1, <4>2, <1>1
    <3>2. CASE ~(cmd.by = "client" /\ cmd.awaited)
      <4>1. CASE ApplyAcquire(cmd) BY <4>1, <3>2, <1>3 DEF ApplyAcquire
      <4>2. CASE ApplyRelease(cmd) BY <4>2, <3>2 DEF ApplyRelease
      <4> QED BY <4>1, <4>2, <1>4
    <3> QED BY <3>1, <3>2
  <2> QED BY <2>1, <2>2, <1>2 DEF GrantInv, AwaitedIsCalled
<1>9. CASE ApplyAcquire(cmd)
  <2>1. PICK ok \in BOOLEAN :
          /\ DoAcquire(c, cmd.resource, cmd.mode, ok)
          /\ IF cmd.awaited
             THEN /\ call' = [call EXCEPT ![c] = IF ok THEN Idle
                                                      ELSE [@ EXCEPT !.attempt = "refused"]]
                  /\ IF ok
                     THEN /\ granted' = [granted EXCEPT ![c] = @ \cup {cmd.resource}]
                          /\ revoked' = [revoked EXCEPT ![c] = @ \ {cmd.resource}]
                     ELSE UNCHANGED histVars
             ELSE UNCHANGED <<call, histVars>>
    BY <1>3, <1>9 DEF ApplyAcquire
  <2>2. cmd.resource \in Resource /\ cmd.mode \in Mode /\ cmd.by = "client"
    BY <1>3, <1>9 DEF ApplyAcquire
  <2>3. /\ \A x \in Client, q \in Resource : Holds(x, q) => Holds(x, q)'
        /\ ok => Holds(c, cmd.resource)'
    BY <1>1, <1>3, <2>1, <2>2, AcquireKeeps
  <2>4. CASE cmd.awaited /\ ok
    <3>1. /\ granted'[c] = granted[c] \cup {cmd.resource}
          /\ revoked'[c] = revoked[c] \ {cmd.resource}
          /\ \A x \in Client \ {c} : granted'[x] = granted[x] /\ revoked'[x] = revoked[x]
      BY <2>1, <2>4, <1>1, <1>3
    <3>2. GivenBack'
      <4> SUFFICES ASSUME NEW j \in 1..(n - 1), underWay'[j].by = "client"
                   PROVE  /\ underWay'[j].op = "release" =>
                               underWay'[j].resource \notin granted'[underWay'[j].client]
                          /\ underWay'[j].op \notin {"acquire", "release"} =>
                               granted'[underWay'[j].client] = {}
        BY <1>2 DEF GivenBack
      <4>1. underWay'[j].client # c BY <2>2, <2>4, <1>7
      <4>2. underWay'[j] = underWay[j + 1] /\ j + 1 \in 1..n BY <1>2, <1>5
      <4>3. underWay[j + 1].client \in Client
        <5>1. underWay[j + 1] \in Command BY <4>2, <1>1, <1>2, ElementOfSeq
        <5> QED BY <5>1, CommandFields
      <4>4. granted'[underWay'[j].client] = granted[underWay[j + 1].client]
        BY <4>1, <4>2, <4>3, <3>1
      <4> QED BY <4>2, <4>4, <1>2 DEF GrantInv, GivenBack
    <3>3. GrantStands'
      <4> SUFFICES ASSUME NEW x \in Client, NEW r \in granted'[x]
                   PROVE  Holds(x, r)' \/ r \in revoked'[x]
        BY DEF GrantStands, Holds
      <4>1. CASE x = c /\ r = cmd.resource BY <4>1, <2>3, <2>4
      <4>2. CASE ~(x = c /\ r = cmd.resource)
        <5>1. r \in granted[x] /\ r \in Resource BY <4>2, <3>1, <1>1
        <5>2. Holds(x, r) \/ r \in revoked[x] BY <5>1 DEF GrantInv, GrantStands
        <5>3. r \in revoked[x] => r \in revoked'[x] BY <4>2, <3>1
        <5> QED BY <5>1, <5>2, <5>3, <2>3
      <4> QED BY <4>1, <4>2
    <3> QED BY <3>2, <3>3, <1>6, <1>8 DEF GrantInv
  <2>5. CASE ~(cmd.awaited /\ ok)
    <3>1. granted' = granted /\ revoked' = revoked BY <2>1, <2>5 DEF histVars
    <3>2. GivenBack'
      <4>1. \A j \in 1..(n - 1) : underWay'[j] = underWay[j + 1] /\ j + 1 \in 1..n
        BY <1>2, <1>5
      <4> QED BY <4>1, <3>1, <1>2 DEF GrantInv, GivenBack
    <3>3. GrantStands'
      <4> SUFFICES ASSUME NEW x \in Client, NEW r \in granted[x]
                   PROVE  Holds(x, r)' \/ r \in revoked[x]
        BY <3>1 DEF GrantStands, Holds
      <4>1. r \in Resource BY <1>1
      <4> QED BY <4>1, <2>3 DEF GrantInv, GrantStands
    <3> QED BY <3>2, <3>3, <1>6, <1>8 DEF GrantInv
  <2> QED BY <2>4, <2>5
<1>10. CASE ApplyRelease(cmd)
  <2>1. \A x \in Client, q \in Resource :
          /\ Holds(x, q)
          /\ x # c \/ (cmd.op = "release" /\ q # cmd.resource)
          => Holds(x, q)'
    BY <1>1, <1>2, <1>3, <1>10, ReleaseKeeps
  <2>2. /\ cmd.op # "acquire" /\ granted' = granted
        /\ revoked' = IF cmd.by = "client" THEN revoked
                      ELSE [revoked EXCEPT ![c] =
                              @ \cup {r \in granted[c] : c \notin DOMAIN holders'[r]}]
    BY <1>3, <1>10 DEF ApplyRelease
  <2>3. GivenBack'
    <3>1. \A j \in 1..(n - 1) : underWay'[j] = underWay[j + 1] /\ j + 1 \in 1..n
      BY <1>2, <1>5
    <3>2. granted' = granted BY <2>2
    <3> QED BY <3>1, <3>2, <1>2 DEF GrantInv, GivenBack
  <2>4. GrantStands'
    <3> SUFFICES ASSUME NEW x \in Client, NEW r \in granted[x]
                 PROVE  Holds(x, r)' \/ r \in revoked'[x]
      BY <2>2 DEF GrantStands, Holds
    <3>1. r \in Resource /\ (Holds(x, r) \/ r \in revoked[x])
      BY <1>1 DEF GrantInv, GrantStands
    <3>2. r \in revoked[x] => r \in revoked'[x]
      <4>1. CASE cmd.by = "client" BY <4>1, <2>2
      <4>2. CASE cmd.by # "client"
        <5>1. revoked'[x] = revoked[x] \/ (x = c /\ revoked[x] \subseteq revoked'[x])
          BY <4>2, <2>2, <1>1
        <5> QED BY <5>1
      <4> QED BY <4>1, <4>2
    <3>3. CASE x # c \/ (cmd.op = "release" /\ r # cmd.resource)
      BY <3>1, <3>2, <3>3, <2>1
    <3>4. CASE x = c /\ ~(cmd.op = "release" /\ r # cmd.resource) /\ cmd.by = "client"
      <4>1. 1 \in DOMAIN underWay /\ underWay[1] = cmd BY <1>2
      <4>2. /\ cmd.op = "release" => cmd.resource \notin granted[c]
            /\ cmd.op \notin {"acquire", "release"} => granted[c] = {}
        BY <4>1, <3>4, <1>3 DEF GrantInv, GivenBack
      <4> QED BY <4>2, <3>4, <2>2
    <3>5. CASE x = c /\ cmd.by # "client"
      <4>1. revoked'[c] = revoked[c] \cup {q \in granted[c] : c \notin DOMAIN holders'[q]}
        BY <3>5, <2>2, <1>1, <1>3
      <4> QED BY <4>1, <3>5 DEF Holds
    <3> QED BY <3>3, <3>4, <3>5
  <2> QED BY <2>3, <2>4, <1>6, <1>8 DEF GrantInv
<1> QED BY <1>4, <1>9, <1>10

LEMMA InitGrant == Init => GrantInv
<1> SUFFICES ASSUME Init PROVE GrantInv OBVIOUS
<1>1. DOMAIN underWay = {} /\ \A c \in Client : granted[c] = {} BY DEF Init
<1> QED BY <1>1 DEF GrantInv, OneAwaited, AwaitedIsCalled, GivenBack, GrantStands

LEMMA GrantStep == Inv /\ GrantInv /\ [Next]_vars => GrantInv'
<1> SUFFICES ASSUME Inv, GrantInv, [Next]_vars PROVE GrantInv' OBVIOUS
<1>1. /\ underWay \in Seq(Command) /\ call \in [Client -> Call]
      /\ granted \in [Client -> SUBSET Resource] /\ revoked \in [Client -> SUBSET Resource]
      /\ AwaitedIsCalled
  BY DEF Inv, TypeOK, GrantInv
<1>2. ASSUME UNCHANGED <<tableVars, detectVars>>, UNCHANGED <<underWay, granted, revoked>>,
             \A c \in Client : call'[c] = call[c] \/ NoneAwaited(c)
      PROVE  GrantInv'
  <2>1. OneAwaited' /\ GivenBack' BY <1>2 DEF GrantInv, OneAwaited, GivenBack
  <2>2. AwaitedIsCalled'
    <3> SUFFICES ASSUME NEW i \in DOMAIN underWay, underWay[i].by = "client", underWay[i].awaited
                 PROVE  LET q == call'[underWay[i].client]
                        IN  IF underWay[i].op = "acquire"
                            THEN q.kind = "acquire" /\ q.attempt = "submitted"
                            ELSE q.kind = "release"
      BY <1>2 DEF AwaitedIsCalled
    <3>1. underWay[i].client \in Client
      <4>1. underWay[i] \in Command BY <1>1, ElementOfSeq, LenProperties
      <4> QED BY <4>1, CommandFields
    <3>2. call'[underWay[i].client] = call[underWay[i].client] BY <3>1, <1>2 DEF NoneAwaited
    <3> QED BY <3>2, <1>1 DEF AwaitedIsCalled
  <2>3. GrantStands' BY <1>2, GrantsUntouched DEF GrantInv
  <2> QED BY <2>1, <2>2, <2>3 DEF GrantInv
<1>3. ASSUME NEW c \in Client, NEW r \in Resource, NEW mode \in Mode, CallAcquire(c, r, mode)
      PROVE  GrantInv'
  BY <1>1, <1>3, FreeToCall, SubmitAcquireGrant DEF CallAcquire
<1>4. ASSUME NEW c \in Client, Retry(c) PROVE GrantInv'
  <2>1. call[c].resource \in Resource /\ call[c].mode \in Mode
    <3>1. call[c] \in Call /\ call[c].kind = "acquire" BY <1>1, <1>4 DEF Retry
    <3> QED BY <3>1, CallTypes
  <2>2. NoneAwaited(c) BY <1>1, <1>4, FreeToCall DEF Retry
  <2>3. SubmitAcquire(c, call[c].resource, call[c].mode) BY <1>4 DEF Retry
  <2> QED BY <2>1, <2>2, <2>3, SubmitAcquireGrant
<1>5. ASSUME NEW c \in Client, GiveUp(c) PROVE GrantInv'
  <2>1. UNCHANGED <<tableVars, detectVars>> /\ UNCHANGED <<underWay, granted, revoked>>
        /\ call' = [call EXCEPT ![c] = Idle]
    BY <1>5 DEF GiveUp, histVars
  <2>2. NoneAwaited(c) BY <1>1, <1>5, FreeToCall DEF GiveUp
  <2>3. \A x \in Client : call'[x] = call[x] \/ NoneAwaited(x) BY <2>1, <2>2
  <2> QED BY <2>1, <2>3, <1>2
<1>6. ASSUME NEW c \in Client, NEW r \in Resource, CallRelease(c, r) PROVE GrantInv'
  <2> DEFINE cmd == [op |-> "release", client |-> c, resource |-> r, by |-> "client",
                     awaited |-> TRUE]
  <2>1. /\ cmd \in Command /\ cmd.client = c /\ cmd.by = "client" /\ cmd.op = "release"
        /\ cmd.resource = r
    BY SubmittedTypes
  <2>2. /\ Submit(cmd) /\ call' = [call EXCEPT ![c] = [kind |-> "release"]]
        /\ granted' = [granted EXCEPT ![c] = @ \ {r}]
        /\ revoked' = [revoked EXCEPT ![c] = @ \ {r}]
    BY <1>6 DEF CallRelease
  <2> HIDE DEF cmd
  <2>3. NoneAwaited(c) BY <1>1, <1>6, FreeToCall DEF CallRelease
  <2>4. cmd.op # "acquire" /\ cmd.resource \in {r} /\ {r} \in SUBSET Resource BY <2>1
  <2> QED BY <2>1, <2>2, <2>3, <2>4, SubmitReleaseGrant
<1>7. ASSUME NEW c \in Client, CallReleaseAll(c) PROVE GrantInv'
  <2> DEFINE cmd == [op |-> "release_all", client |-> c, by |-> "client", awaited |-> TRUE]
  <2>1. /\ cmd \in Command /\ cmd.client = c /\ cmd.by = "client" /\ cmd.op = "release_all"
    BY SubmittedTypes
  <2>2. /\ Submit(cmd) /\ call' = [call EXCEPT ![c] = [kind |-> "release"]]
        /\ granted' = [granted EXCEPT ![c] = {}]
        /\ revoked' = [revoked EXCEPT ![c] = {}]
    BY <1>7 DEF CallReleaseAll
  <2> HIDE DEF cmd
  <2>3. NoneAwaited(c) BY <1>1, <1>7, FreeToCall DEF CallReleaseAll
  <2>4. granted[c] \ Resource = {} /\ revoked[c] \ Resource = {} /\ granted[c] \subseteq Resource
    BY <1>1
  <2>5. /\ granted' = [granted EXCEPT ![c] = @ \ Resource]
        /\ revoked' = [revoked EXCEPT ![c] = @ \ Resource]
    BY <2>2, <2>4
  <2>6. cmd.op # "acquire" /\ cmd.op # "release" /\ Resource \in SUBSET Resource BY <2>1
  <2> QED BY <2>1, <2>2, <2>3, <2>4, <2>5, <2>6, SubmitReleaseGrant
<1>8. ASSUME NEW c \in Client, NEW r \in Resource, ReleaseExpired(c, r) PROVE GrantInv'
  <2> DEFINE cmd == [op |-> "release", client |-> c, resource |-> r, by |-> "lease loop",
                     awaited |-> TRUE]
  <2>1. cmd \in Command /\ cmd.by # "client" BY SubmittedTypes
  <2>2. Submit(cmd) /\ UNCHANGED <<call, granted, revoked>>
    BY <1>8 DEF ReleaseExpired, histVars
  <2> HIDE DEF cmd
  <2> QED BY <2>1, <2>2, SubmitLoopGrant
<1>9. ASSUME NEW c \in Client, DetectDeadlock(c) PROVE GrantInv'
  <2> DEFINE cmd == [op |-> "abort", client |-> c, by |-> "deadlock loop", awaited |-> TRUE]
  <2>1. cmd \in Command /\ cmd.by # "client" BY SubmittedTypes
  <2>2. Submit(cmd) /\ UNCHANGED <<call, granted, revoked>>
    BY <1>9 DEF DetectDeadlock, histVars
  <2> HIDE DEF cmd
  <2> QED BY <2>1, <2>2, SubmitLoopGrant
<1>10. ASSUME NEW r \in Resource, NEW C \in SUBSET Client, FindExpired(r, C) PROVE GrantInv'
  <2>1. UNCHANGED <<tableVars, detectVars>> /\ UNCHANGED <<underWay, call, granted, revoked>>
    BY <1>10 DEF FindExpired, histVars
  <2> QED BY <2>1, <1>2
<1>11. CASE UNCHANGED vars
  <2>1. UNCHANGED <<tableVars, detectVars>> /\ UNCHANGED <<underWay, call, granted, revoked>>
    BY <1>11 DEF vars, callVars, histVars
  <2> QED BY <2>1, <1>2
<1> QED BY <1>3, <1>4, <1>5, <1>6, <1>7, <1>8, <1>9, <1>10, <1>11, TimeoutGrant, ApplyGrant DEF Next

(* A client that was told it has a lock has it until it gives it back or a  *)
(* loop of the service takes it: no late, repeated or abandoned command of  *)
(* its own ever takes it away.                                              *)
THEOREM GrantsStand == Spec => []GrantStands
<1>1. Inv /\ GrantInv => GrantStands BY DEF GrantInv
<1> QED BY <1>1, InitInv, InvStep, InitGrant, GrantStep, PTL DEF Spec
=============================================================================
