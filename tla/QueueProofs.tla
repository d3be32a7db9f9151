----------------------------- MODULE QueueProofs -----------------------------
(***************************************************************************)
(* Proofs about the queue (QueueNode.tla), for any number of nodes and     *)
(* messages, any replication factor and channel size.                      *)
(***************************************************************************)
EXTENDS QueueNode, FiniteSetTheorems, SequenceTheorems, TLAPS

(***************************************************************************)
(* Queues.                                                                 *)
(***************************************************************************)

(* A queue or a log holds m; it holds m at most once. *)
In(q, m) == \E k \in DOMAIN q : q[k].id = m
Once(q, m) == \A j, k \in DOMAIN q : q[j].id = m /\ q[k].id = m => j = k

LEMMA ConcatHolds ==
  ASSUME NEW q \in Seq(Copy), NEW r \in Seq(Copy), NEW m
  PROVE  /\ q \o r \in Seq(Copy)
         /\ In(q \o r, m) <=> In(q, m) \/ In(r, m)
         /\ Once(q, m) /\ Once(r, m) /\ ~(In(q, m) /\ In(r, m)) => Once(q \o r, m)
<1> DEFINE c == q \o r
<1>1. /\ c \in Seq(Copy) /\ Len(c) = Len(q) + Len(r)
      /\ \A i \in 1..Len(q) + Len(r) : c[i] = IF i <= Len(q) THEN q[i] ELSE r[i - Len(q)]
  BY ConcatProperties
<1>2. /\ Len(q) \in Nat /\ Len(r) \in Nat
      /\ DOMAIN q = 1..Len(q) /\ DOMAIN r = 1..Len(r) /\ DOMAIN c = 1..Len(q) + Len(r)
  BY <1>1, LenProperties
<1> HIDE DEF c
<1>3. \A i \in DOMAIN q : i \in DOMAIN c /\ c[i] = q[i] BY <1>1, <1>2
<1>4. ASSUME NEW i \in DOMAIN r PROVE i + Len(q) \in DOMAIN c /\ c[i + Len(q)] = r[i]
  <2>1. i + Len(q) \in 1..Len(q) + Len(r) /\ ~(i + Len(q) <= Len(q)) /\ i + Len(q) - Len(q) = i
    BY <1>2
  <2> QED BY <1>1, <1>2, <2>1
<1>5. \A i \in DOMAIN c : \/ i \in DOMAIN q /\ c[i] = q[i]
                          \/ i - Len(q) \in DOMAIN r /\ c[i] = r[i - Len(q)]
  BY <1>1, <1>2
<1>6. In(c, m) <=> In(q, m) \/ In(r, m) BY <1>3, <1>4, <1>5 DEF In
<1>7. ASSUME Once(q, m), Once(r, m), ~(In(q, m) /\ In(r, m)) PROVE Once(c, m)
  <2> SUFFICES ASSUME NEW i \in DOMAIN c, NEW j \in DOMAIN c, c[i].id = m, c[j].id = m
               PROVE  i = j
    BY DEF Once
  <2>1. i \in Nat /\ j \in Nat BY <1>2
  <2>2. CASE i \in DOMAIN q /\ c[i] = q[i]
    <3>1. In(q, m) BY <2>2 DEF In
    <3>2. j \in DOMAIN q /\ c[j] = q[j] BY <1>5, <1>7, <3>1 DEF In
    <3> QED BY <1>7, <2>2, <3>2 DEF Once
  <2>3. CASE i - Len(q) \in DOMAIN r /\ c[i] = r[i - Len(q)]
    <3>1. In(r, m) BY <2>3 DEF In
    <3>2. j - Len(q) \in DOMAIN r /\ c[j] = r[j - Len(q)] BY <1>5, <1>7, <3>1 DEF In
    <3>3. i - Len(q) = j - Len(q) BY <1>7, <2>3, <3>2 DEF Once
    <3> QED BY <1>2, <2>1, <3>3
  <2> QED BY <1>5, <2>2, <2>3
<1> QED BY <1>1, <1>6, <1>7 DEF c

LEMMA OneCopyQueue ==
  ASSUME NEW c \in Copy, NEW m
  PROVE  <<c>> \in Seq(Copy) /\ (In(<<c>>, m) <=> c.id = m) /\ Once(<<c>>, m)
BY DEF In, Once

LEMMA NoCopyQueue ==
  ASSUME NEW m
  PROVE  <<>> \in Seq(Copy) /\ ~In(<<>>, m) /\ Once(<<>>, m)
BY DEF In, Once

(* The k-th copy, and only that one, leaves the queue. *)
LEMMA WithoutHolds ==
  ASSUME NEW q \in Seq(Copy), NEW k \in DOMAIN q, NEW m
  PROVE  /\ WithoutNth(q, k) \in Seq(Copy)
         /\ In(WithoutNth(q, k), m) => In(q, m)
         /\ In(q, m) => In(WithoutNth(q, k), m) \/ q[k].id = m
         /\ Once(q, m) => /\ Once(WithoutNth(q, k), m)
                          /\ q[k].id = m => ~In(WithoutNth(q, k), m)
<1> DEFINE a == SubSeq(q, k + 1, Len(q))
           b == SubSeq(q, 1, k - 1)
<1>1. Len(q) \in Nat /\ DOMAIN q = 1..Len(q) /\ k \in Nat /\ \A i \in DOMAIN q : q[i] \in Copy
  BY LenProperties, ElementOfSeq
<1>2. /\ a \in Seq(Copy) /\ Len(a) = Len(q) - k
      /\ \A i \in 1..Len(q) - k : a[i] = q[k + i]
  <2>1. \A i \in k + 1..Len(q) : q[i] \in Copy BY <1>1
  <2>2. /\ a \in Seq(Copy)
        /\ Len(a) = IF k + 1 <= Len(q) THEN Len(q) - (k + 1) + 1 ELSE 0
        /\ \A i \in 1..Len(q) - (k + 1) + 1 : a[i] = q[(k + 1) + i - 1]
    BY <1>1, <2>1, SubSeqProperties
  <2> HIDE DEF a
  <2>3. Len(a) = Len(q) - k BY <1>1, <2>2
  <2>4. ASSUME NEW i \in 1..Len(q) - k PROVE a[i] = q[k + i]
    <3>1. i \in 1..Len(q) - (k + 1) + 1 /\ (k + 1) + i - 1 = k + i BY <1>1
    <3> QED BY <2>2, <3>1
  <2> QED BY <2>2, <2>3, <2>4
<1>3. /\ b \in Seq(Copy) /\ Len(b) = k - 1
      /\ \A i \in 1..k - 1 : b[i] = q[i]
  <2>1. \A i \in 1..k - 1 : q[i] \in Copy BY <1>1
  <2>2. /\ b \in Seq(Copy)
        /\ Len(b) = IF 1 <= k - 1 THEN (k - 1) - 1 + 1 ELSE 0
        /\ \A i \in 1..(k - 1) - 1 + 1 : b[i] = q[1 + i - 1]
    BY <1>1, <2>1, SubSeqProperties
  <2> HIDE DEF b
  <2>3. Len(b) = k - 1 BY <1>1, <2>2
  <2>4. ASSUME NEW i \in 1..k - 1 PROVE b[i] = q[i]
    <3>1. i \in 1..(k - 1) - 1 + 1 /\ 1 + i - 1 = i BY <1>1
    <3> QED BY <2>2, <3>1
  <2> QED BY <2>2, <2>3, <2>4
<1> HIDE DEF a, b
<1>4. DOMAIN a = 1..Len(q) - k /\ DOMAIN b = 1..k - 1 BY <1>2, <1>3, LenProperties
<1>5. \A i \in DOMAIN a : k + i \in DOMAIN q /\ k + i # k /\ a[i] = q[k + i] BY <1>1, <1>2, <1>4
<1>6. \A i \in DOMAIN b : i \in DOMAIN q /\ i < k /\ b[i] = q[i] BY <1>1, <1>3, <1>4
<1>7. In(a, m) => \E j \in DOMAIN q : j > k /\ q[j].id = m BY <1>1, <1>4, <1>5 DEF In
<1>8. In(b, m) => \E j \in DOMAIN q : j < k /\ q[j].id = m BY <1>6 DEF In
<1>9. ASSUME In(q, m), q[k].id # m PROVE In(a, m) \/ In(b, m)
  <2>1. PICK j \in DOMAIN q : q[j].id = m BY <1>9 DEF In
  <2>2. CASE j < k
    <3>1. j \in DOMAIN b /\ b[j] = q[j] BY <1>1, <1>3, <1>4, <2>2
    <3> QED BY <2>1, <3>1 DEF In
  <2>3. CASE j > k
    <3>1. j - k \in DOMAIN a /\ k + (j - k) = j BY <1>1, <1>4, <2>3
    <3>2. a[j - k] = q[j] BY <1>5, <3>1
    <3> QED BY <2>1, <3>1, <3>2 DEF In
  <2>4. j # k BY <1>9, <2>1
  <2> QED BY <1>1, <2>2, <2>3, <2>4
<1>10. ASSUME Once(q, m) PROVE Once(a, m) /\ Once(b, m) /\ ~(In(a, m) /\ In(b, m))
  <2>1. Once(b, m) BY <1>6, <1>10 DEF Once
  <2>2. ASSUME NEW i \in DOMAIN a, NEW j \in DOMAIN a, a[i].id = m, a[j].id = m PROVE i = j
    <3>1. k + i = k + j BY <1>5, <1>10, <2>2 DEF Once
    <3> QED BY <1>1, <1>4, <3>1
  <2>3. ~(In(a, m) /\ In(b, m)) BY <1>1, <1>7, <1>8, <1>10 DEF Once
  <2> QED BY <2>1, <2>2, <2>3 DEF Once
<1>11. ASSUME Once(q, m), q[k].id = m PROVE ~In(a, m) /\ ~In(b, m)
  BY <1>1, <1>7, <1>8, <1>11 DEF Once
<1>12. WithoutNth(q, k) = a \o b BY DEF WithoutNth, a, b
<1>13. /\ a \o b \in Seq(Copy)
       /\ In(a \o b, m) <=> In(a, m) \/ In(b, m)
       /\ Once(a, m) /\ Once(b, m) /\ ~(In(a, m) /\ In(b, m)) => Once(a \o b, m)
  BY <1>2, <1>3, ConcatHolds
<1>14. In(a, m) => In(q, m) BY <1>7 DEF In
<1>15. In(b, m) => In(q, m) BY <1>8 DEF In
<1> QED BY <1>9, <1>10, <1>11, <1>12, <1>13, <1>14, <1>15

(* A copy is hidden or shown again in its place. *)
LEMMA ShownHolds ==
  ASSUME NEW q \in Seq(Copy), NEW k \in DOMAIN q, NEW c \in Copy, c.id = q[k].id, NEW m
  PROVE  /\ [q EXCEPT ![k] = c] \in Seq(Copy)
         /\ In([q EXCEPT ![k] = c], m) <=> In(q, m)
         /\ Once(q, m) => Once([q EXCEPT ![k] = c], m)
<1> DEFINE r == [q EXCEPT ![k] = c]
<1>1. DOMAIN q = 1..Len(q) BY LenProperties
<1>2. r \in Seq(Copy) BY <1>1, ExceptSeq
<1>3. DOMAIN r = DOMAIN q /\ \A i \in DOMAIN q : r[i].id = q[i].id OBVIOUS
<1> HIDE DEF r
<1>4. (In(r, m) <=> In(q, m)) /\ (Once(q, m) => Once(r, m)) BY <1>3 DEF In, Once
<1> QED BY <1>2, <1>4 DEF r

(* What is put back in any order is put back once. *)
LEMMA OrderHolds ==
  ASSUME NEW S \in SUBSET Msg, IsFiniteSet(S), NEW r \in InSomeOrder(S), NEW m
  PROVE  r \in Seq(Copy) /\ (In(r, m) <=> m \in S) /\ Once(r, m)
<1> DEFINE n == Cardinality(S)
<1>1. n \in Nat BY FS_CardinalityType
<1>2. PICK f \in [1..n -> S] :
        /\ \A x \in S : \E i \in DOMAIN f : f[i] = x
        /\ r = [i \in DOMAIN f |-> Visible(f[i])]
  BY DEF InSomeOrder
<1>3. IsFiniteSet(1..n) /\ Cardinality(1..n) = n
  <2>1. 1 \in Int /\ n \in Int BY <1>1
  <2> HIDE DEF n
  <2>2. IsFiniteSet(1..n) /\ Cardinality(1..n) = IF 1 > n THEN 0 ELSE n - 1 + 1
    BY <2>1, FS_Interval
  <2> QED BY <1>1, <2>2
<1>4. f \in Surjection(1..n, S) BY <1>2 DEF Surjection
<1>5. f \in Injection(1..n, S) BY <1>3, <1>4, FS_SurjSameCardinalityImpliesInj
<1>6. \A i, j \in 1..n : f[i] = f[j] => i = j BY <1>5 DEF Injection, IsInjective
<1> HIDE DEF n
<1>7. DOMAIN r = 1..n /\ \A i \in 1..n : r[i] = Visible(f[i]) /\ f[i] \in S BY <1>2
<1>8. ASSUME NEW i \in 1..n PROVE r[i] \in Copy /\ r[i].id = f[i]
  <2>1. f[i] \in Msg /\ r[i] = Visible(f[i]) BY <1>7
  <2>2. Visible(f[i]) \in Copy /\ Visible(f[i]).id = f[i] BY <2>1 DEF Visible, Copy
  <2> QED BY <2>1, <2>2
<1>9. r \in Seq(Copy)
  <2>1. r \in [1..n -> Copy] BY <1>2, <1>7, <1>8
  <2> QED BY <1>1, <2>1
<1>10. In(r, m) <=> m \in S BY <1>2, <1>7, <1>8 DEF In
<1>11. Once(r, m) BY <1>6, <1>7, <1>8 DEF Once
<1> QED BY <1>9, <1>10, <1>11

(***************************************************************************)
(* Channels.                                                               *)
(***************************************************************************)

(* msg brings a copy of m; a channel holds one that does, at most one.      *)
Carries(msg, m) == msg.type = "enqueue" /\ msg.copy.id = m
Sent(q, m) == \E i \in DOMAIN q : Carries(q[i], m)
SentOnce(q, m) == \A i, j \in DOMAIN q : Carries(q[i], m) /\ Carries(q[j], m) => i = j

(* The messages of a channel. *)
On(q) == {q[i] : i \in DOMAIN q}

LEMMA AppendBrings ==
  ASSUME NEW q \in Seq(Messages), NEW msg \in Messages, NEW m
  PROVE  /\ Append(q, msg) \in Seq(Messages)
         /\ On(Append(q, msg)) = On(q) \cup {msg}
         /\ Sent(Append(q, msg), m) <=> Sent(q, m) \/ Carries(msg, m)
         /\ SentOnce(q, m) /\ ~(Sent(q, m) /\ Carries(msg, m)) => SentOnce(Append(q, msg), m)
<1> DEFINE r == Append(q, msg)
<1>1. /\ r \in Seq(Messages) /\ Len(r) = Len(q) + 1
      /\ \A i \in 1..Len(q) : r[i] = q[i]
      /\ r[Len(q) + 1] = msg
  BY AppendProperties
<1> HIDE DEF r
<1>2. Len(q) \in Nat /\ DOMAIN q = 1..Len(q) /\ DOMAIN r = 1..Len(q) + 1 BY <1>1, LenProperties
<1>3. \A i \in DOMAIN r : (i \in DOMAIN q /\ r[i] = q[i]) \/ (i = Len(q) + 1 /\ r[i] = msg)
  BY <1>1, <1>2
<1>4. \A i \in DOMAIN q : i \in DOMAIN r /\ r[i] = q[i] BY <1>1, <1>2
<1>5. Len(q) + 1 \in DOMAIN r /\ r[Len(q) + 1] = msg /\ Len(q) + 1 \notin DOMAIN q BY <1>1, <1>2
<1>6. On(r) = On(q) \cup {msg}
  <2>1. \A x \in On(r) : x \in On(q) \cup {msg} BY <1>3 DEF On
  <2>2. \A x \in On(q) : x \in On(r) BY <1>4 DEF On
  <2>3. msg \in On(r) BY <1>5 DEF On
  <2> QED BY <2>1, <2>2, <2>3
<1>7. Sent(r, m) <=> Sent(q, m) \/ Carries(msg, m) BY <1>3, <1>4, <1>5 DEF Sent
<1>8. SentOnce(q, m) /\ ~(Sent(q, m) /\ Carries(msg, m)) => SentOnce(r, m)
  BY <1>3 DEF Sent, SentOnce
<1> QED BY <1>1, <1>6, <1>7, <1>8 DEF r

LEMMA TailBrings ==
  ASSUME NEW q \in Seq(Messages), q # <<>>, NEW m
  PROVE  /\ Head(q) \in Messages /\ Head(q) \in On(q)
         /\ Tail(q) \in Seq(Messages) /\ On(Tail(q)) \subseteq On(q)
         /\ Sent(Tail(q), m) => Sent(q, m)
         /\ Carries(Head(q), m) => Sent(q, m)
         /\ SentOnce(q, m) => /\ SentOnce(Tail(q), m)
                              /\ Carries(Head(q), m) => ~Sent(Tail(q), m)
<1> DEFINE r == Tail(q)
<1>1. /\ Head(q) \in Messages /\ r \in Seq(Messages) /\ Len(r) = Len(q) - 1
      /\ \A i \in 1..Len(r) : r[i] = q[i + 1]
  BY HeadTailProperties
<1>2. /\ Len(q) \in Nat \ {0} /\ DOMAIN q = 1..Len(q) /\ DOMAIN r = 1..Len(q) - 1
      /\ 1 \in DOMAIN q
  BY <1>1, LenProperties, EmptySeq
<1>3. Head(q) = q[1] BY <1>2
<1> HIDE DEF r
<1>4. \A i \in DOMAIN r : i + 1 \in DOMAIN q /\ i + 1 # 1 /\ r[i] = q[i + 1] BY <1>1, <1>2
<1>5. Head(q) \in On(q) /\ On(r) \subseteq On(q) BY <1>2, <1>3, <1>4 DEF On
<1>6. Sent(r, m) => Sent(q, m) BY <1>4 DEF Sent
<1>7. Carries(Head(q), m) => Sent(q, m) BY <1>2, <1>3 DEF Sent
<1>8. ASSUME SentOnce(q, m) PROVE SentOnce(r, m) /\ (Carries(Head(q), m) => ~Sent(r, m))
  <2>1. ASSUME NEW i \in DOMAIN r, NEW j \in DOMAIN r, Carries(r[i], m), Carries(r[j], m)
        PROVE  i = j
    <3>1. i + 1 = j + 1 BY <1>4, <1>8, <2>1 DEF SentOnce
    <3> QED BY <1>2, <3>1
  <2>2. Carries(Head(q), m) => ~Sent(r, m) BY <1>2, <1>3, <1>4, <1>8 DEF SentOnce, Sent
  <2> QED BY <2>1, <2>2 DEF SentOnce
<1> QED BY <1>1, <1>5, <1>6, <1>7, <1>8 DEF r

LEMMA SendBrings ==
  ASSUME NEW n \in Node, NEW out, Send(n, out)
  PROVE  /\ inbox' = [p \in Node |-> inbox'[p]]
         /\ \A p \in Node : \/ inbox'[p] = inbox[p]
                            \/ p \in DOMAIN out /\ inbox'[p] = Append(inbox[p], out[p])
BY DEF Send

LEMMA HandleTakes ==
  ASSUME NEW n \in Node, Handle(n)
  PROVE  /\ inbox' = [p \in Node |-> inbox'[p]]
         /\ inbox'[n] = Tail(inbox[n])
         /\ \A p \in Node \ {n} : inbox'[p] = inbox[p]
BY DEF Handle, HandleAndSend, NoMessage

LEMMA ReplyBrings ==
  ASSUME NEW n \in Node, NEW to, NEW m, Reply(n, to, m)
  PROVE  /\ inbox' = [p \in Node |-> inbox'[p]]
         /\ inbox'[n] = Tail(inbox[n])
         /\ \A p \in Node \ {n} : inbox'[p] = inbox[p] \/ inbox'[p] = Append(inbox[p], m)
BY DEF Reply, HandleAndSend

(***************************************************************************)
(* What the steps do to queues and channels.                               *)
(***************************************************************************)

(* TypeOK, but for what is held. *)
Kinds ==
  /\ inbox \in [Node -> Seq(Messages)] /\ partitions \subseteq Node
  /\ placed \in [Msg -> Placements \cup {<<>>}]
  /\ queues \in [Node -> Seq(Copy)] /\ logged \in [Node -> Seq(Copy)]
  /\ {inflight, expired, replicas, replicated} \subseteq [Node -> SUBSET Msg]
  /\ \A n \in Node : expired[n] \subseteq inflight[n] /\ dead[n] \subseteq Peers(n)
  /\ asked \in 0..MaxAsked /\ restarts \in 0..MaxRestarts
  /\ acked \subseteq Msg /\ delivered \subseteq Msg /\ doubled \subseteq Msg

(* From f to g, the queue (or log) of n gets the ids of A, once each.       *)
Adds(f, g, n, A) ==
  \A p \in Node : \A x :
    /\ In(g[p], x) <=> In(f[p], x) \/ (p = n /\ x \in A)
    /\ Once(f[p], x) /\ ~(p = n /\ x \in A /\ In(f[p], x)) => Once(g[p], x)

LEMMA ConcatAdds ==
  ASSUME NEW f \in [Node -> Seq(Copy)], NEW n \in Node, NEW S \in Seq(Copy), NEW A,
         \A x : (In(S, x) <=> x \in A) /\ Once(S, x),
         NEW g, g = [f EXCEPT ![n] = @ \o S]
  PROVE  g \in [Node -> Seq(Copy)] /\ Adds(f, g, n, A)
<1>1. f[n] \o S \in Seq(Copy) BY ConcatHolds
<1>2. g \in [Node -> Seq(Copy)] BY <1>1
<1>3. g[n] = f[n] \o S /\ \A p \in Node \ {n} : g[p] = f[p] OBVIOUS
<1>4. ASSUME NEW x
      PROVE  /\ In(g[n], x) <=> In(f[n], x) \/ x \in A
             /\ Once(f[n], x) /\ ~(x \in A /\ In(f[n], x)) => Once(g[n], x)
  <2>1. f[n] \in Seq(Copy) OBVIOUS
  <2>2. /\ In(f[n] \o S, x) <=> In(f[n], x) \/ In(S, x)
        /\ Once(f[n], x) /\ Once(S, x) /\ ~(In(f[n], x) /\ In(S, x)) => Once(f[n] \o S, x)
    BY <2>1, ConcatHolds
  <2> QED BY <1>3, <2>2
<1> QED BY <1>2, <1>3, <1>4 DEF Adds

(* Every channel is as it was, or got a message of M, which may bring A.    *)
ChannelsGet(M, A) ==
  /\ inbox' \in [Node -> Seq(Messages)]
  /\ \A p \in Node : On(inbox'[p]) \subseteq On(inbox[p]) \cup M
  /\ \A p \in Node : \A x :
       /\ Sent(inbox'[p], x) => Sent(inbox[p], x) \/ x \in A
       /\ SentOnce(inbox[p], x) /\ ~(Sent(inbox[p], x) /\ x \in A) => SentOnce(inbox'[p], x)

LEMMA SendGets ==
  ASSUME Kinds, NEW n \in Node, NEW out, Send(n, out), NEW M \in SUBSET Messages, NEW A,
         \A p \in Node \cap DOMAIN out : out[p] \in M,
         \A msg \in M : \A x : Carries(msg, x) => x \in A
  PROVE  ChannelsGet(M, A)
<1>1. inbox' = [p \in Node |-> inbox'[p]] BY SendBrings
<1>2. ASSUME NEW p \in Node
      PROVE  /\ inbox'[p] \in Seq(Messages) /\ On(inbox'[p]) \subseteq On(inbox[p]) \cup M
             /\ \A x : /\ Sent(inbox'[p], x) => Sent(inbox[p], x) \/ x \in A
                       /\ SentOnce(inbox[p], x) /\ ~(Sent(inbox[p], x) /\ x \in A)
                            => SentOnce(inbox'[p], x)
  <2>1. inbox[p] \in Seq(Messages) BY DEF Kinds
  <2>2. CASE inbox'[p] = inbox[p] BY <2>1, <2>2
  <2>3. CASE inbox'[p] # inbox[p]
    <3>1. p \in DOMAIN out /\ inbox'[p] = Append(inbox[p], out[p]) BY <2>3, SendBrings
    <3>2. out[p] \in M /\ out[p] \in Messages BY <3>1
    <3>3. \A x : Carries(out[p], x) => x \in A BY <3>2
    <3> DEFINE msg == out[p]
    <3> HIDE DEF msg
    <3>4. \A x :
            /\ Append(inbox[p], msg) \in Seq(Messages)
            /\ On(Append(inbox[p], msg)) = On(inbox[p]) \cup {msg}
            /\ Sent(Append(inbox[p], msg), x) <=> Sent(inbox[p], x) \/ Carries(msg, x)
            /\ SentOnce(inbox[p], x) /\ ~(Sent(inbox[p], x) /\ Carries(msg, x))
                 => SentOnce(Append(inbox[p], msg), x)
      BY <2>1, <3>2, AppendBrings DEF msg
    <3>5. inbox'[p] = Append(inbox[p], msg) /\ msg \in M /\ \A x : Carries(msg, x) => x \in A
      BY <3>1, <3>2, <3>3 DEF msg
    <3> QED BY <3>4, <3>5
  <2> QED BY <2>2, <2>3
<1> QED BY <1>1, <1>2 DEF ChannelsGet

(* The same of a handler, which took the head of n's channel. *)
LEMMA HandlerGets ==
  ASSUME Kinds, NEW n \in Node, inbox[n] # <<>>, NEW M \in SUBSET Messages, NEW A,
         inbox' = [p \in Node |-> inbox'[p]], inbox'[n] = Tail(inbox[n]),
         \A p \in Node \ {n} : inbox'[p] = inbox[p] \/ \E msg \in M : inbox'[p] = Append(inbox[p], msg),
         \A msg \in M : \A x : Carries(msg, x) => x \in A
  PROVE  ChannelsGet(M, A)
<1>1. /\ inbox'[n] \in Seq(Messages) /\ On(inbox'[n]) \subseteq On(inbox[n]) \cup M
      /\ \A x : /\ Sent(inbox'[n], x) => Sent(inbox[n], x) \/ x \in A
                /\ SentOnce(inbox[n], x) /\ ~(Sent(inbox[n], x) /\ x \in A)
                     => SentOnce(inbox'[n], x)
  <2>1. inbox[n] \in Seq(Messages) BY DEF Kinds
  <2> QED BY <2>1, TailBrings
<1>2. ASSUME NEW p \in Node \ {n}
      PROVE  /\ inbox'[p] \in Seq(Messages) /\ On(inbox'[p]) \subseteq On(inbox[p]) \cup M
             /\ \A x : /\ Sent(inbox'[p], x) => Sent(inbox[p], x) \/ x \in A
                       /\ SentOnce(inbox[p], x) /\ ~(Sent(inbox[p], x) /\ x \in A)
                            => SentOnce(inbox'[p], x)
  <2>1. inbox[p] \in Seq(Messages) BY DEF Kinds
  <2>2. CASE inbox'[p] = inbox[p] BY <2>1, <2>2
  <2>3. CASE inbox'[p] # inbox[p]
    <3>1. PICK msg \in M : inbox'[p] = Append(inbox[p], msg) BY <2>3
    <3>2. msg \in Messages /\ \A x : Carries(msg, x) => x \in A BY <3>1
    <3>3. \A x :
            /\ Append(inbox[p], msg) \in Seq(Messages)
            /\ On(Append(inbox[p], msg)) = On(inbox[p]) \cup {msg}
            /\ Sent(Append(inbox[p], msg), x) <=> Sent(inbox[p], x) \/ Carries(msg, x)
            /\ SentOnce(inbox[p], x) /\ ~(Sent(inbox[p], x) /\ Carries(msg, x))
                 => SentOnce(Append(inbox[p], msg), x)
      BY <2>1, <3>2, AppendBrings
    <3> QED BY <3>1, <3>2, <3>3
  <2> QED BY <2>2, <2>3
<1>3. inbox' \in [Node -> Seq(Messages)] BY <1>1, <1>2
<1>4. ASSUME NEW p \in Node
      PROVE  /\ On(inbox'[p]) \subseteq On(inbox[p]) \cup M
             /\ \A x : /\ Sent(inbox'[p], x) => Sent(inbox[p], x) \/ x \in A
                       /\ SentOnce(inbox[p], x) /\ ~(Sent(inbox[p], x) /\ x \in A)
                            => SentOnce(inbox'[p], x)
  BY <1>1, <1>2
<1> QED BY <1>3, <1>4 DEF ChannelsGet

LEMMA HandleGets ==
  ASSUME Kinds, NEW n \in Node, inbox[n] # <<>>, Handle(n)
  PROVE  ChannelsGet({}, {})
<1> DEFINE M == {}
<1>1. M \in SUBSET Messages /\ \A msg \in M : \A x : Carries(msg, x) => x \in {} OBVIOUS
<1> HIDE DEF M
<1>2. ChannelsGet(M, {}) BY <1>1, HandleTakes, HandlerGets
<1> QED BY <1>2 DEF M

LEMMA ReplyGets ==
  ASSUME Kinds, NEW n \in Node, inbox[n] # <<>>, NEW to, NEW m, NEW msg \in Messages,
         \A x : Carries(msg, x) => x = m, Reply(n, to, msg)
  PROVE  ChannelsGet({msg}, {m})
<1> DEFINE M == {msg}
<1>1. M \in SUBSET Messages /\ \A y \in M : \A x : Carries(y, x) => x \in {m} OBVIOUS
<1>2. \A p \in Node \ {n} : inbox'[p] = inbox[p] \/ \E y \in M : inbox'[p] = Append(inbox[p], y)
  BY ReplyBrings
<1> HIDE DEF M
<1>3. ChannelsGet(M, {m}) BY <1>1, <1>2, ReplyBrings, HandlerGets
<1> QED BY <1>3 DEF M

LEMMA HeadIsOn ==
  ASSUME Kinds, NEW n \in Node, inbox[n] # <<>>
  PROVE  /\ Head(inbox[n]) \in Messages /\ Head(inbox[n]) \in On(inbox[n])
         /\ Head(inbox[n]).from \in Node
         /\ Head(inbox[n]).type = "enqueue" => Head(inbox[n]).copy \in Copy
         /\ Head(inbox[n]).type \in {"replicate", "ack"} => Head(inbox[n]).id \in Msg
<1>1. inbox[n] \in Seq(Messages) BY DEF Kinds
<1>2. Head(inbox[n]) \in Messages /\ Head(inbox[n]) \in On(inbox[n]) BY <1>1, TailBrings
<1> QED BY <1>2 DEF Messages

LEMMA OnKinds ==
  ASSUME Kinds, NEW p \in Node, NEW msg \in On(inbox[p])
  PROVE  /\ msg \in Messages
         /\ msg.type = "enqueue" => msg.copy.id \in Msg
         /\ msg.type \in {"replicate", "ack"} => msg.id \in Msg
<1>1. inbox[p] \in Seq(Messages) /\ DOMAIN inbox[p] = 1..Len(inbox[p])
  BY LenProperties DEF Kinds
<1>2. msg \in Messages BY <1>1, ElementOfSeq DEF On
<1> QED BY <1>2 DEF Messages, Copy

(***************************************************************************)
(* Type correctness.  Besides the kinds: whatever is anywhere - on a node, *)
(* in a log or on its way - was enqueued, only finitely much is anywhere,  *)
(* and what an "ack" message names was acknowledged.                       *)
(***************************************************************************)

Around(p, x) ==
  \/ In(queues[p], x) \/ x \in inflight[p] \/ x \in replicas[p]
  \/ In(logged[p], x) \/ x \in replicated[p]

AllPlaced ==
  /\ \A p \in Node, x \in Msg : Around(p, x) => placed[x] # <<>>
  /\ \A p \in Node : \A msg \in On(inbox[p]) :
       /\ msg.type = "enqueue" => placed[msg.copy.id] # <<>>
       /\ msg.type = "replicate" => placed[msg.id] # <<>>
  /\ \A x \in acked : placed[x] # <<>>

Finite ==
  \A p \in Node :
    IsFiniteSet(inflight[p]) /\ IsFiniteSet(replicas[p]) /\ IsFiniteSet(replicated[p])

AcksAreTrue ==
  \A p \in Node : \A msg \in On(inbox[p]) : msg.type = "ack" => msg.id \in acked

TypeInv == Kinds /\ AllPlaced /\ Finite /\ AcksAreTrue

LEMMA HeldIs ==
  ASSUME Kinds
  PROVE  \A p \in Node : \A x :
           x \in Held(p) <=> x \in Msg /\ (In(queues[p], x) \/ x \in inflight[p] \/ x \in replicas[p])
<1> SUFFICES ASSUME NEW p \in Node, NEW x
             PROVE  x \in Held(p) <=>
                      x \in Msg /\ (In(queues[p], x) \/ x \in inflight[p] \/ x \in replicas[p])
  OBVIOUS
<1>1. inflight[p] \subseteq Msg /\ replicas[p] \subseteq Msg BY DEF Kinds
<1>2. In(queues[p], x) => x \in Msg
  <2>1. queues[p] \in Seq(Copy) /\ DOMAIN queues[p] = 1..Len(queues[p])
    BY LenProperties DEF Kinds
  <2>2. \A k \in DOMAIN queues[p] : queues[p][k] \in Copy BY <2>1, ElementOfSeq
  <2> QED BY <2>2 DEF In, Copy
<1>3. x \in QueuedOn(p) <=> In(queues[p], x) BY DEF QueuedOn, In
<1> QED BY <1>1, <1>2, <1>3 DEF Held

LEMMA TypeInvGivesType == TypeInv => TypeOK
<1> SUFFICES ASSUME TypeInv PROVE TypeOK OBVIOUS
<1>1. \A n \in Node : \A m \in Held(n) : placed[m] # <<>>
  BY HeldIs DEF TypeInv, AllPlaced, Around
<1> QED BY <1>1 DEF TypeInv, Kinds, TypeOK

LEMMA InitTypeInv == Init => TypeInv
<1> SUFFICES ASSUME Init PROVE TypeInv OBVIOUS
<1>1. <<>> \in Seq(Messages) /\ <<>> \in Seq(Copy) BY EmptySeq
<1>2. asked \in 0..MaxAsked /\ restarts \in 0..MaxRestarts BY QueueAssumption DEF Init
<1>3. /\ inbox = [n \in Node |-> <<>>] /\ partitions = {}
      /\ placed = [m \in Msg |-> <<>>]
      /\ queues = [n \in Node |-> <<>>] /\ logged = [n \in Node |-> <<>>]
      /\ inflight = [n \in Node |-> {}] /\ expired = [n \in Node |-> {}]
      /\ replicas = [n \in Node |-> {}] /\ replicated = [n \in Node |-> {}]
      /\ dead = [n \in Node |-> {}]
      /\ delivered = {} /\ acked = {} /\ doubled = {}
  BY DEF Init, BusInit, Empty
<1>4. Kinds BY <1>1, <1>2, <1>3 DEF Kinds
<1>5. Finite BY <1>3, FS_EmptySet DEF Finite
<1>6. \A p \in Node : On(inbox[p]) = {} /\ \A x : ~In(queues[p], x) /\ ~In(logged[p], x)
  BY <1>3 DEF On, In
<1>7. AllPlaced BY <1>3, <1>6 DEF AllPlaced, Around
<1>8. AcksAreTrue BY <1>6 DEF AcksAreTrue
<1> QED BY <1>4, <1>5, <1>7, <1>8 DEF TypeInv

LEMMA PlacementKinds ==
  ASSUME NEW s \in Placements
  PROVE  s # <<>> /\ s[1] \in Node /\ 1 \in DOMAIN s /\ DOMAIN s = 1..Len(s) /\ ReplicaNodes(s) \subseteq Node
<1>1. ReplicationFactor \in Nat /\ ReplicationFactor >= 1
  <2>1. Cardinality(Node) \in Nat BY BusAssumption, FS_CardinalityType
  <2> QED BY <2>1, QueueAssumption
<1>2. s \in [1..ReplicationFactor -> Node] BY DEF Placements
<1>3. s \in Seq(Node) BY <1>1, <1>2
<1>4. DOMAIN s = 1..Len(s) /\ 1 \in DOMAIN s BY <1>1, <1>2, <1>3, LenProperties
<1>5. \A i \in 2..Len(s) : i \in DOMAIN s BY <1>1, <1>3, <1>4, LenProperties
<1>6. \A i \in DOMAIN s : s[i] \in Node BY <1>2
<1>7. ReplicaNodes(s) \subseteq Node BY <1>5, <1>6 DEF ReplicaNodes
<1>8. s # <<>>
  <2>1. DOMAIN <<>> = {} OBVIOUS
  <2> QED BY <1>4, <2>1
<1> QED BY <1>4, <1>6, <1>7, <1>8

(* What Enqueue does to queues, logs and channels.                          *)
LEMMA EnqueueIds ==
  ASSUME Kinds, NEW n \in Node, NEW m \in Msg, NEW s \in Placements, Enqueue(n, m, s)
  PROVE  LET E == [type |-> "enqueue", from |-> n, copy |-> Visible(m)]
             R == [type |-> "replicate", from |-> n, id |-> m]
             A == IF s[1] = n THEN {m} ELSE {}
         IN /\ queues' \in [Node -> Seq(Copy)] /\ Adds(queues, queues', n, A)
            /\ logged' \in [Node -> Seq(Copy)] /\ Adds(logged, logged', n, A)
            /\ ChannelsGet({E, R}, {m} \ A)
            /\ E \in Messages /\ R \in Messages
            /\ \A p \in Node : p # s[1] =>
                 \A x : Sent(inbox'[p], x) => Sent(inbox[p], x)
<1> DEFINE E == [type |-> "enqueue", from |-> n, copy |-> Visible(m)]
           R == [type |-> "replicate", from |-> n, id |-> m]
           A == IF s[1] = n THEN {m} ELSE {}
           S == IF s[1] = n THEN <<Visible(m)>> ELSE <<>>
           D == {s[i] : i \in DOMAIN s} \ {n}
           out == [r \in D |-> IF r = s[1] THEN E ELSE R]
<1>1. Visible(m) \in Copy /\ Visible(m).id = m BY DEF Visible, Copy
<1>2. S \in Seq(Copy) /\ \A x : (In(S, x) <=> x \in A) /\ Once(S, x)
  <2>1. CASE s[1] = n BY <1>1, <2>1, OneCopyQueue
  <2>2. CASE s[1] # n BY <2>2, NoCopyQueue
  <2> QED BY <2>1, <2>2
<1>3. Store(n, S) /\ Send(n, out) BY DEF Enqueue
<1>4. E \in Messages /\ R \in Messages /\ R.type = "replicate" /\ E.copy.id = m
  BY <1>1 DEF Messages
<1>5. s[1] = n => n \notin D OBVIOUS
<1>6. \A p \in Node \cap DOMAIN out : out[p] \in {E, R} /\ (p # s[1] => out[p] = R)
                                       /\ (s[1] = n => out[p] = R)
  BY <1>5
<1>7. Adds(queues, queues', n, A) /\ queues' \in [Node -> Seq(Copy)]
      /\ Adds(logged, logged', n, A) /\ logged' \in [Node -> Seq(Copy)]
  <2>1. queues' = [queues EXCEPT ![n] = @ \o S] /\ logged' = [logged EXCEPT ![n] = @ \o S]
    BY <1>3 DEF Store
  <2>2. queues \in [Node -> Seq(Copy)] /\ logged \in [Node -> Seq(Copy)] BY DEF Kinds
  <2> HIDE DEF S, A
  <2> QED BY <1>2, <2>1, <2>2, ConcatAdds
<1>8. ChannelsGet({E, R}, {m} \ A)
  <2>1. CASE s[1] = n
    <3> DEFINE M == {R}
               B == {}
    <3>1. M \in SUBSET Messages /\ \A p \in Node \cap DOMAIN out : out[p] \in M
      BY <1>4, <1>6, <2>1
    <3>2. \A msg \in M : \A x : Carries(msg, x) => x \in B BY <1>4 DEF Carries
    <3> HIDE DEF M, out, R, B
    <3>3. ChannelsGet(M, B) BY <1>3, <3>1, <3>2, SendGets
    <3>4. M \subseteq {E, R} /\ B = {m} \ A BY <2>1 DEF M, B
    <3> HIDE DEF E, A
    <3> QED BY <3>3, <3>4 DEF ChannelsGet
  <2>2. CASE s[1] # n
    <3> DEFINE M == {E, R}
               B == {m}
    <3>1. M \in SUBSET Messages /\ \A p \in Node \cap DOMAIN out : out[p] \in M BY <1>4, <1>6
    <3>2. \A msg \in M : \A x : Carries(msg, x) => x \in B BY <1>4 DEF Carries
    <3>3. B = {m} \ A BY <2>2
    <3> HIDE DEF M, B, out, E, R, A
    <3>4. ChannelsGet(M, B) BY <1>3, <3>1, <3>2, SendGets
    <3> QED BY <3>3, <3>4 DEF M
  <2> QED BY <2>1, <2>2
<1>9. ASSUME NEW p \in Node, p # s[1], NEW x, Sent(inbox'[p], x) PROVE Sent(inbox[p], x)
  <2>1. inbox'[p] = inbox[p] \/ (p \in DOMAIN out /\ inbox'[p] = Append(inbox[p], out[p]))
    BY <1>3, SendBrings
  <2>2. CASE inbox'[p] = inbox[p] BY <1>9, <2>2
  <2>3. CASE p \in DOMAIN out /\ inbox'[p] = Append(inbox[p], R)
    <3>1. inbox[p] \in Seq(Messages) BY DEF Kinds
    <3>2. ~Carries(R, x) BY DEF Carries
    <3> HIDE DEF R
    <3>3. Sent(Append(inbox[p], R), x) <=> Sent(inbox[p], x) \/ Carries(R, x)
      BY <1>4, <3>1, AppendBrings
    <3> QED BY <1>9, <2>3, <3>2, <3>3
  <2> QED BY <1>6, <1>9, <2>1, <2>2, <2>3
<1> HIDE DEF E, R, A
<1> QED BY <1>4, <1>7, <1>8, <1>9 DEF E, R, A

LEMMA EnqueueType ==
  ASSUME TypeInv, NEW n \in Node, NEW m \in Msg, NEW s \in Placements, Enqueue(n, m, s)
  PROVE  TypeInv'
<1> DEFINE E == [type |-> "enqueue", from |-> n, copy |-> Visible(m)]
           R == [type |-> "replicate", from |-> n, id |-> m]
           A == IF s[1] = n THEN {m} ELSE {}
           B == IF n \in ReplicaNodes(s) THEN {m} ELSE {}
<1>1. Kinds /\ AllPlaced /\ Finite /\ AcksAreTrue BY DEF TypeInv
<1>2. /\ queues' \in [Node -> Seq(Copy)] /\ Adds(queues, queues', n, A)
      /\ logged' \in [Node -> Seq(Copy)] /\ Adds(logged, logged', n, A)
      /\ ChannelsGet({E, R}, {m} \ A)
  BY <1>1, EnqueueIds
<1>3. /\ placed' = [placed EXCEPT ![m] = s]
      /\ replicas' = [replicas EXCEPT ![n] = @ \cup B]
      /\ replicated' = [replicated EXCEPT ![n] = @ \cup B]
      /\ UNCHANGED <<partitions, inflight, expired, dead, asked, restarts, history>>
  BY DEF Enqueue, Replicate
<1>4. B \subseteq Msg /\ B \subseteq {m} /\ A \subseteq {m} OBVIOUS
<1>5. s # <<>> BY PlacementKinds
<1>6. inbox' \in [Node -> Seq(Messages)] /\ \A p \in Node : On(inbox'[p]) \subseteq On(inbox[p]) \cup {E, R}
  BY <1>2 DEF ChannelsGet
<1>7. /\ E.type = "enqueue" /\ E.copy.id = m
      /\ R.type = "replicate" /\ R.id = m
  BY DEF Visible
<1> HIDE DEF A, B, E, R
<1>8. placed' \in [Msg -> Placements \cup {<<>>}] BY <1>1, <1>3 DEF Kinds
<1>9. replicas' \in [Node -> SUBSET Msg] /\ replicated' \in [Node -> SUBSET Msg]
  BY <1>1, <1>3, <1>4 DEF Kinds
<1>10. Kinds' BY <1>1, <1>2, <1>3, <1>6, <1>8, <1>9 DEF Kinds, history
<1>11. Finite'
  <2>1. IsFiniteSet(B)
    <3>1. IsFiniteSet({m}) BY FS_Singleton
    <3> QED BY <1>4, <3>1, FS_Subset
  <2>2. \A p \in Node : IsFiniteSet(replicas[p] \cup B) /\ IsFiniteSet(replicated[p] \cup B)
    BY <1>1, <2>1, FS_Union DEF Finite
  <2>3. \A p \in Node : /\ replicas'[p] = replicas[p] \/ replicas'[p] = replicas[p] \cup B
                        /\ replicated'[p] = replicated[p] \/ replicated'[p] = replicated[p] \cup B
    BY <1>1, <1>3 DEF Kinds
  <2>4. \A p \in Node : inflight'[p] = inflight[p] BY <1>3
  <2> QED BY <1>1, <2>2, <2>3, <2>4 DEF Finite
<1>12. \A x \in Msg : placed[x] # <<>> \/ x = m => placed'[x] # <<>>
  BY <1>1, <1>3, <1>5 DEF Kinds
<1>13. ASSUME NEW p \in Node, NEW x \in Msg, Around(p, x)' PROVE Around(p, x) \/ x = m
  <2>1. /\ In(queues'[p], x) => In(queues[p], x) \/ x = m
        /\ In(logged'[p], x) => In(logged[p], x) \/ x = m
    BY <1>2, <1>4 DEF Adds
  <2>2. /\ x \in replicas'[p] => x \in replicas[p] \/ x = m
        /\ x \in replicated'[p] => x \in replicated[p] \/ x = m
    BY <1>1, <1>3, <1>4 DEF Kinds
  <2> QED BY <1>3, <1>13, <2>1, <2>2 DEF Around
<1>14. AllPlaced'
  <2>1. \A p \in Node, x \in Msg : Around(p, x)' => placed'[x] # <<>>
    BY <1>1, <1>12, <1>13 DEF AllPlaced
  <2>2. ASSUME NEW p \in Node, NEW msg \in On(inbox'[p])
        PROVE  /\ msg.type = "enqueue" => placed'[msg.copy.id] # <<>>
               /\ msg.type = "replicate" => placed'[msg.id] # <<>>
    <3>1. CASE msg \in {E, R} BY <1>7, <1>12, <3>1
    <3>2. CASE msg \in On(inbox[p])
      <4>1. /\ msg.type = "enqueue" => msg.copy.id \in Msg
            /\ msg.type = "replicate" => msg.id \in Msg
        BY <1>1, <3>2, OnKinds
      <4> QED BY <1>1, <1>12, <3>2, <4>1 DEF AllPlaced
    <3> QED BY <1>6, <2>2, <3>1, <3>2
  <2>3. \A x \in acked' : placed'[x] # <<>> BY <1>1, <1>3, <1>12 DEF AllPlaced, Kinds, history
  <2> QED BY <2>1, <2>2, <2>3 DEF AllPlaced
<1>15. AcksAreTrue' BY <1>1, <1>3, <1>6, <1>7 DEF AcksAreTrue, history
<1> QED BY <1>10, <1>11, <1>14, <1>15 DEF TypeInv

(* A step that places nothing, whose ids come from where they were, or from *)
(* a message.                                                               *)
LEMMA PlacedStep ==
  ASSUME AllPlaced, UNCHANGED placed, NEW M,
         \A p \in Node, x \in Msg :
           Around(p, x)' => placed[x] # <<>>,
         \A p \in Node : On(inbox'[p]) \subseteq On(inbox[p]) \cup M,
         \A msg \in M : /\ msg.type = "enqueue" => placed[msg.copy.id] # <<>>
                        /\ msg.type # "replicate",
         \A x \in acked' : x \in acked \/ placed[x] # <<>>
  PROVE  AllPlaced'
<1>1. \A p \in Node, x \in Msg : Around(p, x)' => placed'[x] # <<>> OBVIOUS
<1>2. \A p \in Node : \A msg \in On(inbox'[p]) :
        /\ msg.type = "enqueue" => placed'[msg.copy.id] # <<>>
        /\ msg.type = "replicate" => placed'[msg.id] # <<>>
  BY DEF AllPlaced
<1>3. \A x \in acked' : placed'[x] # <<>> BY DEF AllPlaced
<1> QED BY <1>1, <1>2, <1>3 DEF AllPlaced

(* The same where no message is sent. *)
LEMMA PlacedQuietly ==
  ASSUME AllPlaced, UNCHANGED placed,
         \A p \in Node, x \in Msg : Around(p, x)' => placed[x] # <<>>,
         \A p \in Node : On(inbox'[p]) \subseteq On(inbox[p]),
         UNCHANGED acked
  PROVE  AllPlaced'
<1> DEFINE M == {}
<1>1. /\ \A p \in Node : On(inbox'[p]) \subseteq On(inbox[p]) \cup M
      /\ \A msg \in M : /\ msg.type = "enqueue" => placed[msg.copy.id] # <<>>
                        /\ msg.type # "replicate"
  OBVIOUS
<1> HIDE DEF M
<1> QED BY <1>1, PlacedStep

LEMMA HandleEnqueueIds ==
  ASSUME Kinds, NEW n \in Node, inbox[n] # <<>>, HandleEnqueue(n, Head(inbox[n]))
  PROVE  LET m == Head(inbox[n]).copy.id
         IN /\ m \in Msg /\ Carries(Head(inbox[n]), m)
            /\ queues' \in [Node -> Seq(Copy)] /\ Adds(queues, queues', n, {m})
            /\ logged' \in [Node -> Seq(Copy)] /\ Adds(logged, logged', n, {m})
            /\ ChannelsGet({}, {}) /\ inbox'[n] = Tail(inbox[n])
<1> DEFINE msg == Head(inbox[n])
           m == msg.copy.id
           A == {m}
           S == <<msg.copy>>
<1>1. msg.type = "enqueue" /\ Store(n, S) /\ Handle(n) BY DEF HandleEnqueue
<1>2. msg.copy \in Copy BY <1>1, HeadIsOn
<1>3. m \in Msg /\ Carries(msg, m) BY <1>1, <1>2 DEF Copy, Carries
<1>4. S \in Seq(Copy) /\ \A x : (In(S, x) <=> x \in A) /\ Once(S, x) BY <1>2, OneCopyQueue
<1>5. ChannelsGet({}, {}) /\ inbox'[n] = Tail(inbox[n]) BY <1>1, HandleGets, HandleTakes
<1>6. queues' = [queues EXCEPT ![n] = @ \o S] /\ logged' = [logged EXCEPT ![n] = @ \o S]
  BY <1>1 DEF Store
<1>7. queues \in [Node -> Seq(Copy)] /\ logged \in [Node -> Seq(Copy)] BY DEF Kinds
<1> HIDE DEF S, A, msg
<1>8. /\ queues' \in [Node -> Seq(Copy)] /\ Adds(queues, queues', n, A)
      /\ logged' \in [Node -> Seq(Copy)] /\ Adds(logged, logged', n, A)
  BY <1>4, <1>6, <1>7, ConcatAdds
<1> QED BY <1>3, <1>5, <1>8 DEF A, msg

(* From queue q to queue r, one copy of i leaves. *)
Pops(q, r, i) ==
  /\ In(q, i)
  /\ \A x : /\ In(r, x) => In(q, x)
            /\ In(q, x) => In(r, x) \/ x = i
            /\ Once(q, x) => Once(r, x) /\ (x = i => ~In(r, x))

LEMMA WithoutPops ==
  ASSUME NEW q \in Seq(Copy), NEW k \in NextVisible(q)
  PROVE  q[k].id \in Msg /\ WithoutNth(q, k) \in Seq(Copy) /\ Pops(q, WithoutNth(q, k), q[k].id)
<1>1. k \in DOMAIN q BY DEF NextVisible
<1>2. q[k] \in Copy BY <1>1, LenProperties, ElementOfSeq
<1>3. In(q, q[k].id) BY <1>1 DEF In
<1>4. WithoutNth(q, k) \in Seq(Copy) BY <1>1, WithoutHolds
<1>5. ASSUME NEW x
      PROVE  /\ In(WithoutNth(q, k), x) => In(q, x)
             /\ In(q, x) => In(WithoutNth(q, k), x) \/ x = q[k].id
             /\ Once(q, x) => /\ Once(WithoutNth(q, k), x)
                              /\ x = q[k].id => ~In(WithoutNth(q, k), x)
  BY <1>1, WithoutHolds
<1> QED BY <1>2, <1>3, <1>4, <1>5 DEF Pops, Copy

(* dequeue() works on the queue behind which it has put what expired.       *)
LEMMA DequeueIds ==
  ASSUME Kinds, Finite, NEW n \in Node, Dequeue(n)
  PROVE  /\ UNCHANGED <<partitions, placed, replicas, files, dead, restarts, acked, doubled>>
         /\ \/ /\ UNCHANGED <<queues, inflight, expired, delivered>>
               /\ asked' \in 0..MaxAsked
               /\ \E msg \in Messages : msg.type = "dequeue" /\ ChannelsGet({msg}, {})
            \/ \E q \in Seq(Copy), i \in Msg :
                 /\ \A x : /\ In(q, x) <=> In(queues[n], x) \/ x \in expired[n]
                           /\ Once(queues[n], x) /\ ~(In(queues[n], x) /\ x \in expired[n])
                                => Once(q, x)
                 /\ queues' \in [Node -> Seq(Copy)] /\ Pops(q, queues'[n], i)
                 /\ \A p \in Node \ {n} : queues'[p] = queues[p]
                 /\ inflight' = [inflight EXCEPT ![n] = Kept(n) \cup {i}]
                 /\ expired' = [expired EXCEPT ![n] = {}]
                 /\ delivered' = delivered \cup {i}
                 /\ UNCHANGED <<inbox, asked>>
<1>1. UNCHANGED <<partitions, placed, replicas, files, dead, restarts>> BY DEF Dequeue
<1>2. PICK r \in InSomeOrder(expired[n]) :
        \/ \E k \in NextVisible(queues[n] \o r) :
             /\ PopAfterRequeue(n, queues[n] \o r, k)
             /\ delivered' = delivered \cup {(queues[n] \o r)[k].id}
             /\ UNCHANGED <<inbox, asked, acked, doubled>>
        \/ AskPeers(n)
  BY DEF Dequeue
<1> DEFINE q == queues[n] \o r
<1>3. expired[n] \subseteq Msg /\ IsFiniteSet(expired[n]) /\ queues[n] \in Seq(Copy)
  BY FS_Subset DEF Kinds, Finite
<1>4. r \in Seq(Copy) /\ \A x : (In(r, x) <=> x \in expired[n]) /\ Once(r, x)
  BY <1>3, OrderHolds
<1>5. q \in Seq(Copy)
      /\ \A x : /\ In(q, x) <=> In(queues[n], x) \/ x \in expired[n]
                /\ Once(queues[n], x) /\ ~(In(queues[n], x) /\ x \in expired[n]) => Once(q, x)
  BY <1>3, <1>4, ConcatHolds
<1>6. CASE AskPeers(n)
  <2> DEFINE msg == [type |-> "dequeue", from |-> n]
             out == [p \in Peers(n) |-> msg]
             M == {msg}
             B == {}
  <2>1. Send(n, out) /\ UNCHANGED <<queues, inflight, expired, history>> BY <1>6 DEF AskPeers
  <2>2. msg \in Messages /\ msg.type = "dequeue" BY DEF Messages
  <2>3. /\ M \in SUBSET Messages /\ \A p \in Node \cap DOMAIN out : out[p] \in M
        /\ \A y \in M : \A x : Carries(y, x) => x \in B
    BY <2>2 DEF Carries
  <2>4. asked' \in 0..MaxAsked
    <3>1. asked \in 0..MaxAsked /\ asked < MaxAsked /\ asked' = asked + 1 /\ MaxAsked \in Nat
      BY <1>6, QueueAssumption DEF AskPeers, Kinds
    <3> QED BY <3>1
  <2> HIDE DEF out, M, msg, B
  <2>5. ChannelsGet(M, B) BY <2>1, <2>3, SendGets
  <2>6. \E y \in Messages : y.type = "dequeue" /\ ChannelsGet({y}, {}) BY <2>2, <2>5 DEF M, B
  <2> QED BY <1>1, <2>1, <2>4, <2>6 DEF history
<1>7. CASE ~AskPeers(n)
  <2> HIDE DEF q
  <2>1. PICK k \in NextVisible(q) :
          /\ PopAfterRequeue(n, q, k)
          /\ delivered' = delivered \cup {q[k].id}
          /\ UNCHANGED <<inbox, asked, acked, doubled>>
    BY <1>2, <1>7 DEF q
  <2> DEFINE i == q[k].id
  <2>2. i \in Msg /\ WithoutNth(q, k) \in Seq(Copy) /\ Pops(q, WithoutNth(q, k), i)
    BY <1>5, WithoutPops
  <2>3. /\ queues' = [queues EXCEPT ![n] = WithoutNth(q, k)]
        /\ inflight' = [inflight EXCEPT ![n] = Kept(n) \cup {i}]
        /\ expired' = [expired EXCEPT ![n] = {}]
    BY <2>1 DEF PopAfterRequeue
  <2> HIDE DEF i
  <2>4. /\ queues' \in [Node -> Seq(Copy)] /\ queues'[n] = WithoutNth(q, k)
        /\ \A p \in Node \ {n} : queues'[p] = queues[p]
    BY <2>2, <2>3 DEF Kinds
  <2>5. delivered' = delivered \cup {i} BY <2>1 DEF i
  <2> QED BY <1>1, <1>5, <2>1, <2>2, <2>3, <2>4, <2>5
<1> QED BY <1>2, <1>6, <1>7

LEMMA HandleDequeueIds ==
  ASSUME Kinds, NEW n \in Node, inbox[n] # <<>>, HandleDequeue(n, Head(inbox[n]))
  PROVE  /\ UNCHANGED <<replicas, files, delivered, acked>>
         /\ \/ UNCHANGED <<queues, inflight, expired, doubled>> /\ ChannelsGet({}, {})
            \/ \E i \in Msg :
                 /\ queues' \in [Node -> Seq(Copy)] /\ Pops(queues[n], queues'[n], i)
                 /\ \A p \in Node \ {n} : queues'[p] = queues[p]
                 /\ inflight' = [inflight EXCEPT ![n] = @ \cup {i}]
                 /\ expired' = [expired EXCEPT ![n] = @ \ {i}]
                 /\ doubled' = doubled \cup {i}
                 /\ \E msg \in Messages :
                      /\ msg.type = "enqueue" /\ msg.copy.id = i
                      /\ ChannelsGet({msg}, {i})
<1>1. UNCHANGED <<replicas, files, delivered, acked>> BY DEF HandleDequeue
<1>2. CASE Handle(n) /\ UNCHANGED <<queues, inflight, expired, doubled>>
  BY <1>1, <1>2, HandleGets
<1>3. CASE ~(Handle(n) /\ UNCHANGED <<queues, inflight, expired, doubled>>)
  <2> DEFINE q == queues[n]
             to == Head(inbox[n]).from
  <2>1. PICK k \in NextVisible(q) :
          /\ queues' = [queues EXCEPT ![n] = WithoutNth(@, k)]
          /\ inflight' = [inflight EXCEPT ![n] = @ \cup {q[k].id}]
          /\ expired' = [expired EXCEPT ![n] = @ \ {q[k].id}]
          /\ doubled' = doubled \cup {q[k].id}
          /\ Reply(n, to, [type |-> "enqueue", from |-> n, copy |-> [id |-> q[k].id, hidden |-> TRUE]])
    BY <1>3 DEF HandleDequeue
  <2> DEFINE i == q[k].id
             msg == [type |-> "enqueue", from |-> n, copy |-> [id |-> i, hidden |-> TRUE]]
  <2>2. q \in Seq(Copy) BY DEF Kinds
  <2>3. i \in Msg /\ WithoutNth(q, k) \in Seq(Copy) /\ Pops(q, WithoutNth(q, k), i)
    BY <2>2, WithoutPops
  <2>4. /\ inflight' = [inflight EXCEPT ![n] = @ \cup {i}]
        /\ expired' = [expired EXCEPT ![n] = @ \ {i}]
        /\ doubled' = doubled \cup {i} /\ Reply(n, to, msg)
    BY <2>1
  <2>5. /\ queues' \in [Node -> Seq(Copy)] /\ queues'[n] = WithoutNth(q, k)
        /\ \A p \in Node \ {n} : queues'[p] = queues[p]
    BY <2>1, <2>3 DEF Kinds
  <2> HIDE DEF i
  <2>6. msg \in Messages /\ msg.type = "enqueue" /\ msg.copy.id = i /\ \A x : Carries(msg, x) => x = i
    BY <2>3 DEF Messages, Copy, Carries
  <2> HIDE DEF msg, to, q
  <2>7. ChannelsGet({msg}, {i}) BY <2>4, <2>6, ReplyGets
  <2>8. \E y \in Messages : y.type = "enqueue" /\ y.copy.id = i /\ ChannelsGet({y}, {i})
    BY <2>6, <2>7
  <2> QED BY <1>1, <2>3, <2>4, <2>5, <2>8 DEF q
<1> QED BY <1>2, <1>3

(* The visibility loop and a promotion put ids behind the queue of n. *)
LEMMA RequeueIds ==
  ASSUME Kinds, NEW n \in Node, NEW S \in SUBSET Msg, IsFiniteSet(S),
         \E r \in InSomeOrder(S) : queues' = [queues EXCEPT ![n] = @ \o r]
  PROVE  queues' \in [Node -> Seq(Copy)] /\ Adds(queues, queues', n, S)
<1>1. PICK r \in InSomeOrder(S) : queues' = [queues EXCEPT ![n] = @ \o r] OBVIOUS
<1>2. r \in Seq(Copy) /\ \A x : (In(r, x) <=> x \in S) /\ Once(r, x) BY OrderHolds
<1>3. queues \in [Node -> Seq(Copy)] BY DEF Kinds
<1> QED BY <1>1, <1>2, <1>3, ConcatAdds

LEMMA ElapseIds ==
  ASSUME Kinds, NEW n \in Node, NEW m \in Msg, Elapse(n, m)
  PROVE  /\ UNCHANGED <<busVars, placed, inflight, replicas, files, dead, asked, restarts, history>>
         /\ queues' \in [Node -> Seq(Copy)]
         /\ \A p \in Node : \A x : /\ In(queues'[p], x) <=> In(queues[p], x)
                                   /\ Once(queues[p], x) => Once(queues'[p], x)
         /\ \/ UNCHANGED expired
            \/ m \in inflight[n] /\ expired' = [expired EXCEPT ![n] = @ \cup {m}]
<1>1. UNCHANGED <<busVars, placed, inflight, replicas, files, dead, asked, restarts, history>>
  BY DEF Elapse
<1>2. queues \in [Node -> Seq(Copy)] BY DEF Kinds
<1>3. CASE /\ m \in inflight[n] \ expired[n]
           /\ expired' = [expired EXCEPT ![n] = @ \cup {m}]
           /\ UNCHANGED queues
  BY <1>1, <1>2, <1>3
<1>4. CASE /\ \E k \in DOMAIN queues[n] :
                /\ queues[n][k] = [id |-> m, hidden |-> TRUE]
                /\ queues' = [queues EXCEPT ![n][k] = Visible(m)]
           /\ UNCHANGED expired
  <2>1. PICK k \in DOMAIN queues[n] :
          /\ queues[n][k] = [id |-> m, hidden |-> TRUE]
          /\ queues' = [queues EXCEPT ![n][k] = Visible(m)]
    BY <1>4
  <2> DEFINE c == Visible(m)
             q == [queues[n] EXCEPT ![k] = c]
  <2>2. c \in Copy /\ c.id = queues[n][k].id BY <2>1 DEF Visible, Copy
  <2>3. queues[n] \in Seq(Copy) BY <1>2
  <2>4. queues' = [queues EXCEPT ![n] = q] BY <1>2, <2>1
  <2> HIDE DEF c
  <2>5. q \in Seq(Copy) /\ \A x : (In(q, x) <=> In(queues[n], x)) /\ (Once(queues[n], x) => Once(q, x))
    BY <2>2, <2>3, ShownHolds
  <2> HIDE DEF q
  <2>6. /\ queues' \in [Node -> Seq(Copy)] /\ queues'[n] = q
        /\ \A p \in Node \ {n} : queues'[p] = queues[p]
    BY <1>2, <2>4, <2>5
  <2>7. \A p \in Node : \A x : /\ In(queues'[p], x) <=> In(queues[p], x)
                               /\ Once(queues[p], x) => Once(queues'[p], x)
    BY <2>5, <2>6
  <2> QED BY <1>1, <1>4, <2>6, <2>7
<1> QED BY <1>3, <1>4 DEF Elapse

LEMMA HandleEnqueueType ==
  ASSUME TypeInv, NEW n \in Node, inbox[n] # <<>>, HandleEnqueue(n, Head(inbox[n])),
         UNCHANGED <<partitions, placed, dead, asked, restarts>>
  PROVE  TypeInv'
<1> DEFINE m == Head(inbox[n]).copy.id
           A == {m}
<1>1. Kinds /\ AllPlaced /\ Finite /\ AcksAreTrue BY DEF TypeInv
<1>2. /\ m \in Msg /\ Carries(Head(inbox[n]), m)
      /\ queues' \in [Node -> Seq(Copy)] /\ Adds(queues, queues', n, A)
      /\ logged' \in [Node -> Seq(Copy)] /\ Adds(logged, logged', n, A)
      /\ ChannelsGet({}, {})
  BY <1>1, HandleEnqueueIds
<1>3. UNCHANGED <<inflight, expired, replicas, replicated, history>> BY DEF HandleEnqueue
<1>4. placed[m] # <<>> BY <1>1, <1>2, HeadIsOn DEF AllPlaced, Carries
<1> HIDE DEF A, m
<1>5. Kinds' BY <1>1, <1>2, <1>3 DEF Kinds, ChannelsGet, history
<1>6. Finite' /\ AcksAreTrue' BY <1>1, <1>2, <1>3 DEF Finite, AcksAreTrue, ChannelsGet, history
<1>7. ASSUME NEW p \in Node, NEW x \in Msg, Around(p, x)' PROVE placed[x] # <<>>
  <2>1. /\ In(queues'[p], x) => In(queues[p], x) \/ x = m
        /\ In(logged'[p], x) => In(logged[p], x) \/ x = m
    BY <1>2 DEF Adds, A
  <2>2. Around(p, x) \/ x = m BY <1>3, <1>7, <2>1 DEF Around
  <2> QED BY <1>1, <1>4, <2>2 DEF AllPlaced
<1>8. \A p \in Node : On(inbox'[p]) \subseteq On(inbox[p]) BY <1>2 DEF ChannelsGet
<1>9. AllPlaced' BY <1>1, <1>3, <1>7, <1>8, PlacedQuietly DEF history
<1> QED BY <1>5, <1>6, <1>9 DEF TypeInv

LEMMA HandleReplicateType ==
  ASSUME TypeInv, NEW n \in Node, inbox[n] # <<>>, HandleReplicate(n, Head(inbox[n])),
         UNCHANGED <<partitions, placed, dead, asked, restarts>>
  PROVE  TypeInv'
<1> DEFINE m == Head(inbox[n]).id
<1>1. Kinds /\ AllPlaced /\ Finite /\ AcksAreTrue BY DEF TypeInv
<1>2. /\ Head(inbox[n]).type = "replicate"
      /\ replicas' = [replicas EXCEPT ![n] = @ \cup {m}]
      /\ replicated' = [replicated EXCEPT ![n] = @ \cup {m}]
      /\ UNCHANGED <<queues, logged, inflight, expired, history>>
  BY DEF HandleReplicate, Replicate
<1>3. ChannelsGet({}, {}) BY <1>1, HandleGets DEF HandleReplicate
<1>4. m \in Msg /\ placed[m] # <<>> BY <1>1, <1>2, HeadIsOn DEF AllPlaced
<1> HIDE DEF m
<1>5. \A p \in Node : /\ replicas'[p] = replicas[p] \/ replicas'[p] = replicas[p] \cup {m}
                      /\ replicated'[p] = replicated[p] \/ replicated'[p] = replicated[p] \cup {m}
  BY <1>1, <1>2 DEF Kinds
<1>6. replicas' \in [Node -> SUBSET Msg] /\ replicated' \in [Node -> SUBSET Msg]
  BY <1>1, <1>2, <1>4 DEF Kinds
<1>7. Kinds' BY <1>1, <1>2, <1>3, <1>6 DEF Kinds, ChannelsGet, history
<1>8. Finite'
  <2>1. \A p \in Node : IsFiniteSet(replicas[p] \cup {m}) /\ IsFiniteSet(replicated[p] \cup {m})
    BY <1>1, FS_AddElement DEF Finite
  <2> QED BY <1>1, <1>2, <1>5, <2>1 DEF Finite
<1>9. ASSUME NEW p \in Node, NEW x \in Msg, Around(p, x)' PROVE placed[x] # <<>>
  <2>1. Around(p, x) \/ x = m BY <1>2, <1>5, <1>9 DEF Around
  <2> QED BY <1>1, <1>4, <2>1 DEF AllPlaced
<1>10. \A p \in Node : On(inbox'[p]) \subseteq On(inbox[p]) BY <1>3 DEF ChannelsGet
<1>11. AllPlaced' BY <1>1, <1>2, <1>9, <1>10, PlacedQuietly DEF history
<1>12. AcksAreTrue' BY <1>1, <1>2, <1>10 DEF AcksAreTrue, history
<1> QED BY <1>7, <1>8, <1>11, <1>12 DEF TypeInv

LEMMA DequeueType ==
  ASSUME TypeInv, NEW n \in Node, Dequeue(n)
  PROVE  TypeInv'
<1>1. Kinds /\ AllPlaced /\ Finite /\ AcksAreTrue BY DEF TypeInv
<1>2. UNCHANGED <<partitions, placed, replicas, files, dead, restarts, acked, doubled>>
  BY <1>1, DequeueIds
<1>3. CASE /\ UNCHANGED <<queues, inflight, expired, delivered>>
           /\ asked' \in 0..MaxAsked
           /\ \E msg \in Messages : msg.type = "dequeue" /\ ChannelsGet({msg}, {})
  <2>1. PICK msg \in Messages : msg.type = "dequeue" /\ ChannelsGet({msg}, {}) BY <1>3
  <2> DEFINE M == {msg}
  <2>2. \A p \in Node : On(inbox'[p]) \subseteq On(inbox[p]) \cup M BY <2>1 DEF ChannelsGet
  <2>3. \A y \in M : y.type = "dequeue" BY <2>1
  <2>4. inbox' \in [Node -> Seq(Messages)] BY <2>1 DEF ChannelsGet
  <2> HIDE DEF M
  <2>5. Kinds' BY <1>1, <1>2, <1>3, <2>4 DEF Kinds, files
  <2>6. Finite' /\ AcksAreTrue' BY <1>1, <1>2, <1>3, <2>2, <2>3 DEF Finite, AcksAreTrue, files
  <2>7. \A p \in Node, x \in Msg : Around(p, x)' => placed[x] # <<>>
    BY <1>1, <1>2, <1>3 DEF AllPlaced, Around, files
  <2>8. \A y \in M : /\ y.type = "enqueue" => placed[y.copy.id] # <<>>
                     /\ y.type # "replicate"
    BY <2>3
  <2>9. AllPlaced' BY <1>1, <1>2, <2>2, <2>7, <2>8, PlacedStep
  <2> QED BY <2>5, <2>6, <2>9 DEF TypeInv
<1>4. CASE \E q \in Seq(Copy), i \in Msg :
             /\ \A x : /\ In(q, x) <=> In(queues[n], x) \/ x \in expired[n]
                       /\ Once(queues[n], x) /\ ~(In(queues[n], x) /\ x \in expired[n])
                            => Once(q, x)
             /\ queues' \in [Node -> Seq(Copy)] /\ Pops(q, queues'[n], i)
             /\ \A p \in Node \ {n} : queues'[p] = queues[p]
             /\ inflight' = [inflight EXCEPT ![n] = Kept(n) \cup {i}]
             /\ expired' = [expired EXCEPT ![n] = {}]
             /\ delivered' = delivered \cup {i}
             /\ UNCHANGED <<inbox, asked>>
  <2>1. PICK q \in Seq(Copy), i \in Msg :
             /\ \A x : In(q, x) <=> In(queues[n], x) \/ x \in expired[n]
             /\ queues' \in [Node -> Seq(Copy)] /\ Pops(q, queues'[n], i)
             /\ \A p \in Node \ {n} : queues'[p] = queues[p]
             /\ inflight' = [inflight EXCEPT ![n] = Kept(n) \cup {i}]
             /\ expired' = [expired EXCEPT ![n] = {}]
             /\ delivered' = delivered \cup {i}
             /\ UNCHANGED <<inbox, asked>>
    BY <1>4
  <2>2. expired[n] \subseteq inflight[n] /\ inflight[n] \subseteq Msg BY <1>1 DEF Kinds
  <2>3. /\ inflight' \in [Node -> SUBSET Msg] /\ expired' \in [Node -> SUBSET Msg]
        /\ \A p \in Node : expired'[p] \subseteq inflight'[p]
    BY <1>1, <2>1, <2>2 DEF Kinds, Kept
  <2>4. Kinds' BY <1>1, <1>2, <2>1, <2>3 DEF Kinds, files
  <2>5. \A p \in Node : inflight'[p] = inflight[p] \/ inflight'[p] = (inflight[p] \ expired[p]) \cup {i}
    BY <1>1, <2>1 DEF Kinds, Kept
  <2>6. Finite'
    <3>1. \A p \in Node : IsFiniteSet((inflight[p] \ expired[p]) \cup {i})
      <4> TAKE p \in Node
      <4>1. IsFiniteSet(inflight[p] \ expired[p]) BY <1>1, FS_Subset DEF Finite
      <4> QED BY <4>1, FS_AddElement
    <3> QED BY <1>1, <1>2, <2>5, <3>1 DEF Finite, files
  <2>7. AcksAreTrue' BY <1>1, <1>2, <2>1 DEF AcksAreTrue
  <2>8. In(queues[n], i) \/ i \in inflight[n] BY <2>1, <2>2 DEF Pops
  <2>9. \A x : In(queues'[n], x) => In(queues[n], x) \/ x \in inflight[n] BY <2>1, <2>2 DEF Pops
  <2>10. ASSUME NEW p \in Node, NEW x \in Msg, Around(p, x)' PROVE placed[x] # <<>>
    <3>1. Around(p, x) \/ (p = n /\ Around(n, x)) \/ (x = i /\ Around(n, i))
      BY <1>2, <2>1, <2>5, <2>8, <2>9, <2>10 DEF Around, files
    <3> QED BY <1>1, <3>1 DEF AllPlaced
  <2>11. \A p \in Node : On(inbox'[p]) \subseteq On(inbox[p]) BY <2>1
  <2>12. AllPlaced' BY <1>1, <1>2, <2>10, <2>11, PlacedQuietly
  <2> QED BY <2>4, <2>6, <2>7, <2>12 DEF TypeInv
<1> QED BY <1>1, <1>3, <1>4, DequeueIds

LEMMA HandleDequeueType ==
  ASSUME TypeInv, NEW n \in Node, inbox[n] # <<>>, HandleDequeue(n, Head(inbox[n])),
         UNCHANGED <<partitions, placed, dead, asked, restarts>>
  PROVE  TypeInv'
<1>1. Kinds /\ AllPlaced /\ Finite /\ AcksAreTrue BY DEF TypeInv
<1>2. UNCHANGED <<replicas, files, delivered, acked>> BY <1>1, HandleDequeueIds
<1>3. CASE UNCHANGED <<queues, inflight, expired, doubled>> /\ ChannelsGet({}, {})
  <2>1. \A p \in Node : On(inbox'[p]) \subseteq On(inbox[p]) BY <1>3 DEF ChannelsGet
  <2>2. Kinds' BY <1>1, <1>2, <1>3 DEF Kinds, files, ChannelsGet
  <2>3. Finite' /\ AcksAreTrue' BY <1>1, <1>2, <1>3, <2>1 DEF Finite, AcksAreTrue, files
  <2>4. \A p \in Node, x \in Msg : Around(p, x)' => placed[x] # <<>>
    BY <1>1, <1>2, <1>3 DEF AllPlaced, Around, files
  <2>5. AllPlaced' BY <1>1, <1>2, <2>1, <2>4, PlacedQuietly
  <2> QED BY <2>2, <2>3, <2>5 DEF TypeInv
<1>4. CASE \E i \in Msg :
             /\ queues' \in [Node -> Seq(Copy)] /\ Pops(queues[n], queues'[n], i)
             /\ \A p \in Node \ {n} : queues'[p] = queues[p]
             /\ inflight' = [inflight EXCEPT ![n] = @ \cup {i}]
             /\ expired' = [expired EXCEPT ![n] = @ \ {i}]
             /\ doubled' = doubled \cup {i}
             /\ \E msg \in Messages :
                  /\ msg.type = "enqueue" /\ msg.copy.id = i
                  /\ ChannelsGet({msg}, {i})
  <2>1. PICK i \in Msg :
             /\ queues' \in [Node -> Seq(Copy)] /\ Pops(queues[n], queues'[n], i)
             /\ \A p \in Node \ {n} : queues'[p] = queues[p]
             /\ inflight' = [inflight EXCEPT ![n] = @ \cup {i}]
             /\ expired' = [expired EXCEPT ![n] = @ \ {i}]
             /\ doubled' = doubled \cup {i}
             /\ \E msg \in Messages :
                  /\ msg.type = "enqueue" /\ msg.copy.id = i
                  /\ ChannelsGet({msg}, {i})
    BY <1>4
  <2>2. PICK msg \in Messages : msg.type = "enqueue" /\ msg.copy.id = i /\ ChannelsGet({msg}, {i})
    BY <2>1
  <2> DEFINE M == {msg}
  <2>3. inbox' \in [Node -> Seq(Messages)]
        /\ \A p \in Node : On(inbox'[p]) \subseteq On(inbox[p]) \cup M
    BY <2>2 DEF ChannelsGet
  <2>4. \A y \in M : y.type = "enqueue" /\ y.copy.id = i BY <2>2
  <2> HIDE DEF M
  <2>5. /\ inflight' \in [Node -> SUBSET Msg] /\ expired' \in [Node -> SUBSET Msg]
        /\ \A p \in Node : expired'[p] \subseteq inflight'[p]
    BY <1>1, <2>1 DEF Kinds
  <2>6. Kinds' BY <1>1, <1>2, <2>1, <2>3, <2>5 DEF Kinds, files
  <2>7. \A p \in Node : inflight'[p] = inflight[p] \/ inflight'[p] = inflight[p] \cup {i}
    BY <1>1, <2>1 DEF Kinds
  <2>8. Finite'
    <3>1. \A p \in Node : IsFiniteSet(inflight[p] \cup {i}) BY <1>1, FS_AddElement DEF Finite
    <3> QED BY <1>1, <1>2, <2>7, <3>1 DEF Finite, files
  <2>9. AcksAreTrue' BY <1>1, <1>2, <2>3, <2>4 DEF AcksAreTrue
  <2>10. placed[i] # <<>> BY <1>1, <2>1 DEF Pops, AllPlaced, Around
  <2>11. ASSUME NEW p \in Node, NEW x \in Msg, Around(p, x)' PROVE placed[x] # <<>>
    <3>1. Around(p, x) \/ x = i BY <1>2, <2>1, <2>7, <2>11 DEF Around, files, Pops
    <3> QED BY <1>1, <2>10, <3>1 DEF AllPlaced
  <2>12. \A y \in M : /\ y.type = "enqueue" => placed[y.copy.id] # <<>>
                      /\ y.type # "replicate"
    BY <2>4, <2>10
  <2>13. AllPlaced' BY <1>1, <1>2, <2>3, <2>11, <2>12, PlacedStep
  <2> QED BY <2>6, <2>8, <2>9, <2>13 DEF TypeInv
<1> QED BY <1>1, <1>3, <1>4, HandleDequeueIds

(* What ack() tells the replicas. *)
LEMMA AckIds ==
  ASSUME Kinds, NEW n \in Node, NEW m \in Msg, Ack(n, m)
  PROVE  /\ m \in inflight[n]
         /\ inflight' = [inflight EXCEPT ![n] = @ \ {m}]
         /\ expired' = [expired EXCEPT ![n] = @ \ {m}]
         /\ \A p \in Node : replicas'[p] \subseteq replicas[p] /\ replicas[p] \subseteq replicas'[p] \cup {m}
         /\ replicas' \in [Node -> SUBSET Msg]
         /\ acked' = acked \cup {m}
         /\ \E msg : msg.type = "ack" /\ msg.id = m /\ ChannelsGet({msg}, {})
         /\ UNCHANGED <<partitions, placed, queues, files, dead, asked, restarts, delivered, doubled>>
<1> DEFINE msg == [type |-> "ack", from |-> n, id |-> m]
           out == [r \in ReplicaNodes(placed[m]) \ {n} |-> msg]
           M == {msg}
           B == {}
<1>1. /\ m \in inflight[n]
      /\ inflight' = [inflight EXCEPT ![n] = @ \ {m}]
      /\ expired' = [expired EXCEPT ![n] = @ \ {m}]
      /\ acked' = acked \cup {m} /\ Send(n, out)
      /\ UNCHANGED <<partitions, placed, queues, files, dead, asked, restarts, delivered, doubled>>
  BY DEF Ack
<1>2. /\ \A p \in Node : replicas'[p] \subseteq replicas[p] /\ replicas[p] \subseteq replicas'[p] \cup {m}
      /\ replicas' \in [Node -> SUBSET Msg]
  <2>1. replicas' = [replicas EXCEPT ![n] = IF n \in ReplicaNodes(placed[m]) THEN @ \ {m} ELSE @]
    BY DEF Ack
  <2>2. replicas \in [Node -> SUBSET Msg] BY DEF Kinds
  <2> QED BY <2>1, <2>2
<1>3. /\ M \in SUBSET Messages /\ \A p \in Node \cap DOMAIN out : out[p] \in M
      /\ \A y \in M : \A x : Carries(y, x) => x \in B
  BY DEF Messages, Carries
<1>4. msg.type = "ack" /\ msg.id = m OBVIOUS
<1> HIDE DEF M, B, out, msg
<1>5. ChannelsGet(M, B) BY <1>1, <1>3, SendGets
<1>6. \E y : y.type = "ack" /\ y.id = m /\ ChannelsGet({y}, {}) BY <1>4, <1>5 DEF M, B
<1> QED BY <1>1, <1>2, <1>6

LEMMA AckType ==
  ASSUME TypeInv, NEW n \in Node, NEW m \in Msg, Ack(n, m)
  PROVE  TypeInv'
<1>1. Kinds /\ AllPlaced /\ Finite /\ AcksAreTrue BY DEF TypeInv
<1>2. /\ m \in inflight[n]
      /\ inflight' = [inflight EXCEPT ![n] = @ \ {m}]
      /\ expired' = [expired EXCEPT ![n] = @ \ {m}]
      /\ \A p \in Node : replicas'[p] \subseteq replicas[p]
      /\ replicas' \in [Node -> SUBSET Msg]
      /\ acked' = acked \cup {m}
      /\ \E msg : msg.type = "ack" /\ msg.id = m /\ ChannelsGet({msg}, {})
      /\ UNCHANGED <<partitions, placed, queues, files, dead, asked, restarts, delivered, doubled>>
  BY <1>1, AckIds
<1>3. PICK msg : msg.type = "ack" /\ msg.id = m /\ ChannelsGet({msg}, {}) BY <1>2
<1> DEFINE M == {msg}
<1>4. inbox' \in [Node -> Seq(Messages)] /\ \A p \in Node : On(inbox'[p]) \subseteq On(inbox[p]) \cup M
  BY <1>3 DEF ChannelsGet
<1>5. \A y \in M : y.type = "ack" /\ y.id = m BY <1>3
<1> HIDE DEF M
<1>6. /\ inflight' \in [Node -> SUBSET Msg] /\ expired' \in [Node -> SUBSET Msg]
      /\ \A p \in Node : expired'[p] \subseteq inflight'[p] /\ inflight'[p] \subseteq inflight[p]
  BY <1>1, <1>2 DEF Kinds
<1>7. Kinds' BY <1>1, <1>2, <1>4, <1>6 DEF Kinds, files
<1>8. Finite' BY <1>1, <1>2, <1>6, FS_Subset DEF Finite, files
<1>9. AcksAreTrue' BY <1>1, <1>2, <1>4, <1>5 DEF AcksAreTrue
<1>10. \A p \in Node, x \in Msg : Around(p, x)' => Around(p, x) BY <1>2, <1>6 DEF Around, files
<1>11. \A p \in Node, x \in Msg : Around(p, x)' => placed[x] # <<>> BY <1>1, <1>10 DEF AllPlaced
<1>12. placed[m] # <<>> BY <1>1, <1>2 DEF AllPlaced, Around
<1>13. \A y \in M : /\ y.type = "enqueue" => placed[y.copy.id] # <<>>
                    /\ y.type # "replicate"
  BY <1>5
<1>14. AllPlaced' BY <1>1, <1>2, <1>4, <1>11, <1>12, <1>13, PlacedStep
<1> QED BY <1>7, <1>8, <1>9, <1>14 DEF TypeInv

(* A step that sends nothing, moves no message and touches no log.          *)
LEMMA LocalType ==
  ASSUME TypeInv, UNCHANGED <<placed, files, asked, restarts, delivered, acked>>,
         inbox' \in [Node -> Seq(Messages)], \A p \in Node : On(inbox'[p]) \subseteq On(inbox[p]),
         partitions' \subseteq Node, doubled' \subseteq Msg,
         \A p \in Node : dead'[p] \subseteq Peers(p),
         queues' \in [Node -> Seq(Copy)],
         inflight' \in [Node -> SUBSET Msg], expired' \in [Node -> SUBSET Msg],
         replicas' \in [Node -> SUBSET Msg],
         \A p \in Node : /\ expired'[p] \subseteq inflight'[p]
                         /\ inflight'[p] \subseteq inflight[p] /\ replicas'[p] \subseteq replicas[p],
         \A p \in Node, x \in Msg : In(queues'[p], x) => Around(p, x)
  PROVE  TypeInv'
<1>1. Kinds /\ AllPlaced /\ Finite /\ AcksAreTrue BY DEF TypeInv
<1>2. Kinds' BY <1>1 DEF Kinds, files
<1>3. Finite' BY <1>1, FS_Subset DEF Finite, files
<1>4. AcksAreTrue' BY <1>1 DEF AcksAreTrue
<1>5. \A p \in Node, x \in Msg : Around(p, x)' => Around(p, x) BY DEF Around, files
<1>6. \A p \in Node, x \in Msg : Around(p, x)' => placed[x] # <<>> BY <1>1, <1>5 DEF AllPlaced
<1>7. AllPlaced' BY <1>1, <1>6, PlacedQuietly
<1> QED BY <1>2, <1>3, <1>4, <1>7 DEF TypeInv

LEMMA SameChannels ==
  ASSUME Kinds, UNCHANGED inbox
  PROVE  ChannelsGet({}, {})
BY DEF Kinds, ChannelsGet

LEMMA HandleAckType ==
  ASSUME TypeInv, NEW n \in Node, inbox[n] # <<>>, HandleAck(n, Head(inbox[n])),
         UNCHANGED <<partitions, placed, dead, asked, restarts>>
  PROVE  TypeInv'
<1>1. Kinds BY DEF TypeInv
<1>2. ChannelsGet({}, {}) BY <1>1, HandleGets DEF HandleAck
<1>3. inbox' \in [Node -> Seq(Messages)] /\ \A p \in Node : On(inbox'[p]) \subseteq On(inbox[p])
  BY <1>2 DEF ChannelsGet
<1>4. /\ replicas' = [replicas EXCEPT ![n] = @ \ {Head(inbox[n]).id}]
      /\ UNCHANGED <<queues, inflight, expired, files, history>>
  BY DEF HandleAck
<1>5. replicas' \in [Node -> SUBSET Msg] /\ \A p \in Node : replicas'[p] \subseteq replicas[p]
  BY <1>1, <1>4 DEF Kinds
<1>6. \A p \in Node, x \in Msg : In(queues'[p], x) => Around(p, x) BY <1>4 DEF Around
<1>7. UNCHANGED <<delivered, acked, doubled>> BY <1>4 DEF history
<1> QED BY <1>1, <1>3, <1>4, <1>5, <1>6, <1>7, LocalType DEF Kinds

LEMMA RequeueType ==
  ASSUME TypeInv, NEW n \in Node, Requeue(n)
  PROVE  TypeInv'
<1>1. Kinds /\ Finite BY DEF TypeInv
<1>2. /\ \E r \in InSomeOrder(expired[n]) : queues' = [queues EXCEPT ![n] = @ \o r]
      /\ inflight' = [inflight EXCEPT ![n] = Kept(n)]
      /\ expired' = [expired EXCEPT ![n] = {}]
      /\ UNCHANGED <<busVars, placed, replicas, files, dead, asked, restarts, history>>
  BY DEF Requeue
<1>3. expired[n] \subseteq inflight[n] /\ expired[n] \in SUBSET Msg /\ IsFiniteSet(expired[n])
  BY <1>1, FS_Subset DEF Kinds, Finite
<1>4. queues' \in [Node -> Seq(Copy)] /\ Adds(queues, queues', n, expired[n])
  BY <1>1, <1>2, <1>3, RequeueIds
<1>5. \A p \in Node, x \in Msg : In(queues'[p], x) => Around(p, x)
  BY <1>3, <1>4 DEF Adds, Around
<1>6. /\ inflight' \in [Node -> SUBSET Msg] /\ expired' \in [Node -> SUBSET Msg]
      /\ \A p \in Node : expired'[p] \subseteq inflight'[p] /\ inflight'[p] \subseteq inflight[p]
  BY <1>1, <1>2 DEF Kinds, Kept
<1>7. UNCHANGED <<inbox, partitions, delivered, acked, doubled>> BY <1>2 DEF busVars, history
<1>8. /\ inbox' \in [Node -> Seq(Messages)] /\ replicas' \in [Node -> SUBSET Msg]
      /\ partitions' \subseteq Node /\ doubled' \subseteq Msg
      /\ \A p \in Node : dead'[p] \subseteq Peers(p)
      /\ \A p \in Node : On(inbox'[p]) \subseteq On(inbox[p]) /\ replicas'[p] \subseteq replicas[p]
  BY <1>1, <1>2, <1>7 DEF Kinds
<1> QED BY <1>2, <1>4, <1>5, <1>6, <1>7, <1>8, LocalType

LEMMA ElapseType ==
  ASSUME TypeInv, NEW n \in Node, NEW m \in Msg, Elapse(n, m)
  PROVE  TypeInv'
<1>1. Kinds BY DEF TypeInv
<1>2. /\ UNCHANGED <<busVars, placed, inflight, replicas, files, dead, asked, restarts, history>>
      /\ queues' \in [Node -> Seq(Copy)]
      /\ \A p \in Node : \A x : In(queues'[p], x) <=> In(queues[p], x)
      /\ \/ UNCHANGED expired
         \/ m \in inflight[n] /\ expired' = [expired EXCEPT ![n] = @ \cup {m}]
  BY <1>1, ElapseIds
<1>3. expired' \in [Node -> SUBSET Msg] /\ \A p \in Node : expired'[p] \subseteq inflight'[p]
  <2>1. /\ expired \in [Node -> SUBSET Msg]
        /\ \A p \in Node : expired[p] \subseteq inflight[p]
    BY <1>1 DEF Kinds
  <2>2. CASE UNCHANGED expired BY <1>2, <2>1, <2>2
  <2>3. CASE m \in inflight[n] /\ expired' = [expired EXCEPT ![n] = @ \cup {m}]
    <3>1. expired'[n] = expired[n] \cup {m} /\ \A p \in Node \ {n} : expired'[p] = expired[p]
      BY <2>1, <2>3
    <3>2. inflight' = inflight BY <1>2
    <3> QED BY <2>1, <2>3, <3>1, <3>2
  <2> QED BY <1>2, <2>2, <2>3
<1>4. \A p \in Node, x \in Msg : In(queues'[p], x) => Around(p, x) BY <1>2 DEF Around
<1>5. UNCHANGED <<inbox, partitions, delivered, acked, doubled>> BY <1>2 DEF busVars, history
<1> QED BY <1>1, <1>2, <1>3, <1>4, <1>5, LocalType DEF Kinds

(* What a promotion moves from the replicas to the queue. *)
Promoted(n, p) == {m \in replicas[n] : placed[m][1] = p}

LEMMA PeerFailureIds ==
  ASSUME Kinds, Finite, NEW n \in Node, NEW p \in Peers(n), PeerFailure(n, p)
  PROVE  /\ Promoted(n, p) \subseteq replicas[n] /\ Promoted(n, p) \in SUBSET Msg
         /\ queues' \in [Node -> Seq(Copy)] /\ Adds(queues, queues', n, Promoted(n, p))
         /\ dead' = [dead EXCEPT ![n] = @ \cup {p}]
         /\ replicas' = [replicas EXCEPT ![n] = @ \ Promoted(n, p)]
         /\ doubled' = doubled \cup Promoted(n, p)
         /\ UNCHANGED <<busVars, placed, inflight, expired, files, asked, restarts, delivered, acked>>
<1>1. /\ \E r \in InSomeOrder(Promoted(n, p)) : queues' = [queues EXCEPT ![n] = @ \o r]
      /\ dead' = [dead EXCEPT ![n] = @ \cup {p}]
      /\ replicas' = [replicas EXCEPT ![n] = @ \ Promoted(n, p)]
      /\ doubled' = doubled \cup Promoted(n, p)
      /\ UNCHANGED <<busVars, placed, inflight, expired, files, asked, restarts, delivered, acked>>
  BY DEF PeerFailure, Promoted
<1>2. Promoted(n, p) \subseteq replicas[n] BY DEF Promoted
<1>3. Promoted(n, p) \in SUBSET Msg /\ IsFiniteSet(Promoted(n, p))
  BY <1>2, FS_Subset DEF Kinds, Finite
<1> QED BY <1>1, <1>2, <1>3, RequeueIds

LEMMA PeerFailureType ==
  ASSUME TypeInv, NEW n \in Node, NEW p \in Peers(n), PeerFailure(n, p)
  PROVE  TypeInv'
<1>1. Kinds /\ Finite BY DEF TypeInv
<1> DEFINE S == Promoted(n, p)
<1>2. /\ S \subseteq replicas[n] /\ S \in SUBSET Msg
      /\ queues' \in [Node -> Seq(Copy)] /\ Adds(queues, queues', n, S)
      /\ dead' = [dead EXCEPT ![n] = @ \cup {p}]
      /\ replicas' = [replicas EXCEPT ![n] = @ \ S]
      /\ doubled' = doubled \cup S
      /\ UNCHANGED <<busVars, placed, inflight, expired, files, asked, restarts, delivered, acked>>
  BY <1>1, PeerFailureIds
<1> HIDE DEF S
<1>3. \A q \in Node, x \in Msg : In(queues'[q], x) => Around(q, x) BY <1>2 DEF Adds, Around
<1>4. replicas' \in [Node -> SUBSET Msg] /\ \A q \in Node : replicas'[q] \subseteq replicas[q]
  BY <1>1, <1>2 DEF Kinds
<1>5. doubled' \subseteq Msg /\ \A q \in Node : dead'[q] \subseteq Peers(q)
  <2>1. \A q \in Node : dead'[q] \subseteq dead[q] \cup (IF q = n THEN {p} ELSE {}) BY <1>2
  <2> QED BY <1>1, <1>2, <2>1 DEF Kinds
<1>6. UNCHANGED <<inbox, partitions>> BY <1>2 DEF busVars
<1> QED BY <1>1, <1>2, <1>3, <1>4, <1>5, <1>6, LocalType DEF Kinds

LEMMA RestartType ==
  ASSUME TypeInv, Restart
  PROVE  TypeInv'
<1>1. Kinds /\ AllPlaced /\ Finite /\ AcksAreTrue BY DEF TypeInv
<1>2. /\ queues' = logged /\ replicas' = replicated
      /\ inflight' = [n \in Node |-> {}] /\ expired' = [n \in Node |-> {}]
      /\ inbox' = [n \in Node |-> <<>>] /\ partitions' = {}
      /\ dead' = [n \in Node |-> {}]
      /\ doubled' = doubled \cup acked
      /\ UNCHANGED <<placed, files, asked, delivered, acked>>
  BY DEF Restart, Replay, Empty
<1>3. restarts' \in 0..MaxRestarts
  <2>1. /\ restarts \in 0..MaxRestarts /\ restarts < MaxRestarts /\ restarts' = restarts + 1
        /\ MaxRestarts \in Nat
    BY <1>1, QueueAssumption DEF Kinds, Restart
  <2> QED BY <2>1
<1>4. <<>> \in Seq(Messages) BY EmptySeq
<1>5. Kinds' BY <1>1, <1>2, <1>3, <1>4 DEF Kinds, files
<1>6. Finite' BY <1>1, <1>2, FS_EmptySet DEF Finite, files
<1>7. \A p \in Node : On(inbox'[p]) = {} BY <1>2 DEF On
<1>8. AcksAreTrue' BY <1>7 DEF AcksAreTrue
<1>9. \A p \in Node, x \in Msg : Around(p, x)' => Around(p, x) BY <1>2 DEF Around, files
<1>10. \A p \in Node, x \in Msg : Around(p, x)' => placed[x] # <<>> BY <1>1, <1>9 DEF AllPlaced
<1>11. AllPlaced' BY <1>1, <1>2, <1>7, <1>10, PlacedQuietly
<1> QED BY <1>5, <1>6, <1>8, <1>11 DEF TypeInv

LEMMA BusType ==
  ASSUME TypeInv, UNCHANGED <<inbox, placed, memory, files, dead, asked, restarts, history>>,
         partitions' \subseteq Node
  PROVE  TypeInv'
<1>1. Kinds BY DEF TypeInv
<1>2. UNCHANGED <<inbox, placed, queues, inflight, expired, replicas, files, dead, asked, restarts,
                  delivered, acked, doubled>>
  BY DEF memory, history
<1>3. \A p \in Node, x \in Msg : In(queues'[p], x) => Around(p, x) BY <1>2 DEF Around
<1> QED BY <1>1, <1>2, <1>3, LocalType DEF Kinds

LEMMA StutterType ==
  ASSUME TypeInv, UNCHANGED vars
  PROVE  TypeInv'
<1>1. UNCHANGED <<inbox, placed, memory, files, dead, asked, restarts, history>>
      /\ partitions' = partitions
  BY DEF vars, busVars
<1> QED BY <1>1, BusType DEF TypeInv, Kinds

LEMMA NextType ==
  ASSUME TypeInv, [Next]_vars
  PROVE  TypeInv'
<1>1. ASSUME NEW n \in Node, Dispatch(n) PROVE TypeInv'
  <2>1. inbox[n] # <<>> /\ UNCHANGED <<partitions, placed, dead, asked, restarts>>
    BY <1>1 DEF Dispatch
  <2>2. \/ HandleEnqueue(n, Head(inbox[n])) \/ HandleReplicate(n, Head(inbox[n]))
        \/ HandleDequeue(n, Head(inbox[n])) \/ HandleAck(n, Head(inbox[n]))
    BY <1>1 DEF Dispatch
  <2> QED BY <2>1, <2>2, HandleEnqueueType, HandleReplicateType, HandleDequeueType, HandleAckType
<1>2. ASSUME NEW n \in Node, Cut(n) PROVE TypeInv'
  <2>1. partitions' \subseteq Node BY <1>2 DEF Cut, PartitionNodes, TypeInv, Kinds
  <2> QED BY <1>2, <2>1, BusType DEF Cut, PartitionNodes
<1>3. CASE Heal
  <2>1. partitions' \subseteq Node BY <1>3 DEF Heal, HealPartition
  <2> QED BY <1>3, <2>1, BusType DEF Heal, HealPartition
<1> QED BY <1>1, <1>2, <1>3, EnqueueType, AckType, ElapseType, DequeueType, RequeueType,
           PeerFailureType, RestartType, StutterType DEF Next

LEMMA TypeInvariant == Spec => []TypeInv
<1> QED BY InitTypeInv, NextType, PTL DEF Spec

(* Every variable holds values of its kind, only what is in flight expires, *)
(* and nothing is on a node that was never enqueued (queue_node.py:168-415).*)
THEOREM TypeCorrect == Spec => []TypeOK
BY TypeInvariant, TypeInvGivesType, PTL

(***************************************************************************)
(* Durability: what a node logged and nobody acknowledged is on that node. *)
(***************************************************************************)

Here(p, x) == In(queues[p], x) \/ x \in inflight[p] \/ x \in replicas[p] \/ x \in acked

LoggedStays ==
  \A p \in Node, x \in Msg : In(logged[p], x) \/ x \in replicated[p] => Here(p, x)

LEMMA LoggedStaysIs ==
  ASSUME Kinds, LoggedStays
  PROVE  LoggedIsHeld
<1> SUFFICES ASSUME NEW n \in Node,
                    NEW x \in {logged[n][k].id : k \in DOMAIN logged[n]} \cup replicated[n]
             PROVE  x \in Held(n) \cup acked
  BY DEF LoggedIsHeld
<1>1. In(logged[n], x) \/ x \in replicated[n] BY DEF In
<1>2. x \in Msg
  <2>1. logged[n] \in Seq(Copy) /\ DOMAIN logged[n] = 1..Len(logged[n]) /\ replicated[n] \subseteq Msg
    BY LenProperties DEF Kinds
  <2>2. \A k \in DOMAIN logged[n] : logged[n][k] \in Copy BY <2>1, ElementOfSeq
  <2> QED BY <1>1, <2>1, <2>2 DEF In, Copy
<1>3. Here(n, x) BY <1>1, <1>2 DEF LoggedStays
<1> QED BY <1>2, <1>3, HeldIs DEF Here

LEMMA InitStays == Init => LoggedStays
<1> SUFFICES ASSUME Init PROVE LoggedStays OBVIOUS
<1>1. \A p \in Node : logged[p] = <<>> /\ replicated[p] = {} BY DEF Init, Empty
<1>2. \A p \in Node, x \in Msg : ~In(logged[p], x) BY <1>1 DEF In
<1> QED BY <1>1, <1>2 DEF LoggedStays

(* A step that logs nothing and loses nothing. *)
LEMMA StaysStep ==
  ASSUME LoggedStays, UNCHANGED files, \A p \in Node, x \in Msg : Here(p, x) => Here(p, x)'
  PROVE  LoggedStays'
BY DEF LoggedStays, files

LEMMA NextStays ==
  ASSUME TypeInv, LoggedStays, [Next]_vars
  PROVE  LoggedStays'
<1>1. Kinds /\ AllPlaced /\ Finite /\ AcksAreTrue BY DEF TypeInv
<1>2. ASSUME NEW n \in Node, NEW m \in Msg, NEW s \in Placements, Enqueue(n, m, s)
      PROVE  LoggedStays'
  <2> DEFINE A == IF s[1] = n THEN {m} ELSE {}
             B == IF n \in ReplicaNodes(s) THEN {m} ELSE {}
  <2>1. Adds(queues, queues', n, A) /\ Adds(logged, logged', n, A) BY <1>1, <1>2, EnqueueIds
  <2>2. /\ replicas' = [replicas EXCEPT ![n] = @ \cup B]
        /\ replicated' = [replicated EXCEPT ![n] = @ \cup B]
        /\ UNCHANGED <<inflight, acked>>
    BY <1>2 DEF Enqueue, Replicate, history
  <2> HIDE DEF A, B
  <2>3. \A p \in Node, x \in Msg :
          /\ x \in replicas'[p] <=> x \in replicas[p] \/ (p = n /\ x \in B)
          /\ x \in replicated'[p] <=> x \in replicated[p] \/ (p = n /\ x \in B)
    BY <1>1, <2>2 DEF Kinds
  <2> QED BY <2>1, <2>2, <2>3 DEF LoggedStays, Here, Adds
<1>3. ASSUME NEW n \in Node, inbox[n] # <<>>, HandleEnqueue(n, Head(inbox[n])) PROVE LoggedStays'
  <2>1. PICK A : Adds(queues, queues', n, A) /\ Adds(logged, logged', n, A)
    BY <1>1, <1>3, HandleEnqueueIds
  <2>2. UNCHANGED <<inflight, replicas, replicated, acked>> BY <1>3 DEF HandleEnqueue, history
  <2> QED BY <2>1, <2>2 DEF LoggedStays, Here, Adds
<1>4. ASSUME NEW n \in Node, HandleReplicate(n, Head(inbox[n])) PROVE LoggedStays'
  <2>1. PICK m : /\ replicas' = [replicas EXCEPT ![n] = @ \cup {m}]
                 /\ replicated' = [replicated EXCEPT ![n] = @ \cup {m}]
                 /\ UNCHANGED <<queues, logged, inflight, acked>>
    BY <1>4 DEF HandleReplicate, Replicate, history
  <2>2. \A p \in Node, x \in Msg :
          /\ x \in replicas'[p] <=> x \in replicas[p] \/ (p = n /\ x = m)
          /\ x \in replicated'[p] <=> x \in replicated[p] \/ (p = n /\ x = m)
    BY <1>1, <2>1 DEF Kinds
  <2> QED BY <2>1, <2>2 DEF LoggedStays, Here
<1>5. ASSUME NEW n \in Node, Dequeue(n) PROVE LoggedStays'
  <2>1. UNCHANGED <<replicas, files, acked>> BY <1>1, <1>5, DequeueIds
  <2>2. CASE UNCHANGED <<queues, inflight>> BY <2>1, <2>2, StaysStep DEF Here
  <2>3. CASE ~UNCHANGED <<queues, inflight>>
    <3>1. PICK q, i :
             /\ \A x : In(q, x) <=> In(queues[n], x) \/ x \in expired[n]
             /\ Pops(q, queues'[n], i)
             /\ \A p \in Node \ {n} : queues'[p] = queues[p]
             /\ inflight' = [inflight EXCEPT ![n] = Kept(n) \cup {i}]
      BY <1>1, <1>5, <2>3, DequeueIds
    <3>2. \A p \in Node, x \in Msg :
            In(queues[p], x) \/ x \in inflight[p] => In(queues'[p], x) \/ x \in inflight'[p]
      <4>1. inflight'[n] = (inflight[n] \ expired[n]) \cup {i}
            /\ \A p \in Node \ {n} : inflight'[p] = inflight[p]
        BY <1>1, <3>1 DEF Kinds, Kept
      <4> QED BY <3>1, <4>1 DEF Pops
    <3> QED BY <2>1, <3>2, StaysStep DEF Here
  <2> QED BY <2>2, <2>3
<1>6. ASSUME NEW n \in Node, inbox[n] # <<>>, HandleDequeue(n, Head(inbox[n])) PROVE LoggedStays'
  <2>1. UNCHANGED <<replicas, files, acked>> BY <1>1, <1>6, HandleDequeueIds
  <2>2. CASE UNCHANGED <<queues, inflight>> BY <2>1, <2>2, StaysStep DEF Here
  <2>3. CASE ~UNCHANGED <<queues, inflight>>
    <3>1. PICK i : /\ Pops(queues[n], queues'[n], i)
                   /\ \A p \in Node \ {n} : queues'[p] = queues[p]
                   /\ inflight' = [inflight EXCEPT ![n] = @ \cup {i}]
      BY <1>1, <1>6, <2>3, HandleDequeueIds
    <3>2. \A p \in Node, x \in Msg :
            In(queues[p], x) \/ x \in inflight[p] => In(queues'[p], x) \/ x \in inflight'[p]
      <4>1. inflight'[n] = inflight[n] \cup {i}
            /\ \A p \in Node \ {n} : inflight'[p] = inflight[p]
        BY <1>1, <3>1 DEF Kinds
      <4> QED BY <3>1, <4>1 DEF Pops
    <3> QED BY <2>1, <3>2, StaysStep DEF Here
  <2> QED BY <2>2, <2>3
<1>7. ASSUME NEW n \in Node, NEW m \in Msg, Ack(n, m) PROVE LoggedStays'
  <2>1. /\ inflight' = [inflight EXCEPT ![n] = @ \ {m}]
        /\ \A p \in Node : replicas[p] \subseteq replicas'[p] \cup {m}
        /\ acked' = acked \cup {m} /\ UNCHANGED <<queues, files>>
    BY <1>1, <1>7, AckIds
  <2>2. \A p \in Node : inflight[p] \subseteq inflight'[p] \cup {m} BY <1>1, <2>1 DEF Kinds
  <2> QED BY <2>1, <2>2, StaysStep DEF Here
<1>8. ASSUME NEW n \in Node, inbox[n] # <<>>, HandleAck(n, Head(inbox[n])) PROVE LoggedStays'
  <2> DEFINE m == Head(inbox[n]).id
  <2>1. /\ Head(inbox[n]).type = "ack"
        /\ replicas' = [replicas EXCEPT ![n] = @ \ {m}]
        /\ UNCHANGED <<queues, inflight, files, acked>>
    BY <1>8 DEF HandleAck, history
  <2>2. m \in acked BY <1>1, <1>8, <2>1, HeadIsOn DEF AcksAreTrue
  <2> HIDE DEF m
  <2>3. \A p \in Node : replicas[p] \subseteq replicas'[p] \cup {m} BY <1>1, <2>1 DEF Kinds
  <2> QED BY <2>1, <2>2, <2>3, StaysStep DEF Here
<1>9. ASSUME NEW n \in Node, Requeue(n) PROVE LoggedStays'
  <2>1. /\ inflight' = [inflight EXCEPT ![n] = Kept(n)]
        /\ UNCHANGED <<replicas, files, acked>>
    BY <1>9 DEF Requeue, history
  <2>2. expired[n] \in SUBSET Msg /\ IsFiniteSet(expired[n])
    BY <1>1, FS_Subset DEF Kinds, Finite
  <2>3. Adds(queues, queues', n, expired[n]) BY <1>1, <1>9, <2>2, RequeueIds DEF Requeue
  <2>4. \A p \in Node, x \in Msg :
          In(queues[p], x) \/ x \in inflight[p] => In(queues'[p], x) \/ x \in inflight'[p]
    <3>1. inflight'[n] = inflight[n] \ expired[n]
          /\ \A p \in Node \ {n} : inflight'[p] = inflight[p]
      BY <1>1, <2>1 DEF Kinds, Kept
    <3> QED BY <2>3, <3>1 DEF Adds
  <2> QED BY <2>1, <2>4, StaysStep DEF Here
<1>10. ASSUME NEW n \in Node, NEW m \in Msg, Elapse(n, m) PROVE LoggedStays'
  <2>1. /\ UNCHANGED <<inflight, replicas, files, acked>>
        /\ \A p \in Node : \A x : In(queues'[p], x) <=> In(queues[p], x)
    BY <1>1, <1>10, ElapseIds DEF history
  <2> QED BY <2>1, StaysStep DEF Here
<1>11. ASSUME NEW n \in Node, NEW p \in Peers(n), PeerFailure(n, p) PROVE LoggedStays'
  <2> DEFINE S == Promoted(n, p)
  <2>1. /\ Adds(queues, queues', n, S)
        /\ replicas' = [replicas EXCEPT ![n] = @ \ S]
        /\ UNCHANGED <<inflight, files, acked>>
    BY <1>1, <1>11, PeerFailureIds
  <2> HIDE DEF S
  <2>2. \A q \in Node, x \in Msg :
          In(queues[q], x) \/ x \in replicas[q] => In(queues'[q], x) \/ x \in replicas'[q]
    <3>1. replicas'[n] = replicas[n] \ S /\ \A q \in Node \ {n} : replicas'[q] = replicas[q]
      BY <1>1, <2>1 DEF Kinds
    <3> QED BY <2>1, <3>1 DEF Adds
  <2> QED BY <2>1, <2>2, StaysStep DEF Here
<1>12. CASE Restart
  <2>1. queues' = logged /\ replicas' = replicated /\ UNCHANGED files BY <1>12 DEF Restart, Replay
  <2> QED BY <2>1 DEF LoggedStays, Here, files
<1>13. CASE Heal \/ UNCHANGED vars \/ \E n \in Node : Cut(n)
  <2>1. UNCHANGED <<memory, files, history>> BY <1>13 DEF Heal, Cut, vars
  <2> QED BY <2>1, StaysStep DEF Here, memory, history
<1>14. ASSUME NEW n \in Node, Dispatch(n) PROVE LoggedStays'
  <2>1. inbox[n] # <<>> /\
        \/ HandleEnqueue(n, Head(inbox[n])) \/ HandleReplicate(n, Head(inbox[n]))
        \/ HandleDequeue(n, Head(inbox[n])) \/ HandleAck(n, Head(inbox[n]))
    BY <1>14 DEF Dispatch
  <2> QED BY <1>3, <1>4, <1>6, <1>8, <2>1
<1> QED BY <1>2, <1>5, <1>7, <1>9, <1>10, <1>11, <1>12, <1>13, <1>14 DEF Next

(* What a node wrote to its log is on that node until it is acknowledged,   *)
(* through deliveries, timeouts, promotions and restarts                    *)
(* (queue_node.py:233-265, 316-431).                                        *)
THEOREM LoggedStaysHeld == Spec => []LoggedIsHeld
<1>1. Init /\ TypeInv => TypeInv /\ LoggedStays BY InitStays
<1>2. TypeInv /\ LoggedStays /\ [Next]_vars => LoggedStays' BY NextStays
<1>3. TypeInv /\ LoggedStays => LoggedIsHeld BY LoggedStaysIs DEF TypeInv
<1> QED BY <1>1, <1>2, <1>3, InitTypeInv, TypeInvariant, PTL DEF Spec

(***************************************************************************)
(* One copy.  A message whose copies were not multiplied is in one place   *)
(* at most, counting what an "enqueue" message brings; while such a        *)
(* message is on its way nobody has logged what it brings, and after the   *)
(* acknowledgement neither a copy nor such a message is left.              *)
(***************************************************************************)

Live(p, m) == m \in inflight[p] \/ In(queues[p], m)

InOnePlace(m) ==
  /\ \A p \in Node : Once(queues[p], m) /\ ~(m \in inflight[p] /\ In(queues[p], m))
  /\ \A p, q \in Node : Live(p, m) /\ Live(q, m) => p = q

LoggedOnce(m) ==
  /\ \A p \in Node : Once(logged[p], m)
  /\ \A p, q \in Node : In(logged[p], m) /\ In(logged[q], m) => p = q

SentAlone(m) ==
  /\ \A p \in Node : SentOnce(inbox[p], m)
  /\ \A p, q \in Node : Sent(inbox[p], m) /\ Sent(inbox[q], m) => p = q
  /\ \A p, q \in Node : Sent(inbox[p], m) => ~Live(q, m) /\ ~In(logged[q], m)

GoneOnceAcked(m) == m \in acked => \A p \in Node : ~Live(p, m) /\ ~Sent(inbox[p], m)

Single(m) == InOnePlace(m) /\ LoggedOnce(m) /\ SentAlone(m) /\ GoneOnceAcked(m)

Singles == \A m \in Msg \ doubled : Single(m)

LEMMA SingleIsOneCopy ==
  ASSUME NEW m, Single(m)
  PROVE  Cardinality(Copies(m)) <= IF m \in acked THEN 0 ELSE 1
<1> DEFINE At(n) == {n} \X {k \in DOMAIN queues[n] : queues[n][k].id = m}
<1>1. Copies(m) = {n \in Node : m \in inflight[n]} \cup UNION {At(n) : n \in Node} BY DEF Copies
<1>2. ASSUME NEW c \in Copies(m)
      PROVE  \/ c \in Node /\ m \in inflight[c]
             \/ \E n \in Node : \E k \in DOMAIN queues[n] : c = <<n, k>> /\ queues[n][k].id = m
  <2>1. CASE c \in {n \in Node : m \in inflight[n]} BY <2>1
  <2>2. CASE \E n \in Node : c \in At(n) BY <2>2
  <2> QED BY <1>1, <2>1, <2>2
<1>3. ASSUME NEW c \in Copies(m), NEW d \in Copies(m) PROVE c = d
  <2>1. CASE c \in Node /\ m \in inflight[c]
    <3>1. Live(c, m) BY <2>1 DEF Live
    <3>2. CASE d \in Node /\ m \in inflight[d]
      BY <2>1, <3>1, <3>2 DEF Live, Single, InOnePlace
    <3>3. CASE \E n \in Node : \E k \in DOMAIN queues[n] : d = <<n, k>> /\ queues[n][k].id = m
      <4>1. PICK n \in Node : In(queues[n], m) BY <3>3 DEF In
      <4>2. Live(n, m) BY <4>1 DEF Live
      <4>3. n = c BY <2>1, <3>1, <4>2 DEF Single, InOnePlace
      <4> QED BY <2>1, <4>1, <4>3 DEF Single, InOnePlace
    <3> QED BY <1>2, <3>2, <3>3
  <2>2. CASE \E n \in Node : \E k \in DOMAIN queues[n] : c = <<n, k>> /\ queues[n][k].id = m
    <3>1. PICK n \in Node : \E k \in DOMAIN queues[n] : c = <<n, k>> /\ queues[n][k].id = m BY <2>2
    <3>2. PICK k \in DOMAIN queues[n] : c = <<n, k>> /\ queues[n][k].id = m BY <3>1
    <3>3. In(queues[n], m) /\ Live(n, m) BY <3>2 DEF In, Live
    <3>4. CASE d \in Node /\ m \in inflight[d]
      <4>1. Live(d, m) BY <3>4 DEF Live
      <4>2. d = n BY <3>3, <3>4, <4>1 DEF Single, InOnePlace
      <4> QED BY <3>3, <3>4, <4>2 DEF Single, InOnePlace
    <3>5. CASE \E p \in Node : \E j \in DOMAIN queues[p] : d = <<p, j>> /\ queues[p][j].id = m
      <4>1. PICK p \in Node : \E j \in DOMAIN queues[p] : d = <<p, j>> /\ queues[p][j].id = m BY <3>5
      <4>2. PICK j \in DOMAIN queues[p] : d = <<p, j>> /\ queues[p][j].id = m BY <4>1
      <4>3. Live(p, m) BY <4>2 DEF In, Live
      <4>4. n = p BY <3>3, <4>3 DEF Single, InOnePlace
      <4>5. j = k BY <3>2, <4>2, <4>4 DEF Single, InOnePlace, Once
      <4> QED BY <3>2, <4>2, <4>4, <4>5
    <3> QED BY <1>2, <3>4, <3>5
  <2> QED BY <1>2, <2>1, <2>2
<1>4. ASSUME Copies(m) # {} PROVE m \notin acked
  <2>1. PICK c \in Copies(m) : TRUE BY <1>4
  <2>2. \E n \in Node : Live(n, m)
    <3>1. CASE c \in Node /\ m \in inflight[c] BY <3>1 DEF Live
    <3>2. CASE \E n \in Node : \E k \in DOMAIN queues[n] : c = <<n, k>> /\ queues[n][k].id = m
      BY <3>2 DEF Live, In
    <3> QED BY <1>2, <3>1, <3>2
  <2> QED BY <2>2 DEF Single, GoneOnceAcked
<1>5. CASE Copies(m) = {}
  <2>1. Cardinality(Copies(m)) = 0 BY <1>5, FS_EmptySet
  <2> QED BY <2>1
<1>6. CASE Copies(m) # {}
  <2>1. PICK c \in Copies(m) : TRUE BY <1>6
  <2>2. Copies(m) = {c} BY <1>3, <2>1
  <2>3. Cardinality(Copies(m)) = 1 BY <2>2, FS_Singleton
  <2> QED BY <1>4, <1>6, <2>3
<1> QED BY <1>5, <1>6

LEMMA InitSingles == Init => Singles
<1> SUFFICES ASSUME Init PROVE Singles OBVIOUS
<1>1. \A p \in Node : /\ queues[p] = <<>> /\ logged[p] = <<>> /\ inbox[p] = <<>>
                      /\ inflight[p] = {}
  BY DEF Init, BusInit, Empty
<1>2. acked = {} BY DEF Init
<1>3. \A p \in Node : \A x :
        /\ ~In(queues[p], x) /\ ~In(logged[p], x) /\ ~Sent(inbox[p], x) /\ ~Live(p, x)
        /\ Once(queues[p], x) /\ Once(logged[p], x) /\ SentOnce(inbox[p], x)
  BY <1>1 DEF In, Sent, Once, SentOnce, Live
<1> QED BY <1>2, <1>3 DEF Singles, Single, InOnePlace, LoggedOnce, SentAlone, GoneOnceAcked

(* A step that puts m nowhere it was not. *)
LEMMA QuietStep ==
  ASSUME NEW m, Single(m),
         \A p \in Node : /\ Live(p, m)' => Live(p, m)
                         /\ In(logged'[p], m) => In(logged[p], m)
                         /\ Sent(inbox'[p], m) => Sent(inbox[p], m)
                         /\ Once(queues'[p], m) /\ Once(logged'[p], m) /\ SentOnce(inbox'[p], m)
                         /\ ~(m \in inflight'[p] /\ In(queues'[p], m)),
         m \in acked' => m \in acked \/ \A p \in Node : ~Live(p, m)' /\ ~Sent(inbox'[p], m)
  PROVE  Single(m)'
<1>1. InOnePlace(m)' BY DEF Single, InOnePlace
<1>2. LoggedOnce(m)' BY DEF Single, LoggedOnce
<1>3. SentAlone(m)' BY DEF Single, SentAlone
<1>4. GoneOnceAcked(m)' BY DEF Single, GoneOnceAcked
<1> QED BY <1>1, <1>2, <1>3, <1>4 DEF Single

LEMMA EnqueueSingle ==
  ASSUME TypeInv, Singles, NEW n \in Node, NEW i \in Msg, NEW s \in Placements, Enqueue(n, i, s)
  PROVE  Singles'
<1> DEFINE E == [type |-> "enqueue", from |-> n, copy |-> Visible(i)]
           R == [type |-> "replicate", from |-> n, id |-> i]
           A == IF s[1] = n THEN {i} ELSE {}
<1>1. Kinds /\ AllPlaced BY DEF TypeInv
<1>2. /\ Adds(queues, queues', n, A) /\ Adds(logged, logged', n, A)
      /\ ChannelsGet({E, R}, {i} \ A)
      /\ \A p \in Node : p # s[1] => \A x : Sent(inbox'[p], x) => Sent(inbox[p], x)
  BY <1>1, EnqueueIds
<1>3. UNCHANGED <<inflight, acked, doubled>> /\ placed[i] = <<>> BY DEF Enqueue, history
<1>4. (s[1] = n /\ A = {i}) \/ (s[1] # n /\ A = {}) OBVIOUS
<1> HIDE DEF A, E, R
<1>5. \A p \in Node : \A x :
        /\ Sent(inbox'[p], x) => Sent(inbox[p], x) \/ (x \in {i} \ A /\ p = s[1])
        /\ SentOnce(inbox[p], x) /\ ~(Sent(inbox[p], x) /\ x \in {i} \ A) => SentOnce(inbox'[p], x)
  BY <1>2 DEF ChannelsGet
<1> SUFFICES ASSUME NEW m \in Msg \ doubled PROVE Single(m)' BY <1>3 DEF Singles
<1>6. Single(m) BY DEF Singles
<1>7. \A p \in Node :
        /\ In(queues'[p], m) <=> In(queues[p], m) \/ (p = n /\ m \in A)
        /\ Once(queues[p], m) /\ ~(p = n /\ m \in A /\ In(queues[p], m)) => Once(queues'[p], m)
        /\ In(logged'[p], m) <=> In(logged[p], m) \/ (p = n /\ m \in A)
        /\ Once(logged[p], m) /\ ~(p = n /\ m \in A /\ In(logged[p], m)) => Once(logged'[p], m)
  BY <1>2 DEF Adds
<1>8. \A p \in Node : Once(queues[p], m) /\ Once(logged[p], m) /\ SentOnce(inbox[p], m)
                      /\ ~(m \in inflight[p] /\ In(queues[p], m))
  BY <1>6 DEF Single, InOnePlace, LoggedOnce, SentAlone
<1>9. CASE m # i
  <2>1. m \notin A BY <1>4, <1>9
  <2>2. \A p \in Node : /\ Live(p, m)' => Live(p, m)
                        /\ In(logged'[p], m) => In(logged[p], m)
                        /\ Sent(inbox'[p], m) => Sent(inbox[p], m)
                        /\ Once(queues'[p], m) /\ Once(logged'[p], m) /\ SentOnce(inbox'[p], m)
                        /\ ~(m \in inflight'[p] /\ In(queues'[p], m))
    BY <1>3, <1>5, <1>7, <1>8, <1>9, <2>1 DEF Live
  <2> QED BY <1>3, <1>6, <2>2, QuietStep
<1>10. CASE m = i
  <2>1. \A p \in Node : ~Around(p, m) BY <1>1, <1>3, <1>10 DEF AllPlaced
  <2>2. \A p \in Node : ~Sent(inbox[p], m)
    <3> SUFFICES ASSUME NEW p \in Node, Sent(inbox[p], m) PROVE FALSE OBVIOUS
    <3>1. PICK msg \in On(inbox[p]) : Carries(msg, m) BY DEF Sent, On
    <3> QED BY <1>1, <1>3, <1>10, <3>1 DEF AllPlaced, Carries
  <2>3. m \notin acked' BY <1>1, <1>3, <1>10 DEF AllPlaced
  <2>4. \A p \in Node : ~Live(p, m) /\ ~In(logged[p], m) BY <2>1 DEF Around, Live
  <2>5. \A p \in Node : /\ Live(p, m)' => p = n /\ m \in A
                        /\ In(logged'[p], m) => p = n /\ m \in A
                        /\ Sent(inbox'[p], m) => p = s[1] /\ m \notin A
                        /\ Once(queues'[p], m) /\ Once(logged'[p], m) /\ SentOnce(inbox'[p], m)
                        /\ m \notin inflight'[p]
    BY <1>3, <1>5, <1>7, <1>8, <2>2, <2>4 DEF Live
  <2>6. InOnePlace(m)' BY <2>5 DEF InOnePlace
  <2>7. LoggedOnce(m)' BY <2>5 DEF LoggedOnce
  <2>8. SentAlone(m)' BY <2>5 DEF SentAlone
  <2>9. GoneOnceAcked(m)' BY <2>3 DEF GoneOnceAcked
  <2> QED BY <2>6, <2>7, <2>8, <2>9 DEF Single
<1> QED BY <1>9, <1>10

LEMMA HandleEnqueueSingle ==
  ASSUME TypeInv, Singles, NEW n \in Node, inbox[n] # <<>>, HandleEnqueue(n, Head(inbox[n]))
  PROVE  Singles'
<1> DEFINE i == Head(inbox[n]).copy.id
<1>1. Kinds BY DEF TypeInv
<1>2. /\ Carries(Head(inbox[n]), i)
      /\ Adds(queues, queues', n, {i}) /\ Adds(logged, logged', n, {i})
      /\ ChannelsGet({}, {}) /\ inbox'[n] = Tail(inbox[n])
  BY <1>1, HandleEnqueueIds
<1>3. UNCHANGED <<inflight, acked, doubled>> BY DEF HandleEnqueue, history
<1>4. inbox[n] \in Seq(Messages) BY <1>1 DEF Kinds
<1> SUFFICES ASSUME NEW m \in Msg \ doubled PROVE Single(m)' BY <1>3 DEF Singles
<1>5. Single(m) BY DEF Singles
<1>6. /\ Carries(Head(inbox[n]), m) => Sent(inbox[n], m)
      /\ SentOnce(inbox[n], m) /\ Carries(Head(inbox[n]), m) => ~Sent(inbox'[n], m)
  BY <1>2, <1>4, TailBrings
<1>7. \A p \in Node : /\ Sent(inbox'[p], m) => Sent(inbox[p], m)
                      /\ SentOnce(inbox[p], m) => SentOnce(inbox'[p], m)
  BY <1>2 DEF ChannelsGet
<1> HIDE DEF i
<1>8. \A p \in Node :
        /\ In(queues'[p], m) <=> In(queues[p], m) \/ (p = n /\ m = i)
        /\ Once(queues[p], m) /\ ~(p = n /\ m = i /\ In(queues[p], m)) => Once(queues'[p], m)
        /\ In(logged'[p], m) <=> In(logged[p], m) \/ (p = n /\ m = i)
        /\ Once(logged[p], m) /\ ~(p = n /\ m = i /\ In(logged[p], m)) => Once(logged'[p], m)
  BY <1>2 DEF Adds
<1>9. \A p \in Node : Once(queues[p], m) /\ Once(logged[p], m) /\ SentOnce(inbox[p], m)
                      /\ ~(m \in inflight[p] /\ In(queues[p], m))
  BY <1>5 DEF Single, InOnePlace, LoggedOnce, SentAlone
<1>10. CASE m # i
  <2>1. \A p \in Node : /\ Live(p, m)' => Live(p, m)
                        /\ In(logged'[p], m) => In(logged[p], m)
                        /\ Sent(inbox'[p], m) => Sent(inbox[p], m)
                        /\ Once(queues'[p], m) /\ Once(logged'[p], m) /\ SentOnce(inbox'[p], m)
                        /\ ~(m \in inflight'[p] /\ In(queues'[p], m))
    BY <1>3, <1>7, <1>8, <1>9, <1>10 DEF Live
  <2> QED BY <1>3, <1>5, <2>1, QuietStep
<1>11. CASE m = i
  <2>1. Sent(inbox[n], m) /\ ~Sent(inbox'[n], m) BY <1>2, <1>6, <1>9, <1>11
  <2>2. \A p \in Node : /\ ~Live(p, m) /\ ~In(logged[p], m)
                        /\ Sent(inbox[p], m) => p = n
    BY <1>5, <2>1 DEF Single, SentAlone
  <2>3. m \notin acked' BY <1>3, <1>5, <2>1 DEF Single, GoneOnceAcked
  <2>4. \A p \in Node : /\ Live(p, m)' => p = n
                        /\ In(logged'[p], m) => p = n
                        /\ ~Sent(inbox'[p], m)
                        /\ Once(queues'[p], m) /\ Once(logged'[p], m) /\ SentOnce(inbox'[p], m)
                        /\ m \notin inflight'[p]
    BY <1>3, <1>7, <1>8, <1>9, <2>1, <2>2 DEF Live
  <2>5. InOnePlace(m)' BY <2>4 DEF InOnePlace
  <2>6. LoggedOnce(m)' BY <2>4 DEF LoggedOnce
  <2>7. SentAlone(m)' BY <2>4 DEF SentAlone
  <2>8. GoneOnceAcked(m)' BY <2>3 DEF GoneOnceAcked
  <2> QED BY <2>5, <2>6, <2>7, <2>8 DEF Single
<1> QED BY <1>10, <1>11

(* What holds of m on every node before the step. *)
LEMMA SingleGives ==
  ASSUME NEW m, Single(m)
  PROVE  \A p \in Node : /\ Once(queues[p], m) /\ Once(logged[p], m) /\ SentOnce(inbox[p], m)
                         /\ ~(m \in inflight[p] /\ In(queues[p], m))
BY DEF Single, InOnePlace, LoggedOnce, SentAlone

(* A step that leaves logs alone and brings nothing new over the bus.       *)
LEMMA MovingStep ==
  ASSUME NEW m, Single(m), UNCHANGED files, ChannelsGet({}, {}), acked' = acked,
         \A p \in Node : /\ Live(p, m)' => Live(p, m)
                         /\ Once(queues'[p], m)
                         /\ ~(m \in inflight'[p] /\ In(queues'[p], m))
  PROVE  Single(m)'
<1>1. \A p \in Node : Once(logged[p], m) /\ SentOnce(inbox[p], m) BY SingleGives
<1>2. \A p \in Node : /\ Sent(inbox'[p], m) => Sent(inbox[p], m)
                      /\ SentOnce(inbox'[p], m)
  BY <1>1 DEF ChannelsGet
<1> QED BY <1>1, <1>2, QuietStep DEF files

LEMMA DequeueSingle ==
  ASSUME TypeInv, Singles, NEW n \in Node, Dequeue(n)
  PROVE  Singles'
<1>1. Kinds /\ Finite BY DEF TypeInv
<1>2. UNCHANGED <<files, acked, doubled>> BY <1>1, DequeueIds
<1> SUFFICES ASSUME NEW m \in Msg \ doubled PROVE Single(m)' BY <1>2 DEF Singles
<1>3. Single(m) BY DEF Singles
<1>4. \A p \in Node : /\ Once(queues[p], m) /\ Once(logged[p], m) /\ SentOnce(inbox[p], m)
                      /\ ~(m \in inflight[p] /\ In(queues[p], m))
  BY <1>3, SingleGives
<1>5. CASE UNCHANGED <<queues, inflight>> /\ \E msg \in Messages : ChannelsGet({msg}, {})
  <2>1. \A p \in Node : /\ Sent(inbox'[p], m) => Sent(inbox[p], m)
                        /\ SentOnce(inbox[p], m) => SentOnce(inbox'[p], m)
    BY <1>5 DEF ChannelsGet
  <2> QED BY <1>2, <1>3, <1>4, <1>5, <2>1, QuietStep DEF files, Live
<1>6. CASE ~(UNCHANGED <<queues, inflight>> /\ \E msg \in Messages : ChannelsGet({msg}, {}))
  <2>1. PICK q, i :
           /\ \A x : /\ In(q, x) <=> In(queues[n], x) \/ x \in expired[n]
                     /\ Once(queues[n], x) /\ ~(In(queues[n], x) /\ x \in expired[n])
                          => Once(q, x)
           /\ Pops(q, queues'[n], i)
           /\ \A p \in Node \ {n} : queues'[p] = queues[p]
           /\ inflight' = [inflight EXCEPT ![n] = Kept(n) \cup {i}]
           /\ UNCHANGED inbox
    BY <1>1, <1>6, DequeueIds
  <2>2. /\ inflight'[n] = (inflight[n] \ expired[n]) \cup {i}
        /\ \A p \in Node \ {n} : inflight'[p] = inflight[p]
        /\ expired[n] \subseteq inflight[n]
    BY <1>1, <2>1 DEF Kinds, Kept
  <2>3. Once(q, m) BY <1>4, <2>1, <2>2
  <2>4. /\ Live(n, m)' => Live(n, m)
        /\ Once(queues'[n], m)
        /\ ~(m \in inflight'[n] /\ In(queues'[n], m))
    <3>1. /\ In(queues'[n], m) => In(q, m)
          /\ Once(queues'[n], m)
          /\ m = i => In(q, m) /\ ~In(queues'[n], m)
      BY <2>1, <2>3 DEF Pops
    <3>2. In(q, m) <=> In(queues[n], m) \/ m \in expired[n] BY <2>1
    <3> QED BY <1>4, <2>2, <3>1, <3>2 DEF Live
  <2>5. \A p \in Node : /\ Live(p, m)' => Live(p, m)
                        /\ Once(queues'[p], m)
                        /\ ~(m \in inflight'[p] /\ In(queues'[p], m))
    BY <1>4, <2>1, <2>2, <2>4 DEF Live
  <2> QED BY <1>1, <1>2, <1>3, <2>1, <2>5, SameChannels, MovingStep
<1> QED BY <1>5, <1>6

LEMMA HandleDequeueSingle ==
  ASSUME TypeInv, Singles, NEW n \in Node, inbox[n] # <<>>, HandleDequeue(n, Head(inbox[n]))
  PROVE  Singles'
<1>1. Kinds BY DEF TypeInv
<1>2. UNCHANGED <<files, acked>> BY <1>1, HandleDequeueIds
<1>3. CASE UNCHANGED <<queues, inflight, doubled>> /\ ChannelsGet({}, {})
  <2> SUFFICES ASSUME NEW m \in Msg \ doubled PROVE Single(m)' BY <1>3 DEF Singles
  <2>1. Single(m) BY DEF Singles
  <2> QED BY <1>2, <1>3, <2>1, SingleGives, MovingStep DEF Live
<1>4. CASE ~(UNCHANGED <<queues, inflight, doubled>> /\ ChannelsGet({}, {}))
  <2>1. PICK i :
           /\ Pops(queues[n], queues'[n], i)
           /\ \A p \in Node \ {n} : queues'[p] = queues[p]
           /\ inflight' = [inflight EXCEPT ![n] = @ \cup {i}]
           /\ doubled' = doubled \cup {i}
           /\ \E msg \in Messages : ChannelsGet({msg}, {i})
    BY <1>1, <1>4, HandleDequeueIds
  <2> SUFFICES ASSUME NEW m \in Msg \ doubled, m # i PROVE Single(m)' BY <2>1 DEF Singles
  <2>2. Single(m) BY DEF Singles
  <2>3. \A p \in Node : /\ Once(queues[p], m) /\ Once(logged[p], m) /\ SentOnce(inbox[p], m)
                        /\ ~(m \in inflight[p] /\ In(queues[p], m))
    BY <2>2, SingleGives
  <2>4. \A p \in Node : /\ Sent(inbox'[p], m) => Sent(inbox[p], m)
                        /\ SentOnce(inbox[p], m) => SentOnce(inbox'[p], m)
    BY <2>1 DEF ChannelsGet
  <2>5. inflight'[n] = inflight[n] \cup {i} /\ \A p \in Node \ {n} : inflight'[p] = inflight[p]
    BY <1>1, <2>1 DEF Kinds
  <2>6. \A p \in Node : /\ In(queues'[p], m) => In(queues[p], m)
                        /\ Once(queues[p], m) => Once(queues'[p], m)
    BY <2>1 DEF Pops
  <2>7. \A p \in Node : m \in inflight'[p] => m \in inflight[p] BY <2>5
  <2> QED BY <1>2, <2>2, <2>3, <2>4, <2>6, <2>7, QuietStep DEF files, Live
<1> QED BY <1>3, <1>4

LEMMA AckSingle ==
  ASSUME TypeInv, Singles, NEW n \in Node, NEW i \in Msg, Ack(n, i)
  PROVE  Singles'
<1>1. Kinds BY DEF TypeInv
<1>2. /\ i \in inflight[n]
      /\ inflight' = [inflight EXCEPT ![n] = @ \ {i}]
      /\ acked' = acked \cup {i}
      /\ \E msg : ChannelsGet({msg}, {})
      /\ UNCHANGED <<queues, files, doubled>>
  BY <1>1, AckIds
<1> SUFFICES ASSUME NEW m \in Msg \ doubled PROVE Single(m)' BY <1>2 DEF Singles
<1>3. Single(m) BY DEF Singles
<1>4. \A p \in Node : /\ Once(queues[p], m) /\ Once(logged[p], m) /\ SentOnce(inbox[p], m)
                      /\ ~(m \in inflight[p] /\ In(queues[p], m))
  BY <1>3, SingleGives
<1>5. \A p \in Node : /\ Sent(inbox'[p], m) => Sent(inbox[p], m)
                      /\ SentOnce(inbox[p], m) => SentOnce(inbox'[p], m)
  BY <1>2 DEF ChannelsGet
<1>6. inflight'[n] = inflight[n] \ {i} /\ \A p \in Node \ {n} : inflight'[p] = inflight[p]
  BY <1>1, <1>2 DEF Kinds
<1>7. \A p \in Node : (m \in inflight'[p] => m \in inflight[p]) /\ (Live(p, m)' => Live(p, m))
  BY <1>2, <1>6 DEF Live
<1>8. ASSUME m = i PROVE \A p \in Node : ~Live(p, m)' /\ ~Sent(inbox'[p], m)
  <2>1. Live(n, m) /\ ~In(queues[n], m) BY <1>2, <1>4, <1>8 DEF Live
  <2>2. \A p \in Node : Live(p, m) => p = n BY <1>3, <2>1 DEF Single, InOnePlace
  <2>3. \A p \in Node : ~Sent(inbox[p], m) BY <1>3, <2>1 DEF Single, SentAlone
  <2>4. ~Live(n, m)' BY <1>2, <1>6, <1>8, <2>1 DEF Live
  <2> QED BY <1>5, <1>7, <2>2, <2>3, <2>4
<1>9. m \in acked' => m \in acked \/ \A p \in Node : ~Live(p, m)' /\ ~Sent(inbox'[p], m)
  BY <1>2, <1>8
<1> QED BY <1>2, <1>3, <1>4, <1>5, <1>7, <1>9, QuietStep DEF files

LEMMA RequeueSingle ==
  ASSUME TypeInv, Singles, NEW n \in Node, Requeue(n)
  PROVE  Singles'
<1>1. Kinds /\ Finite BY DEF TypeInv
<1>2. /\ inflight' = [inflight EXCEPT ![n] = Kept(n)]
      /\ UNCHANGED <<inbox, files, acked, doubled>>
  BY DEF Requeue, busVars, history
<1>3. expired[n] \subseteq inflight[n] /\ expired[n] \in SUBSET Msg /\ IsFiniteSet(expired[n])
  BY <1>1, FS_Subset DEF Kinds, Finite
<1>4. Adds(queues, queues', n, expired[n]) BY <1>1, <1>3, RequeueIds DEF Requeue
<1>5. /\ inflight'[n] = inflight[n] \ expired[n]
      /\ \A p \in Node \ {n} : inflight'[p] = inflight[p]
  BY <1>1, <1>2 DEF Kinds, Kept
<1> SUFFICES ASSUME NEW m \in Msg \ doubled PROVE Single(m)' BY <1>2 DEF Singles
<1>6. Single(m) BY DEF Singles
<1>7. \A p \in Node : Once(queues[p], m) /\ ~(m \in inflight[p] /\ In(queues[p], m))
  BY <1>6, SingleGives
<1>8. \A p \in Node :
        /\ In(queues'[p], m) <=> In(queues[p], m) \/ (p = n /\ m \in expired[n])
        /\ Once(queues[p], m) /\ ~(p = n /\ m \in expired[n] /\ In(queues[p], m))
             => Once(queues'[p], m)
  BY <1>4 DEF Adds
<1>9. \A p \in Node : /\ Live(p, m)' => Live(p, m)
                      /\ Once(queues'[p], m)
                      /\ ~(m \in inflight'[p] /\ In(queues'[p], m))
  BY <1>3, <1>5, <1>7, <1>8 DEF Live
<1> QED BY <1>1, <1>2, <1>6, <1>9, SameChannels, MovingStep

LEMMA PeerFailureSingle ==
  ASSUME TypeInv, Singles, NEW n \in Node, NEW p \in Peers(n), PeerFailure(n, p)
  PROVE  Singles'
<1>1. Kinds /\ Finite BY DEF TypeInv
<1> DEFINE S == Promoted(n, p)
<1>2. /\ Adds(queues, queues', n, S) /\ doubled' = doubled \cup S
      /\ UNCHANGED <<busVars, inflight, files, acked>>
  BY <1>1, PeerFailureIds
<1> HIDE DEF S
<1> SUFFICES ASSUME NEW m \in Msg \ doubled, m \notin S PROVE Single(m)' BY <1>2 DEF Singles
<1>3. Single(m) BY DEF Singles
<1>4. \A q \in Node : Once(queues[q], m) /\ ~(m \in inflight[q] /\ In(queues[q], m))
  BY <1>3, SingleGives
<1>5. \A q \in Node : /\ In(queues'[q], m) <=> In(queues[q], m)
                      /\ Once(queues[q], m) => Once(queues'[q], m)
  BY <1>2 DEF Adds
<1>6. \A q \in Node : /\ Live(q, m)' => Live(q, m)
                      /\ Once(queues'[q], m)
                      /\ ~(m \in inflight'[q] /\ In(queues'[q], m))
  BY <1>2, <1>4, <1>5 DEF Live
<1>7. ChannelsGet({}, {}) BY <1>1, <1>2, SameChannels DEF busVars
<1> QED BY <1>2, <1>3, <1>6, <1>7, MovingStep

LEMMA RestartSingle ==
  ASSUME TypeInv, Singles, Restart
  PROVE  Singles'
<1>1. /\ queues' = logged /\ UNCHANGED <<files, acked>>
      /\ inflight' = [n \in Node |-> {}] /\ inbox' = [n \in Node |-> <<>>]
      /\ doubled' = doubled \cup acked
  BY DEF Restart, Replay, Empty
<1> SUFFICES ASSUME NEW m \in Msg \ doubled, m \notin acked PROVE Single(m)'
  BY <1>1 DEF Singles
<1>2. Single(m) BY DEF Singles
<1>3. \A p \in Node : /\ inflight'[p] = {} /\ ~Sent(inbox'[p], m) /\ SentOnce(inbox'[p], m)
                      /\ Live(p, m)' <=> In(logged[p], m)
  BY <1>1 DEF Sent, SentOnce, Live
<1>4. LoggedOnce(m) BY <1>2 DEF Single
<1>5. LoggedOnce(m)' BY <1>1, <1>4 DEF LoggedOnce, files
<1>6. InOnePlace(m)' BY <1>1, <1>3, <1>4 DEF InOnePlace, LoggedOnce
<1>7. SentAlone(m)' BY <1>3 DEF SentAlone
<1>8. GoneOnceAcked(m)' BY <1>1 DEF GoneOnceAcked
<1> QED BY <1>5, <1>6, <1>7, <1>8 DEF Single

(* The other steps leave what InOnePlace is about where it is. *)
LEMMA OtherSingle ==
  ASSUME TypeInv, Singles, UNCHANGED <<inflight, files, acked, doubled>>, ChannelsGet({}, {}),
         \A p \in Node : \A x : /\ In(queues'[p], x) <=> In(queues[p], x)
                                /\ Once(queues[p], x) => Once(queues'[p], x)
  PROVE  Singles'
<1> SUFFICES ASSUME NEW m \in Msg \ doubled PROVE Single(m)' BY DEF Singles
<1>1. Single(m) BY DEF Singles
<1>2. \A p \in Node : /\ Live(p, m)' => Live(p, m)
                      /\ Once(queues'[p], m)
                      /\ ~(m \in inflight'[p] /\ In(queues'[p], m))
  BY <1>1, SingleGives DEF Live
<1> QED BY <1>1, <1>2, MovingStep

LEMMA NextSingle ==
  ASSUME TypeInv, Singles, [Next]_vars
  PROVE  Singles'
<1>1. Kinds BY DEF TypeInv
<1>2. ASSUME NEW n \in Node, inbox[n] # <<>>, HandleReplicate(n, Head(inbox[n])) PROVE Singles'
  <2>1. ChannelsGet({}, {}) BY <1>1, <1>2, HandleGets DEF HandleReplicate
  <2>2. UNCHANGED <<queues, logged, inflight, acked, doubled>>
    BY <1>2 DEF HandleReplicate, history
  <2> SUFFICES ASSUME NEW m \in Msg \ doubled PROVE Single(m)' BY <2>2 DEF Singles
  <2>3. Single(m) BY DEF Singles
  <2>4. \A p \in Node : /\ Once(queues[p], m) /\ Once(logged[p], m) /\ SentOnce(inbox[p], m)
                        /\ ~(m \in inflight[p] /\ In(queues[p], m))
    BY <2>3, SingleGives
  <2>5. \A p \in Node : /\ Sent(inbox'[p], m) => Sent(inbox[p], m)
                        /\ SentOnce(inbox[p], m) => SentOnce(inbox'[p], m)
    BY <2>1 DEF ChannelsGet
  <2> QED BY <2>2, <2>3, <2>4, <2>5, QuietStep DEF Live
<1>3. ASSUME NEW n \in Node, inbox[n] # <<>>, HandleAck(n, Head(inbox[n])) PROVE Singles'
  <2>1. ChannelsGet({}, {}) BY <1>1, <1>3, HandleGets DEF HandleAck
  <2>2. UNCHANGED <<queues, inflight, files, acked, doubled>> BY <1>3 DEF HandleAck, history
  <2> QED BY <2>1, <2>2, OtherSingle
<1>4. ASSUME NEW n \in Node, NEW m \in Msg, Elapse(n, m) PROVE Singles'
  <2>1. UNCHANGED <<inbox, inflight, files, acked, doubled>>
    BY <1>1, <1>4, ElapseIds DEF busVars, history
  <2> QED BY <1>1, <1>4, <2>1, ElapseIds, SameChannels, OtherSingle
<1>5. CASE Heal \/ UNCHANGED vars \/ \E n \in Node : Cut(n)
  <2>1. UNCHANGED <<inbox, queues, inflight, files, acked, doubled>>
    BY <1>5 DEF Heal, HealPartition, Cut, PartitionNodes, vars, busVars, memory, history
  <2> QED BY <1>1, <2>1, SameChannels, OtherSingle
<1>6. ASSUME NEW n \in Node, Dispatch(n) PROVE Singles'
  <2>1. inbox[n] # <<>> /\
        \/ HandleEnqueue(n, Head(inbox[n])) \/ HandleReplicate(n, Head(inbox[n]))
        \/ HandleDequeue(n, Head(inbox[n])) \/ HandleAck(n, Head(inbox[n]))
    BY <1>6 DEF Dispatch
  <2> QED BY <1>2, <1>3, <2>1, HandleEnqueueSingle, HandleDequeueSingle
<1> QED BY <1>4, <1>5, <1>6, EnqueueSingle, DequeueSingle, AckSingle, RequeueSingle,
           PeerFailureSingle, RestartSingle DEF Next

(* A message whose copies were not multiplied by a peer's dequeue, a        *)
(* promotion or a restart after its ack is in one place at most, and in     *)
(* none once it is acknowledged (queue_node.py:273-431).                    *)
THEOREM OneCopyEach == Spec => []OneCopy
<1>1. TypeInv /\ Singles /\ [Next]_vars => Singles' BY NextSingle
<1>2. Singles => OneCopy BY SingleIsOneCopy DEF Singles, OneCopy
<1> QED BY <1>1, <1>2, InitSingles, TypeInvariant, PTL DEF Spec

=============================================================================
