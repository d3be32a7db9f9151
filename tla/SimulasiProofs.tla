--------------------------- MODULE SimulasiProofs ----------------------------
(***************************************************************************)
(* Theorems about the demo, for any numbers of requests, publications,     *)
(* messages, nodes and resets.  The tabs share no variable, so each has    *)
(* its own inductive invariant.                                            *)
(***************************************************************************)
EXTENDS Simulasi, FiniteSetTheorems, SequenceTheorems, TLAPS

(***************************************************************************)
(* RequestResponseTab.                                                     *)
(***************************************************************************)

Ids(q) == {q[k].id : k \in DOMAIN q}
Apart(q) == \A j, k \in DOMAIN q : q[j].id = q[k].id => j = k

(* A request is in one packet or with the server. *)
InOnePlace == Apart(packets) /\ Ids(packets) \cap processing = {}

RRInv == RR!TypeOK /\ InOnePlace /\ RR!OneAtATime

-----------------------------------------------------------------------------
(* What a tail and an append do.                                           *)

LEMMA TailIs ==
  ASSUME NEW S, NEW q \in Seq(S), q # <<>>
  PROVE  /\ Tail(q) \in Seq(S) /\ Head(q) \in S /\ Len(q) \in Nat /\ Len(q) # 0
         /\ DOMAIN q = 1..Len(q) /\ DOMAIN Tail(q) = 1..Len(Tail(q))
         /\ Len(Tail(q)) = Len(q) - 1 /\ Head(q) = q[1]
         /\ \A k \in DOMAIN Tail(q) : k + 1 \in DOMAIN q /\ Tail(q)[k] = q[k + 1]
         /\ \A k \in DOMAIN q : k = 1 \/ (k - 1 \in DOMAIN Tail(q) /\ q[k] = Tail(q)[k - 1])
<1>1. /\ Tail(q) \in Seq(S) /\ Head(q) \in S /\ Head(q) = q[1]
      /\ Len(Tail(q)) = Len(q) - 1 /\ \A k \in 1..Len(Tail(q)) : Tail(q)[k] = q[k + 1]
  BY HeadTailProperties
<1>2. Len(q) \in Nat /\ Len(q) # 0 /\ DOMAIN q = 1..Len(q) /\ DOMAIN Tail(q) = 1..Len(Tail(q))
  BY <1>1, LenProperties, EmptySeq
<1> DEFINE t == Tail(q)
<1>3. t = Tail(q) OBVIOUS
<1> HIDE DEF t
<1>4. \A k \in DOMAIN t : k + 1 \in DOMAIN q /\ t[k] = q[k + 1] BY <1>1, <1>2, <1>3
<1>5. \A k \in DOMAIN q : k = 1 \/ (k - 1 \in DOMAIN t /\ q[k] = t[k - 1])
  <2> SUFFICES ASSUME NEW k \in DOMAIN q, k # 1 PROVE k - 1 \in DOMAIN t /\ q[k] = t[k - 1]
    OBVIOUS
  <2>1. k - 1 \in 1..Len(t) /\ (k - 1) + 1 = k BY <1>1, <1>2, <1>3
  <2> QED BY <1>1, <1>2, <1>3, <2>1
<1> QED BY <1>1, <1>2, <1>3, <1>4, <1>5

LEMMA AppendIs ==
  ASSUME NEW S, NEW q \in Seq(S), NEW m \in S
  PROVE  /\ Append(q, m) \in Seq(S) /\ Len(q) \in Nat /\ Len(Append(q, m)) = Len(q) + 1
         /\ DOMAIN q = 1..Len(q) /\ DOMAIN Append(q, m) = 1..(Len(q) + 1)
         /\ Append(q, m)[Len(q) + 1] = m
         /\ \A k \in DOMAIN q : Append(q, m)[k] = q[k]
<1>1. /\ Append(q, m) \in Seq(S) /\ Len(Append(q, m)) = Len(q) + 1
      /\ \A k \in 1..Len(q) : Append(q, m)[k] = q[k]
      /\ Append(q, m)[Len(q) + 1] = m
  BY AppendProperties
<1>2. Len(q) \in Nat /\ DOMAIN q = 1..Len(q) /\ DOMAIN Append(q, m) = 1..Len(Append(q, m))
  BY <1>1, LenProperties
<1> QED BY <1>1, <1>2

LEMMA SeqGrows ==
  ASSUME NEW S, NEW T, S \subseteq T, NEW q \in Seq(S)
  PROVE  q \in Seq(T)
<1>1. Len(q) \in Nat /\ q = [k \in 1..Len(q) |-> q[k]] /\ \A k \in 1..Len(q) : q[k] \in S
  BY ElementOfSeq, LenProperties
<1> QED BY <1>1, IsASeq

LEMMA IdsAppended ==
  ASSUME NEW S, NEW q \in Seq(S), NEW m \in S
  PROVE  /\ Ids(Append(q, m)) = Ids(q) \cup {m.id}
         /\ Apart(q) /\ m.id \notin Ids(q) => Apart(Append(q, m))
<1> DEFINE a == Append(q, m)
<1>1. /\ Len(q) \in Nat /\ DOMAIN q = 1..Len(q) /\ DOMAIN a = 1..(Len(q) + 1)
      /\ a[Len(q) + 1] = m /\ \A k \in DOMAIN q : a[k] = q[k]
  BY AppendIs
<1> HIDE DEF a
<1>2. \A k : k \in DOMAIN a <=> k \in DOMAIN q \/ k = Len(q) + 1 BY <1>1
<1>3. Ids(a) = Ids(q) \cup {m.id} BY <1>1, <1>2 DEF Ids
<1>4. Apart(q) /\ m.id \notin Ids(q) => Apart(a) BY <1>1, <1>2 DEF Ids, Apart
<1> QED BY <1>3, <1>4 DEF a

LEMMA IdsDropped ==
  ASSUME NEW S, NEW q \in Seq(S), q # <<>>, Apart(q)
  PROVE  /\ Ids(q) = Ids(Tail(q)) \cup {Head(q).id}
         /\ Head(q).id \notin Ids(Tail(q)) /\ Apart(Tail(q))
<1> DEFINE t == Tail(q)
<1>1. /\ Len(q) \in Nat /\ Len(q) # 0 /\ DOMAIN q = 1..Len(q) /\ DOMAIN t = 1..Len(t)
      /\ Len(t) = Len(q) - 1 /\ Head(q) = q[1]
      /\ \A k \in DOMAIN t : k + 1 \in DOMAIN q /\ t[k] = q[k + 1]
      /\ \A k \in DOMAIN q : k = 1 \/ (k - 1 \in DOMAIN t /\ q[k] = t[k - 1])
  BY TailIs
<1> HIDE DEF t
<1>2. 1 \in DOMAIN q BY <1>1
<1>3. Ids(q) = Ids(t) \cup {Head(q).id} BY <1>1, <1>2 DEF Ids
<1>4. \A k \in DOMAIN t : k + 1 # 1 BY <1>1
<1>5. Head(q).id \notin Ids(t)
  <2> SUFFICES ASSUME NEW k \in DOMAIN t, t[k].id = q[1].id PROVE FALSE BY <1>1 DEF Ids
  <2>1. k + 1 \in DOMAIN q /\ q[k + 1].id = q[1].id BY <1>1
  <2> QED BY <1>2, <1>4, <2>1 DEF Apart
<1>6. Apart(t)
  <2> SUFFICES ASSUME NEW j \in DOMAIN t, NEW k \in DOMAIN t, t[j].id = t[k].id PROVE j = k
    BY DEF Apart
  <2>1. j + 1 = k + 1 BY <1>1 DEF Apart
  <2> QED BY <1>1, <2>1
<1> QED BY <1>3, <1>5, <1>6 DEF t

-----------------------------------------------------------------------------
(* The steps.                                                              *)

LEMMA RRCardinality == \A S : RR!Cardinality(S) = Cardinality(S)
  BY DEF RR!Cardinality, Cardinality

LEMMA Bounds ==
  /\ MaxRequests \in Nat /\ MaxPubs \in Nat /\ Burst \in Nat
  /\ MaxMessages \in Nat /\ MaxResets \in Nat
  BY SimulasiAssumption

RRPacket(n) == [kind : {"request", "response"}, id : 1..n]

LEMMA UnderWayIs ==
  ASSUME RR!TypeOK
  PROVE  /\ RR!UnderWay = Ids(packets) \cup processing
         /\ IsFiniteSet(RR!UnderWay) /\ Cardinality(RR!UnderWay) \in Nat
         /\ RR!UnderWay \subseteq 1..req_count /\ req_count \in Nat
         /\ packets \in Seq(RRPacket(req_count))
<1>1. RR!UnderWay = Ids(packets) \cup processing BY DEF RR!UnderWay, Ids
<1>2. req_count \in Nat BY Bounds DEF RR!TypeOK
<1>3. packets \in Seq(RRPacket(req_count)) BY DEF RR!TypeOK, RRPacket
<1>4. \A k \in DOMAIN packets : packets[k].id \in 1..req_count
  <2>1. \A k \in DOMAIN packets : packets[k] \in RRPacket(req_count)
    BY <1>3, ElementOfSeq, LenProperties
  <2> QED BY <2>1 DEF RRPacket
<1>5. RR!UnderWay \subseteq 1..req_count BY <1>1, <1>4 DEF Ids, RR!TypeOK
<1>6. IsFiniteSet(1..req_count) BY <1>2, FS_Interval
<1> QED BY <1>1, <1>2, <1>3, <1>5, <1>6, FS_Subset, FS_CardinalityType

(* The numbers of OneAtATime. *)
LEMMA RRCounts ==
  ASSUME RRInv
  PROVE  /\ Cardinality(RR!UnderWay) \in Nat /\ count \in Nat /\ survivors \in Nat
         /\ req_count \in Nat /\ before \in Nat /\ before <= req_count
         /\ Cardinality(RR!UnderWay) <= (IF waiting THEN 1 ELSE 0) + survivors
         /\ count + Cardinality(RR!UnderWay) = (req_count - before) + survivors
<1>1. RR!TypeOK /\ RR!OneAtATime BY DEF RRInv
<1>2. RR!Cardinality(RR!UnderWay) = Cardinality(RR!UnderWay) BY RRCardinality
<1>3. /\ Cardinality(RR!UnderWay) <= (IF waiting THEN 1 ELSE 0) + survivors
      /\ count + Cardinality(RR!UnderWay) = (req_count - before) + survivors
  BY <1>1, <1>2 DEF RR!OneAtATime
<1>4. count \in Nat /\ survivors \in Nat /\ before \in 0..req_count BY <1>1 DEF RR!TypeOK
<1> QED BY <1>1, <1>3, <1>4, UnderWayIs

LEMMA RRStarts == RR!Init => RRInv
<1> SUFFICES ASSUME RR!Init PROVE RRInv OBVIOUS
<1>1. /\ waiting = FALSE /\ req_count = 0 /\ packets = <<>> /\ processing = {}
      /\ count = 0 /\ resets = 0 /\ before = 0 /\ survivors = 0
  BY DEF RR!Init
<1>2. RR!TypeOK
  <2>1. packets \in Seq([kind : {"request", "response"}, id : 1..req_count]) BY <1>1, EmptySeq
  <2>2. waiting \in BOOLEAN /\ processing \subseteq 1..req_count BY <1>1
  <2>3. /\ req_count \in 0..MaxRequests /\ count \in Nat
        /\ resets \in 0..MaxResets /\ before \in 0..req_count /\ survivors \in Nat
    BY <1>1, Bounds
  <2> QED BY <2>1, <2>2, <2>3 DEF RR!TypeOK
<1>3. InOnePlace BY <1>1 DEF InOnePlace, Apart
<1>4. RR!OneAtATime
  <2>1. RR!UnderWay = {} BY <1>1 DEF RR!UnderWay
  <2>2. RR!Cardinality(RR!UnderWay) = 0 BY <2>1, FS_EmptySet, RRCardinality
  <2> QED BY <1>1, <2>2 DEF RR!OneAtATime
<1> QED BY <1>2, <1>3, <1>4 DEF RRInv

LEMMA SendRequestKeeps == ASSUME RRInv, RR!SendRequest PROVE RRInv'
<1> DEFINE m == [kind |-> "request", id |-> req_count + 1]
           K == RRPacket(req_count + 1)
<1>1. /\ RR!TypeOK /\ ~waiting /\ req_count < MaxRequests /\ waiting' = TRUE
      /\ req_count' = req_count + 1 /\ packets' = Append(packets, m)
      /\ processing' = processing /\ count' = count
      /\ resets' = resets /\ before' = before /\ survivors' = survivors
  BY DEF RRInv, RR!SendRequest, RR!historyVars
<1>2. /\ req_count \in Nat /\ packets \in Seq(K) /\ m \in K /\ m.id = req_count + 1
  <2>1. req_count \in Nat BY <1>1, UnderWayIs
  <2>2. RRPacket(req_count) \subseteq K BY <2>1 DEF RRPacket
  <2>3. packets \in Seq(K) BY <1>1, <2>2, UnderWayIs, SeqGrows
  <2> QED BY <2>1, <2>3 DEF RRPacket
<1> HIDE DEF m, K
<1>3. RR!TypeOK'
  <2>1. packets' \in Seq(K) BY <1>1, <1>2, AppendIs
  <2>2. packets' \in Seq([kind : {"request", "response"}, id : 1..req_count'])
    BY <1>1, <2>1 DEF K, RRPacket
  <2>3. processing' \subseteq 1..req_count' BY <1>1, <1>2 DEF RR!TypeOK
  <2>4. req_count' \in 0..MaxRequests /\ before' \in 0..req_count'
    BY <1>1, <1>2, Bounds DEF RR!TypeOK
  <2> QED BY <1>1, <2>2, <2>3, <2>4 DEF RR!TypeOK
<1>4. req_count + 1 \notin RR!UnderWay BY <1>1, <1>2, UnderWayIs
<1>5. Ids(packets') = Ids(packets) \cup {req_count + 1} /\ InOnePlace'
  <2>1. req_count + 1 \notin Ids(packets) /\ req_count + 1 \notin processing
    BY <1>1, <1>4, UnderWayIs
  <2>2. Ids(packets') = Ids(packets) \cup {req_count + 1} /\ Apart(packets')
    BY <1>1, <1>2, <2>1, IdsAppended DEF RRInv, InOnePlace
  <2> QED BY <1>1, <2>1, <2>2 DEF RRInv, InOnePlace, Apart, Ids
<1>6. Cardinality(RR!UnderWay') = Cardinality(RR!UnderWay) + 1
  <2>1. RR!UnderWay' = Ids(packets') \cup processing' BY DEF RR!UnderWay, Ids
  <2>2. RR!UnderWay' = RR!UnderWay \cup {req_count + 1} BY <1>1, <1>5, <2>1, UnderWayIs
  <2> QED BY <1>1, <1>4, <2>2, UnderWayIs, FS_AddElement
<1>7. RR!OneAtATime'
  <2>1. RR!Cardinality(RR!UnderWay') = Cardinality(RR!UnderWay') BY RRCardinality
  <2> QED BY <1>1, <1>6, <2>1, RRCounts DEF RR!OneAtATime
<1> QED BY <1>3, <1>5, <1>7 DEF RRInv

LEMMA ServerReceiveKeeps == ASSUME RRInv, RR!ServerReceive PROVE RRInv'
<1> DEFINE h == Head(packets)
<1>1. /\ RR!TypeOK /\ packets # <<>> /\ packets' = Tail(packets)
      /\ processing' = processing \cup {h.id}
      /\ waiting' = waiting /\ req_count' = req_count /\ count' = count
      /\ resets' = resets /\ before' = before /\ survivors' = survivors
  BY DEF RRInv, RR!ServerReceive, RR!Arrives, RR!historyVars
<1>2. /\ packets' \in Seq(RRPacket(req_count)) /\ Ids(packets) = Ids(packets') \cup {h.id}
      /\ h.id \notin Ids(packets') /\ Apart(packets')
  BY <1>1, UnderWayIs, TailIs, IdsDropped DEF RRInv, InOnePlace
<1> HIDE DEF h
<1>3. RR!UnderWay' = RR!UnderWay
  BY <1>1, <1>2, UnderWayIs DEF RR!UnderWay, Ids
<1>4. RR!TypeOK'
  <2>1. h.id \in 1..req_count BY <1>1, <1>2, UnderWayIs
  <2>2. packets' \in Seq([kind : {"request", "response"}, id : 1..req_count'])
    BY <1>1, <1>2 DEF RRPacket
  <2> QED BY <1>1, <2>1, <2>2 DEF RR!TypeOK
<1>5. InOnePlace' BY <1>1, <1>2 DEF RRInv, InOnePlace, Apart, Ids
<1>6. RR!OneAtATime' BY <1>1, <1>3 DEF RRInv, RR!OneAtATime
<1> QED BY <1>4, <1>5, <1>6 DEF RRInv

LEMMA ServerRespondKeeps ==
  ASSUME RRInv, NEW i \in processing, RR!ServerRespond(i)
  PROVE  RRInv'
<1> DEFINE m == [kind |-> "response", id |-> i]
<1>1. /\ RR!TypeOK /\ packets' = Append(packets, m) /\ processing' = processing \ {i}
      /\ waiting' = waiting /\ req_count' = req_count /\ count' = count
      /\ resets' = resets /\ before' = before /\ survivors' = survivors
  BY DEF RRInv, RR!ServerRespond, RR!historyVars
<1>2. i \in 1..req_count /\ i \notin Ids(packets)
  BY <1>1 DEF RR!TypeOK, RRInv, InOnePlace
<1>3. m \in RRPacket(req_count) /\ m.id = i BY <1>2 DEF RRPacket
<1> HIDE DEF m
<1>4. /\ packets' \in Seq(RRPacket(req_count)) /\ Ids(packets') = Ids(packets) \cup {i}
      /\ Apart(packets')
  BY <1>1, <1>2, <1>3, UnderWayIs, AppendIs, IdsAppended DEF RRInv, InOnePlace
<1>5. RR!UnderWay' = RR!UnderWay
  <2>1. RR!UnderWay' = Ids(packets') \cup processing' BY DEF RR!UnderWay, Ids
  <2> QED BY <1>1, <1>4, <2>1, UnderWayIs
<1>6. RR!TypeOK'
  <2>1. packets' \in Seq([kind : {"request", "response"}, id : 1..req_count'])
    BY <1>1, <1>4 DEF RRPacket
  <2> QED BY <1>1, <2>1 DEF RR!TypeOK
<1>7. InOnePlace' BY <1>1, <1>2, <1>4 DEF RRInv, InOnePlace, Apart, Ids
<1>8. RR!OneAtATime' BY <1>1, <1>5 DEF RRInv, RR!OneAtATime
<1> QED BY <1>6, <1>7, <1>8 DEF RRInv

LEMMA ClientReceiveKeeps == ASSUME RRInv, RR!ClientReceive PROVE RRInv'
<1> DEFINE h == Head(packets)
<1>1. /\ RR!TypeOK /\ packets # <<>> /\ packets' = Tail(packets)
      /\ processing' = processing /\ waiting' = FALSE /\ req_count' = req_count
      /\ count' = count + 1
      /\ resets' = resets /\ before' = before /\ survivors' = survivors
  BY DEF RRInv, RR!ClientReceive, RR!Arrives, RR!historyVars
<1>2. /\ packets' \in Seq(RRPacket(req_count)) /\ Ids(packets) = Ids(packets') \cup {h.id}
      /\ h.id \notin Ids(packets') /\ Apart(packets')
  BY <1>1, UnderWayIs, TailIs, IdsDropped DEF RRInv, InOnePlace
<1> HIDE DEF h
<1>3. /\ RR!UnderWay' = RR!UnderWay \ {h.id} /\ h.id \in RR!UnderWay
  <2>1. RR!UnderWay' = Ids(packets') \cup processing' BY DEF RR!UnderWay, Ids
  <2>2. h.id \notin processing BY <1>2 DEF RRInv, InOnePlace
  <2> QED BY <1>1, <1>2, <2>1, <2>2, UnderWayIs
<1>4. RR!TypeOK'
  <2>1. packets' \in Seq([kind : {"request", "response"}, id : 1..req_count'])
    BY <1>1, <1>2 DEF RRPacket
  <2>2. count' \in Nat BY <1>1 DEF RR!TypeOK
  <2> QED BY <1>1, <2>1, <2>2 DEF RR!TypeOK
<1>5. InOnePlace' BY <1>1, <1>2 DEF RRInv, InOnePlace, Apart, Ids
<1>6. RR!OneAtATime'
  <2>1. RR!Cardinality(RR!UnderWay') = Cardinality(RR!UnderWay') BY RRCardinality
  <2>2. Cardinality(RR!UnderWay') = Cardinality(RR!UnderWay) - 1
    BY <1>1, <1>3, UnderWayIs, FS_RemoveElement
  <2> QED BY <1>1, <2>1, <2>2, RRCounts DEF RR!OneAtATime
<1> QED BY <1>4, <1>5, <1>6 DEF RRInv

LEMMA RRResetKeeps == ASSUME RRInv, RR!Reset PROVE RRInv'
<1>1. /\ RR!TypeOK /\ packets' = <<>> /\ processing' = processing /\ waiting' = FALSE
      /\ req_count' = req_count /\ count' = 0 /\ before' = req_count
      /\ resets < MaxResets /\ resets' = resets + 1
      /\ survivors' = RR!Cardinality(processing)
  BY DEF RRInv, RR!Reset
<1>2. DOMAIN packets' = {} BY <1>1
<1>3. IsFiniteSet(processing) /\ Cardinality(processing) \in Nat
  <2>1. processing \subseteq RR!UnderWay BY <1>1, UnderWayIs
  <2> QED BY <1>1, <2>1, UnderWayIs, FS_Subset, FS_CardinalityType
<1>4. survivors' = Cardinality(processing) BY <1>1, RRCardinality
<1>5. RR!TypeOK'
  <2>1. packets' \in Seq([kind : {"request", "response"}, id : 1..req_count'])
    BY <1>1, EmptySeq
  <2>2. resets' \in 0..MaxResets /\ before' \in 0..req_count'
    BY <1>1, Bounds, UnderWayIs DEF RR!TypeOK
  <2> QED BY <1>1, <1>3, <1>4, <2>1, <2>2 DEF RR!TypeOK
<1>6. InOnePlace' BY <1>2 DEF InOnePlace, Apart, Ids
<1>7. RR!OneAtATime'
  <2>1. RR!UnderWay' = processing BY <1>1, <1>2 DEF RR!UnderWay
  <2>2. RR!Cardinality(RR!UnderWay') = Cardinality(processing) BY <2>1, RRCardinality
  <2> QED BY <1>1, <1>3, <1>4, <2>2, UnderWayIs DEF RR!OneAtATime
<1> QED BY <1>5, <1>6, <1>7 DEF RRInv

LEMMA RRUnchanged == ASSUME RRInv, UNCHANGED rrVars PROVE RRInv'
  BY DEF RRInv, rrVars, RR!TypeOK, RR!OneAtATime, RR!UnderWay, InOnePlace, Apart, Ids

LEMMA RRKeeps == RRInv /\ RR!Next => RRInv'
  BY SendRequestKeeps, ServerReceiveKeeps, ServerRespondKeeps, ClientReceiveKeeps, RRResetKeeps
     DEF RR!Next, RR!Arrive

-----------------------------------------------------------------------------
(***************************************************************************)
(* PubSubTab.                                                              *)
(***************************************************************************)

Rising(q) == \A j, k \in DOMAIN q : j < k => q[j] < q[k]

(* Packets to one place keep the order of publication, and what is on its  *)
(* way to a subscriber was published before what has not been to the       *)
(* broker.                                                                 *)
PacketsInOrder ==
  \A j, k \in DOMAIN psPackets :
    \/ psPackets[j].sub = psPackets[k].sub /\ j < k
    \/ psPackets[j].sub # PS!Broker /\ psPackets[k].sub = PS!Broker
    => psPackets[j].pub < psPackets[k].pub

(* The timers of a subscriber come after the packets to it and before the  *)
(* ones to the broker.                                                     *)
TimersInOrder ==
  \A t \in timers : \A k \in DOMAIN psPackets :
    /\ psPackets[k].sub = t.sub => psPackets[k].pub < t.pub
    /\ psPackets[k].sub = PS!Broker => t.pub < psPackets[k].pub

(* What a subscriber received comes before all of them. *)
ReceivedInOrder ==
  \A i \in DOMAIN PS!SUBS :
    /\ Rising(received[i])
    /\ \A j \in DOMAIN received[i] :
         /\ \A t \in timers : t.sub = i => received[i][j] < t.pub
         /\ \A k \in DOMAIN psPackets :
              psPackets[k].sub \in {i, PS!Broker} => received[i][j] < psPackets[k].pub

(* How many of the subscribers of any of its topics stand before i. *)
Place(i) == IF i <= 2 THEN 0 ELSE 1

(* Only subscribers are notified, and each after those before it.          *)
Addressed ==
  /\ \A t \in timers : published[t.pub] \in PS!SUBS[t.sub] /\ t.slot = Place(t.sub)
  /\ \A k \in DOMAIN psPackets :
       psPackets[k].sub # PS!Broker => published[psPackets[k].pub] \in PS!SUBS[psPackets[k].sub]
  /\ \A i \in DOMAIN PS!SUBS : \A j \in DOMAIN received[i] :
       published[received[i][j]] \in PS!SUBS[i]

Due(p, i) == \E t \in timers : t.pub = p /\ t.sub = i
OnItsWay(p, i) == \E k \in DOMAIN psPackets : psPackets[k].pub = p /\ psPackets[k].sub = i
Received(p, i) == \E j \in DOMAIN received[i] : received[i][j] = p

(* No notification has been lost since the last reset. *)
NoneLost ==
  \A p \in DOMAIN published : \A i \in DOMAIN PS!SUBS :
    p > psBefore /\ published[p] \in PS!SUBS[i] =>
      OnItsWay(p, PS!Broker) \/ Due(p, i) \/ OnItsWay(p, i) \/ Received(p, i)

PSInv ==
  /\ PS!TypeOK /\ DOMAIN received = DOMAIN PS!SUBS
  /\ PacketsInOrder /\ TimersInOrder /\ ReceivedInOrder
  /\ Addressed /\ NoneLost

-----------------------------------------------------------------------------
(* The subscribers, and what the types say.                                *)

LEMMA SubsAre ==
  /\ DOMAIN PS!SUBS = 1..4 /\ PS!Broker = 0
  /\ PS!SUBS[1] = {"cuaca", "berita"} /\ PS!SUBS[2] = {"saham", "olahraga"}
  /\ PS!SUBS[3] = {"cuaca", "saham"} /\ PS!SUBS[4] = {"berita"}
  BY DEF PS!SUBS, PS!Broker

LEMMA PSCardinality == \A S : PS!Cardinality(S) = Cardinality(S)
  BY DEF PS!Cardinality, Cardinality

LEMMA SlotIs ==
  ASSUME NEW p, NEW i \in PS!Subscribers(p)
  PROVE  PS!Slot(p, i) = Place(i) /\ i \in 1..4 /\ Place(i) \in 0..4
<1> DEFINE B == {j \in PS!Subscribers(p) : j < i}
<1>1. i \in 1..4 /\ published[p] \in PS!SUBS[i] BY SubsAre DEF PS!Subscribers
<1>2. \A j : j \in B <=> j \in 1..4 /\ j < i /\ published[p] \in PS!SUBS[j]
  BY SubsAre DEF PS!Subscribers
<1>3. PS!Slot(p, i) = Cardinality(B) BY PSCardinality DEF PS!Slot
<1> HIDE DEF B
<1>4. CASE i = 1 \/ i = 2
  <2>1. \A j : j \notin B
    <3> SUFFICES ASSUME NEW j \in B PROVE FALSE OBVIOUS
    <3>1. i = 2 /\ j = 1 BY <1>2, <1>4
    <3>2. published[p] \in PS!SUBS[1] /\ published[p] \in PS!SUBS[2] BY <1>1, <1>2, <3>1
    <3> QED BY <3>2, SubsAre
  <2>2. B = {} BY <2>1
  <2> QED BY <1>1, <1>3, <1>4, <2>2, FS_EmptySet DEF Place
<1>5. CASE i = 3 \/ i = 4
  <2>1. \E b : B = {b}
    <3>1. CASE i = 3 /\ published[p] = "cuaca"
      <4>1. 1 \in B BY <1>2, <3>1, SubsAre
      <4>2. \A j \in B : j = 1
        <5> SUFFICES ASSUME NEW j \in B, j # 1 PROVE FALSE OBVIOUS
        <5>1. j = 2 BY <1>2, <3>1
        <5>2. "cuaca" \in PS!SUBS[2] BY <1>2, <3>1, <5>1
        <5> QED BY <5>2, SubsAre
      <4> QED BY <4>1, <4>2
    <3>2. CASE i = 3 /\ published[p] = "saham"
      <4>1. 2 \in B BY <1>2, <3>2, SubsAre
      <4>2. \A j \in B : j = 2
        <5> SUFFICES ASSUME NEW j \in B, j # 2 PROVE FALSE OBVIOUS
        <5>1. j = 1 BY <1>2, <3>2
        <5>2. "saham" \in PS!SUBS[1] BY <1>2, <3>2, <5>1
        <5> QED BY <5>2, SubsAre
      <4> QED BY <4>1, <4>2
    <3>3. CASE i = 4 /\ published[p] = "berita"
      <4>1. 1 \in B BY <1>2, <3>3, SubsAre
      <4>2. \A j \in B : j = 1
        <5> SUFFICES ASSUME NEW j \in B, j # 1 PROVE FALSE OBVIOUS
        <5>1. j = 2 \/ j = 3 BY <1>2, <3>3
        <5>2. "berita" \in PS!SUBS[2] \/ "berita" \in PS!SUBS[3] BY <1>2, <3>3, <5>1
        <5> QED BY <5>2, SubsAre
      <4> QED BY <4>1, <4>2
    <3> QED BY <1>1, <1>5, <3>1, <3>2, <3>3, SubsAre
  <2>2. PICK b : B = {b} BY <2>1
  <2>3. Cardinality(B) = 1 BY <2>2, FS_Singleton
  <2> QED BY <1>1, <1>3, <1>5, <2>3 DEF Place
<1> QED BY <1>1, <1>4, <1>5

PSPacket(n) == [pub : 1..n, sub : 0..4]
PSTimer(n) == [pub : 1..n, sub : 1..4, slot : 0..4]

PSType ==
  /\ published \in Seq(Topics) /\ Len(published) <= MaxPubs
  /\ psPackets \in Seq(PSPacket(Len(published)))
  /\ timers \subseteq PSTimer(Len(published))
  /\ \A i \in 1..4 : received[i] \in Seq(1..Len(published))
  /\ notif_count \in Nat
  /\ psResets \in 0..MaxResets /\ psBefore \in 0..Len(published)

LEMMA PSTypeIs == (PS!TypeOK <=> PSType) /\ (PS!TypeOK' <=> PSType')
<1>1. Len(PS!SUBS) = 4 /\ {PS!Broker} \cup DOMAIN PS!SUBS = 0..4 /\ DOMAIN PS!SUBS = 1..4
  <2>1. Len(PS!SUBS) = 4 BY DEF PS!SUBS
  <2> QED BY <2>1, SubsAre
<1> QED BY <1>1 DEF PS!TypeOK, PSType, PSPacket, PSTimer

LEMMA PSTyped ==
  ASSUME PS!TypeOK
  PROVE  /\ Len(published) \in Nat /\ DOMAIN published = 1..Len(published)
         /\ \A k \in DOMAIN psPackets :
              psPackets[k].pub \in 1..Len(published) /\ psPackets[k].sub \in 0..4
         /\ \A t \in timers : /\ t.pub \in 1..Len(published) /\ t.sub \in 1..4
                              /\ t = [pub |-> t.pub, sub |-> t.sub, slot |-> t.slot]
         /\ \A i \in 1..4 : \A j \in DOMAIN received[i] : received[i][j] \in 1..Len(published)
<1>1. published \in Seq(Topics) /\ timers \subseteq PSTimer(Len(published)) BY PSTypeIs DEF PSType
<1>2. Len(published) \in Nat /\ DOMAIN published = 1..Len(published) BY <1>1, LenProperties
<1>3. \A k \in DOMAIN psPackets : psPackets[k] \in PSPacket(Len(published))
  BY PSTypeIs, ElementOfSeq, LenProperties DEF PSType
<1>4. \A k \in DOMAIN psPackets :
        psPackets[k].pub \in 1..Len(published) /\ psPackets[k].sub \in 0..4
  BY <1>3 DEF PSPacket
<1>5. \A t \in timers : /\ t.pub \in 1..Len(published) /\ t.sub \in 1..4
                        /\ t = [pub |-> t.pub, sub |-> t.sub, slot |-> t.slot]
  BY <1>1 DEF PSTimer
<1>6. ASSUME NEW i \in 1..4, NEW j \in DOMAIN received[i]
      PROVE  received[i][j] \in 1..Len(published)
  <2>1. received[i] \in Seq(1..Len(published)) BY PSTypeIs DEF PSType
  <2> QED BY <2>1, ElementOfSeq, LenProperties
<1> QED BY <1>2, <1>4, <1>5, <1>6

-----------------------------------------------------------------------------
(* The steps.                                                              *)

LEMMA PSStarts == PS!Init => PSInv
<1> SUFFICES ASSUME PS!Init PROVE PSInv OBVIOUS
<1>1. /\ published = <<>> /\ psPackets = <<>> /\ timers = {} /\ notif_count = 0
      /\ received = [i \in 1..4 |-> <<>>] /\ psResets = 0 /\ psBefore = 0
  BY SubsAre DEF PS!Init
<1>2. /\ DOMAIN psPackets = {} /\ DOMAIN published = {} /\ Len(published) = 0
      /\ \A i \in 1..4 : received[i] = <<>> /\ DOMAIN received[i] = {}
  BY <1>1
<1>3. PS!TypeOK
  <2>1. published \in Seq(Topics) BY <1>1, EmptySeq
  <2>2. psPackets \in Seq(PSPacket(Len(published))) BY <1>1, EmptySeq
  <2>3. \A i \in 1..4 : received[i] \in Seq(1..Len(published)) BY <1>2, EmptySeq
  <2>4. /\ Len(published) <= MaxPubs /\ notif_count \in Nat
        /\ psResets \in 0..MaxResets /\ psBefore \in 0..Len(published)
    BY <1>1, <1>2, Bounds
  <2>5. timers \subseteq PSTimer(Len(published)) BY <1>1
  <2> QED BY <2>1, <2>2, <2>3, <2>4, <2>5, PSTypeIs DEF PSType
<1>4. DOMAIN received = DOMAIN PS!SUBS BY <1>1, SubsAre
<1>5. PacketsInOrder /\ TimersInOrder /\ ReceivedInOrder /\ Addressed /\ NoneLost
  BY <1>1, <1>2, SubsAre
     DEF PacketsInOrder, TimersInOrder, ReceivedInOrder, Rising, Addressed, NoneLost
<1> QED BY <1>3, <1>4, <1>5 DEF PSInv

LEMMA PublishKeeps ==
  ASSUME PSInv, NEW topic \in Topics, PS!Publish(topic)
  PROVE  PSInv'
<1> DEFINE L == Len(published)
           m == [pub |-> L + 1, sub |-> PS!Broker]
<1>1. /\ PS!TypeOK /\ L < MaxPubs /\ published' = Append(published, topic)
      /\ psPackets' = Append(psPackets, m)
      /\ timers' = timers /\ notif_count' = notif_count /\ received' = received
      /\ psResets' = psResets /\ psBefore' = psBefore
  BY DEF PSInv, PS!Publish
<1>2. /\ L \in Nat /\ L = Len(published) /\ m.pub = L + 1 /\ m.sub = 0 /\ m \in PSPacket(L + 1)
  BY <1>1, PSTyped, SubsAre DEF PSPacket
<1>3. /\ published' \in Seq(Topics) /\ Len(published') = L + 1
      /\ DOMAIN published = 1..L /\ DOMAIN published' = 1..(L + 1)
      /\ \A p \in 1..L : published'[p] = published[p]
  BY <1>1, PSTypeIs, AppendIs DEF PSType
<1>4. psPackets \in Seq(PSPacket(L + 1))
  <2>1. PSPacket(L) \subseteq PSPacket(L + 1) BY <1>2 DEF PSPacket
  <2> QED BY <1>1, <2>1, PSTypeIs, SeqGrows DEF PSType
<1> DEFINE n == Len(psPackets)
<1> HIDE DEF m
<1>5. /\ psPackets' \in Seq(PSPacket(L + 1)) /\ n \in Nat
      /\ DOMAIN psPackets = 1..n /\ DOMAIN psPackets' = 1..(n + 1)
      /\ psPackets'[n + 1] = m /\ \A k \in 1..n : psPackets'[k] = psPackets[k]
  BY <1>1, <1>2, <1>4, AppendIs
<1> HIDE DEF n
<1>6. \A k \in DOMAIN psPackets' : k \in DOMAIN psPackets \/ k = n + 1 BY <1>5
<1>7. /\ \A k \in DOMAIN psPackets : psPackets[k].pub \in 1..L /\ psPackets[k].sub \in 0..4
      /\ \A t \in timers : t.pub \in 1..L /\ t.sub \in 1..4
      /\ \A i \in 1..4 : \A j \in DOMAIN received[i] : received[i][j] \in 1..L
  BY <1>1, PSTyped
<1> HIDE DEF L
<1>8. PS!TypeOK'
  <2>1. PSTimer(L) \subseteq PSTimer(L + 1) BY <1>2 DEF PSTimer
  <2>2. timers' \subseteq PSTimer(Len(published)') BY <1>1, <1>3, <2>1, PSTypeIs DEF PSType, L
  <2>3. ASSUME NEW i \in 1..4 PROVE received'[i] \in Seq(1..(L + 1))
    <3>1. received[i] \in Seq(1..L) /\ 1..L \subseteq 1..(L + 1) BY <1>1, <1>2, PSTypeIs DEF PSType, L
    <3> QED BY <1>1, <3>1, SeqGrows
  <2>4. Len(published') <= MaxPubs /\ psBefore' \in 0..Len(published')
    <3>1. psBefore \in 0..L BY <1>1, PSTypeIs DEF PSType, L
    <3> QED BY <1>1, <1>2, <1>3, <3>1, Bounds
  <2>5. notif_count' \in Nat /\ psResets' \in 0..MaxResets
    BY <1>1, PSTypeIs DEF PSType
  <2>6. psPackets' \in Seq(PSPacket(Len(published')))  BY <1>3, <1>5
  <2> QED BY <1>1, <1>3, <2>2, <2>3, <2>4, <2>5, <2>6, PSTypeIs DEF PSType
<1>9. PacketsInOrder'
  <2> SUFFICES ASSUME NEW j \in DOMAIN psPackets', NEW k \in DOMAIN psPackets',
                      \/ psPackets'[j].sub = psPackets'[k].sub /\ j < k
                      \/ psPackets'[j].sub # 0 /\ psPackets'[k].sub = 0
               PROVE  psPackets'[j].pub < psPackets'[k].pub
    BY SubsAre DEF PacketsInOrder
  <2>1. j \in DOMAIN psPackets
    <3>1. j # n + 1 BY <1>2, <1>5
    <3> QED BY <1>6, <3>1
  <2>2. CASE k = n + 1 BY <1>2, <1>5, <1>7, <2>1, <2>2
  <2>3. CASE k \in DOMAIN psPackets BY <1>5, <2>1, <2>3, SubsAre DEF PSInv, PacketsInOrder
  <2> QED BY <1>6, <2>2, <2>3
<1>10. TimersInOrder'
  <2> SUFFICES ASSUME NEW t \in timers, NEW k \in DOMAIN psPackets'
               PROVE  /\ psPackets'[k].sub = t.sub => psPackets'[k].pub < t.pub
                      /\ psPackets'[k].sub = 0 => t.pub < psPackets'[k].pub
    BY <1>1, SubsAre DEF TimersInOrder
  <2>1. CASE k = n + 1 BY <1>2, <1>5, <1>7, <2>1
  <2>2. CASE k \in DOMAIN psPackets BY <1>5, <2>2, SubsAre DEF PSInv, TimersInOrder
  <2> QED BY <1>6, <2>1, <2>2
<1>11. ReceivedInOrder'
  <2>1. ReceivedInOrder BY DEF PSInv
  <2>2. ASSUME NEW i \in 1..4, NEW j \in DOMAIN received[i], NEW k \in DOMAIN psPackets',
               psPackets'[k].sub \in {i, PS!Broker}
        PROVE  received[i][j] < psPackets'[k].pub
    <3>1. CASE k = n + 1 BY <1>2, <1>5, <1>7, <2>2, <3>1
    <3>2. CASE k \in DOMAIN psPackets
      BY <1>5, <2>1, <2>2, <3>2, SubsAre DEF ReceivedInOrder
    <3> QED BY <1>6, <3>1, <3>2
  <2> QED BY <1>1, <2>1, <2>2, SubsAre DEF ReceivedInOrder
<1>12. Addressed'
  <2>1. Addressed BY DEF PSInv
  <2>2. ASSUME NEW t \in timers
        PROVE  published'[t.pub] \in PS!SUBS[t.sub] /\ t.slot = Place(t.sub)
    BY <1>3, <1>7, <2>1 DEF Addressed
  <2>3. ASSUME NEW k \in DOMAIN psPackets', psPackets'[k].sub # PS!Broker
        PROVE  published'[psPackets'[k].pub] \in PS!SUBS[psPackets'[k].sub]
    <3>1. k \in DOMAIN psPackets BY <1>2, <1>5, <1>6, <2>3, SubsAre
    <3> QED BY <1>3, <1>5, <1>7, <2>1, <2>3, <3>1 DEF Addressed
  <2>4. ASSUME NEW i \in DOMAIN PS!SUBS, NEW j \in DOMAIN received[i]
        PROVE  published'[received[i][j]] \in PS!SUBS[i]
    BY <1>3, <1>7, <2>1, SubsAre DEF Addressed
  <2> QED BY <1>1, <2>2, <2>3, <2>4 DEF Addressed
<1>13. NoneLost'
  <2> SUFFICES ASSUME NEW p \in DOMAIN published', NEW i \in DOMAIN PS!SUBS, p > psBefore,
                      published'[p] \in PS!SUBS[i]
               PROVE  OnItsWay(p, PS!Broker)' \/ Due(p, i)' \/ OnItsWay(p, i)' \/ Received(p, i)'
    BY <1>1 DEF NoneLost
  <2>1. CASE p = L + 1 BY <1>2, <1>5, <2>1, SubsAre DEF OnItsWay
  <2>2. CASE p \in 1..L
    <3>1. OnItsWay(p, PS!Broker) \/ Due(p, i) \/ OnItsWay(p, i) \/ Received(p, i)
      BY <1>3, <2>2 DEF PSInv, NoneLost
    <3>2. \A x : OnItsWay(p, x) => OnItsWay(p, x)' BY <1>5 DEF OnItsWay
    <3> QED BY <1>1, <3>1, <3>2 DEF Due, Received
  <2> QED BY <1>2, <1>3, <2>1, <2>2
<1> QED BY <1>1, <1>8, <1>9, <1>10, <1>11, <1>12, <1>13 DEF PSInv

(* The packets when the first one has arrived. *)
LEMMA PSDropped ==
  ASSUME PSInv, psPackets # <<>>, psPackets' = Tail(psPackets)
  PROVE  /\ psPackets' \in Seq(PSPacket(Len(published)))
         /\ 1 \in DOMAIN psPackets /\ Head(psPackets) = psPackets[1]
         /\ \A k \in DOMAIN psPackets' :
              k + 1 \in DOMAIN psPackets /\ psPackets'[k] = psPackets[k + 1] /\ k \in Nat /\ 0 < k
         /\ \A k \in DOMAIN psPackets :
              k = 1 \/ (k - 1 \in DOMAIN psPackets' /\ psPackets[k] = psPackets'[k - 1])
         /\ PacketsInOrder'
<1>1. psPackets \in Seq(PSPacket(Len(published))) BY PSTypeIs DEF PSInv, PSType
<1>2. /\ psPackets' \in Seq(PSPacket(Len(published))) /\ Head(psPackets) = psPackets[1]
      /\ DOMAIN psPackets = 1..Len(psPackets) /\ Len(psPackets) \in Nat /\ Len(psPackets) # 0
      /\ DOMAIN psPackets' = 1..Len(psPackets') /\ Len(psPackets') = Len(psPackets) - 1
      /\ \A k \in DOMAIN psPackets' :
              k + 1 \in DOMAIN psPackets /\ psPackets'[k] = psPackets[k + 1]
      /\ \A k \in DOMAIN psPackets :
              k = 1 \/ (k - 1 \in DOMAIN psPackets' /\ psPackets[k] = psPackets'[k - 1])
  BY <1>1, TailIs
<1>3. /\ 1 \in DOMAIN psPackets /\ \A k \in DOMAIN psPackets' : k \in Nat /\ 0 < k BY <1>2
<1>4. PacketsInOrder'
  <2> SUFFICES ASSUME NEW j \in DOMAIN psPackets', NEW k \in DOMAIN psPackets',
                      \/ psPackets'[j].sub = psPackets'[k].sub /\ j < k
                      \/ psPackets'[j].sub # PS!Broker /\ psPackets'[k].sub = PS!Broker
               PROVE  psPackets'[j].pub < psPackets'[k].pub
    BY DEF PacketsInOrder
  <2>1. /\ j + 1 \in DOMAIN psPackets /\ k + 1 \in DOMAIN psPackets /\ (j < k => j + 1 < k + 1)
        /\ psPackets'[j] = psPackets[j + 1] /\ psPackets'[k] = psPackets[k + 1]
    BY <1>2, <1>3
  <2> QED BY <2>1 DEF PSInv, PacketsInOrder
<1> QED BY <1>2, <1>3, <1>4

LEMMA BrokerReceiveKeeps == ASSUME PSInv, PS!BrokerReceive PROVE PSInv'
<1> DEFINE p == psPackets[1].pub
           L == Len(published)
<1>1. /\ psPackets # <<>> /\ psPackets' = Tail(psPackets)
      /\ Head(psPackets).sub = PS!Broker
      /\ timers' = timers \cup {[pub |-> Head(psPackets).pub, sub |-> i,
                                 slot |-> PS!Slot(Head(psPackets).pub, i)]
                                  : i \in PS!Subscribers(Head(psPackets).pub)}
      /\ published' = published /\ notif_count' = notif_count /\ received' = received
      /\ psResets' = psResets /\ psBefore' = psBefore
  BY DEF PS!BrokerReceive
<1>2. /\ psPackets' \in Seq(PSPacket(L)) /\ 1 \in DOMAIN psPackets
      /\ \A k \in DOMAIN psPackets' :
           k + 1 \in DOMAIN psPackets /\ psPackets'[k] = psPackets[k + 1] /\ 1 < k + 1
      /\ \A k \in DOMAIN psPackets :
           k = 1 \/ (k - 1 \in DOMAIN psPackets' /\ psPackets[k] = psPackets'[k - 1])
      /\ PacketsInOrder'
  BY <1>1, PSDropped
<1>3. /\ psPackets[1].sub = 0 /\ psPackets[1].sub = PS!Broker /\ PS!TypeOK
      /\ timers' = timers \cup {[pub |-> p, sub |-> i, slot |-> PS!Slot(p, i)]
                                  : i \in PS!Subscribers(p)}
  BY <1>1, PSDropped, SubsAre DEF PSInv
<1>4. p \in 1..L /\ L \in Nat BY <1>2, <1>3, PSTyped
<1> HIDE DEF p, L
<1>5. \A i \in PS!Subscribers(p) : /\ i \in 1..4 /\ published[p] \in PS!SUBS[i]
                                   /\ PS!Slot(p, i) = Place(i) /\ Place(i) \in 0..4
  BY SlotIs DEF PS!Subscribers
<1>6. \A t \in timers' : \/ t \in timers
                         \/ /\ t.pub = p /\ t.sub \in 1..4 /\ published[p] \in PS!SUBS[t.sub]
                            /\ t.slot = Place(t.sub) /\ t \in PSTimer(L)
  <2> SUFFICES ASSUME NEW i \in PS!Subscribers(p), NEW t, 
                      t = [pub |-> p, sub |-> i, slot |-> PS!Slot(p, i)]
               PROVE  /\ t.pub = p /\ t.sub \in 1..4 /\ published[p] \in PS!SUBS[t.sub]
                      /\ t.slot = Place(t.sub) /\ t \in PSTimer(L)
    BY <1>3
  <2> QED BY <1>4, <1>5 DEF PSTimer
<1>7. PS!TypeOK'
  <2>1. timers' \subseteq PSTimer(L) BY <1>3, <1>6, PSTypeIs DEF PSType, L
  <2> QED BY <1>1, <1>2, <1>3, <2>1, PSTypeIs DEF PSType, L
<1>8. TimersInOrder'
  <2> SUFFICES ASSUME NEW t \in timers', NEW k \in DOMAIN psPackets'
               PROVE  /\ psPackets'[k].sub = t.sub => psPackets'[k].pub < t.pub
                      /\ psPackets'[k].sub = 0 => t.pub < psPackets'[k].pub
    BY SubsAre DEF TimersInOrder
  <2>1. k + 1 \in DOMAIN psPackets /\ psPackets'[k] = psPackets[k + 1] /\ 1 < k + 1 BY <1>2
  <2>2. CASE t \in timers BY <2>1, <2>2, SubsAre DEF PSInv, TimersInOrder
  <2>3. CASE t.pub = p /\ t.sub \in 1..4
    <3>1. PacketsInOrder BY DEF PSInv
    <3>2. psPackets[k + 1].sub = t.sub => psPackets[k + 1].pub < p
      BY <1>2, <1>3, <2>1, <2>3, <3>1, SubsAre DEF PacketsInOrder, p
    <3>3. psPackets[k + 1].sub = 0 => p < psPackets[k + 1].pub
      BY <1>2, <1>3, <2>1, <3>1, SubsAre DEF PacketsInOrder, p
    <3> QED BY <2>1, <2>3, <3>2, <3>3
  <2> QED BY <1>6, <2>2, <2>3
<1>9. ReceivedInOrder'
  <2> SUFFICES ASSUME NEW i \in DOMAIN PS!SUBS
               PROVE  /\ Rising(received[i])
                      /\ \A j \in DOMAIN received[i] :
                           /\ \A t \in timers' : t.sub = i => received[i][j] < t.pub
                           /\ \A k \in DOMAIN psPackets' :
                                psPackets'[k].sub \in {i, PS!Broker} =>
                                  received[i][j] < psPackets'[k].pub
    BY <1>1 DEF ReceivedInOrder
  <2>1. ReceivedInOrder BY DEF PSInv
  <2>2. ASSUME NEW j \in DOMAIN received[i], NEW t \in timers', t.sub = i
        PROVE  received[i][j] < t.pub
    <3>1. received[i][j] < p BY <1>2, <1>3, <2>1 DEF ReceivedInOrder, p
    <3> QED BY <1>6, <2>1, <2>2, <3>1 DEF ReceivedInOrder
  <2>3. ASSUME NEW j \in DOMAIN received[i], NEW k \in DOMAIN psPackets',
               psPackets'[k].sub \in {i, PS!Broker}
        PROVE  received[i][j] < psPackets'[k].pub
    BY <1>2, <2>1, <2>3 DEF ReceivedInOrder
  <2> QED BY <2>1, <2>2, <2>3 DEF ReceivedInOrder
<1>10. Addressed'
  <2>1. Addressed BY DEF PSInv
  <2>2. ASSUME NEW t \in timers'
        PROVE  published[t.pub] \in PS!SUBS[t.sub] /\ t.slot = Place(t.sub)
    BY <1>6, <2>1 DEF Addressed
  <2>3. ASSUME NEW k \in DOMAIN psPackets', psPackets'[k].sub # PS!Broker
        PROVE  published[psPackets'[k].pub] \in PS!SUBS[psPackets'[k].sub]
    BY <1>2, <2>1, <2>3 DEF Addressed
  <2> QED BY <1>1, <2>1, <2>2, <2>3 DEF Addressed
<1>11. NoneLost'
  <2> SUFFICES ASSUME NEW q \in DOMAIN published, NEW i \in DOMAIN PS!SUBS, q > psBefore,
                      published[q] \in PS!SUBS[i]
               PROVE  OnItsWay(q, PS!Broker)' \/ Due(q, i)' \/ OnItsWay(q, i)' \/ Received(q, i)'
    BY <1>1 DEF NoneLost
  <2>1. OnItsWay(q, PS!Broker) \/ Due(q, i) \/ OnItsWay(q, i) \/ Received(q, i)
    BY DEF PSInv, NoneLost
  <2>2. CASE q = p
    <3>1. i \in PS!Subscribers(p) BY <2>2 DEF PS!Subscribers
    <3> DEFINE u == [pub |-> p, sub |-> i, slot |-> PS!Slot(p, i)]
    <3>2. u \in timers' BY <1>3, <3>1
    <3> QED BY <2>2, <3>2 DEF Due
  <2>3. ASSUME q # p, NEW x, OnItsWay(q, x) PROVE OnItsWay(q, x)'
    <3>1. PICK k \in DOMAIN psPackets : psPackets[k].pub = q /\ psPackets[k].sub = x
      BY <2>3 DEF OnItsWay
    <3>2. k # 1 BY <2>3, <3>1 DEF p
    <3> QED BY <1>2, <3>1, <3>2 DEF OnItsWay
  <2>4. Due(q, i) => Due(q, i)' BY <1>3 DEF Due
  <2>5. Received(q, i) => Received(q, i)' BY <1>1 DEF Received
  <2> QED BY <2>1, <2>2, <2>3, <2>4, <2>5
<1> QED BY <1>1, <1>2, <1>7, <1>8, <1>9, <1>10, <1>11 DEF PSInv

LEMMA NotifySubKeeps ==
  ASSUME PSInv, NEW t \in timers, PS!NotifySub(t)
  PROVE  PSInv'
<1> DEFINE m == [pub |-> t.pub, sub |-> t.sub]
           L == Len(published)
           n == Len(psPackets)
<1>1. /\ \A u \in timers : ~PS!DueBefore(u, t)
      /\ timers' = timers \ {t} /\ psPackets' = Append(psPackets, m)
      /\ published' = published /\ notif_count' = notif_count /\ received' = received
      /\ psResets' = psResets /\ psBefore' = psBefore
  BY DEF PS!NotifySub
<1>2. /\ PS!TypeOK /\ t.pub \in 1..L /\ t.sub \in 1..4 /\ L \in Nat
      /\ m.pub = t.pub /\ m.sub = t.sub /\ m \in PSPacket(L)
  BY PSTyped DEF PSInv, PSPacket
<1> HIDE DEF m, L, n
<1>3. /\ psPackets' \in Seq(PSPacket(L)) /\ n \in Nat
      /\ DOMAIN psPackets = 1..n /\ DOMAIN psPackets' = 1..(n + 1)
      /\ psPackets'[n + 1] = m /\ \A k \in 1..n : psPackets'[k] = psPackets[k]
  <2>1. psPackets \in Seq(PSPacket(L)) BY <1>2, PSTypeIs DEF PSType, L
  <2> QED BY <1>1, <1>2, <2>1, AppendIs DEF n
<1>4. \A k \in DOMAIN psPackets' : k \in DOMAIN psPackets \/ k = n + 1 BY <1>3
<1>5. \A u \in timers : u.sub = t.sub /\ u # t => t.pub < u.pub
  <2> SUFFICES ASSUME NEW u \in timers, u.sub = t.sub, u # t PROVE t.pub < u.pub OBVIOUS
  <2>1. u.slot = Place(u.sub) /\ t.slot = Place(t.sub) BY DEF PSInv, Addressed
  <2>2. u.pub \in 1..L BY <1>2, PSTyped DEF L
  <2>3. u.slot <= t.slot BY <1>2, <2>1 DEF Place
  <2>4. ~(u.pub <= t.pub) BY <1>1, <2>3 DEF PS!DueBefore
  <2> QED BY <1>2, <2>2, <2>4
<1>6. PS!TypeOK'
  <2>1. timers' \subseteq PSTimer(L) BY <1>1, <1>2, PSTypeIs DEF PSType, L
  <2> QED BY <1>1, <1>2, <1>3, <2>1, PSTypeIs DEF PSType, L
<1>7. PacketsInOrder'
  <2> SUFFICES ASSUME NEW j \in DOMAIN psPackets', NEW k \in DOMAIN psPackets',
                      \/ psPackets'[j].sub = psPackets'[k].sub /\ j < k
                      \/ psPackets'[j].sub # PS!Broker /\ psPackets'[k].sub = PS!Broker
               PROVE  psPackets'[j].pub < psPackets'[k].pub
    BY DEF PacketsInOrder
  <2>1. CASE j \in DOMAIN psPackets /\ k \in DOMAIN psPackets
    BY <1>3, <2>1 DEF PSInv, PacketsInOrder
  <2>2. CASE j = n + 1 /\ k \in DOMAIN psPackets
    <3>1. psPackets[k].sub = 0 BY <1>2, <1>3, <2>2, SubsAre
    <3> QED BY <1>2, <1>3, <2>2, <3>1, SubsAre DEF PSInv, TimersInOrder
  <2>3. CASE j \in DOMAIN psPackets /\ k = n + 1
    <3>1. psPackets[j].sub = t.sub BY <1>2, <1>3, <2>3, SubsAre
    <3> QED BY <1>2, <1>3, <2>3, <3>1 DEF PSInv, TimersInOrder
  <2>4. CASE j = n + 1 /\ k = n + 1 BY <1>2, <1>3, <2>4, SubsAre
  <2> QED BY <1>4, <2>1, <2>2, <2>3, <2>4
<1>8. TimersInOrder'
  <2> SUFFICES ASSUME NEW u \in timers, u # t, NEW k \in DOMAIN psPackets'
               PROVE  /\ psPackets'[k].sub = u.sub => psPackets'[k].pub < u.pub
                      /\ psPackets'[k].sub = PS!Broker => u.pub < psPackets'[k].pub
    BY <1>1 DEF TimersInOrder
  <2>1. CASE k = n + 1 BY <1>2, <1>3, <1>5, <2>1, SubsAre
  <2>2. CASE k \in DOMAIN psPackets BY <1>3, <2>2 DEF PSInv, TimersInOrder
  <2> QED BY <1>4, <2>1, <2>2
<1>9. ReceivedInOrder'
  <2>1. ReceivedInOrder BY DEF PSInv
  <2>2. ASSUME NEW i \in DOMAIN PS!SUBS, NEW j \in DOMAIN received[i],
               NEW k \in DOMAIN psPackets', psPackets'[k].sub \in {i, PS!Broker}
        PROVE  received[i][j] < psPackets'[k].pub
    <3>1. CASE k = n + 1
      <4>1. t.sub = i BY <1>2, <1>3, <2>2, <3>1, SubsAre
      <4> QED BY <1>2, <1>3, <2>1, <3>1, <4>1 DEF ReceivedInOrder
    <3>2. CASE k \in DOMAIN psPackets BY <1>3, <2>1, <2>2, <3>2 DEF ReceivedInOrder
    <3> QED BY <1>4, <3>1, <3>2
  <2> QED BY <1>1, <2>1, <2>2 DEF ReceivedInOrder
<1>10. Addressed'
  <2>1. Addressed BY DEF PSInv
  <2>2. ASSUME NEW k \in DOMAIN psPackets', psPackets'[k].sub # PS!Broker
        PROVE  published[psPackets'[k].pub] \in PS!SUBS[psPackets'[k].sub]
    <3>1. CASE k = n + 1 BY <1>2, <1>3, <2>1, <3>1 DEF Addressed
    <3>2. CASE k \in DOMAIN psPackets BY <1>3, <2>1, <2>2, <3>2 DEF Addressed
    <3> QED BY <1>4, <3>1, <3>2
  <2> QED BY <1>1, <2>1, <2>2 DEF Addressed
<1>11. NoneLost'
  <2> SUFFICES ASSUME NEW q \in DOMAIN published, NEW i \in DOMAIN PS!SUBS, q > psBefore,
                      published[q] \in PS!SUBS[i]
               PROVE  OnItsWay(q, PS!Broker)' \/ Due(q, i)' \/ OnItsWay(q, i)' \/ Received(q, i)'
    BY <1>1 DEF NoneLost
  <2>1. OnItsWay(q, PS!Broker) \/ Due(q, i) \/ OnItsWay(q, i) \/ Received(q, i)
    BY DEF PSInv, NoneLost
  <2>2. \A x : OnItsWay(q, x) => OnItsWay(q, x)' BY <1>3 DEF OnItsWay
  <2>3. Due(q, i) => Due(q, i)' \/ OnItsWay(q, i)'
    <3> SUFFICES ASSUME NEW u \in timers, u.pub = q, u.sub = i
                 PROVE  Due(q, i)' \/ OnItsWay(q, i)'
      BY DEF Due
    <3>1. CASE u = t
      <4>1. n + 1 \in DOMAIN psPackets' BY <1>3
      <4> QED BY <1>2, <1>3, <3>1, <4>1 DEF OnItsWay
    <3>2. CASE u # t BY <1>1, <3>2 DEF Due
    <3> QED BY <3>1, <3>2
  <2>4. Received(q, i) => Received(q, i)' BY <1>1 DEF Received
  <2> QED BY <2>1, <2>2, <2>3, <2>4
<1> QED BY <1>1, <1>6, <1>7, <1>8, <1>9, <1>10, <1>11 DEF PSInv

LEMMA SubReceiveKeeps == ASSUME PSInv, PS!SubReceive PROVE PSInv'
<1> DEFINE p == psPackets[1].pub
           s == psPackets[1].sub
           L == Len(published)
           a == Append(received[s], p)
           n == Len(received[s])
<1>1. /\ psPackets # <<>> /\ psPackets' = Tail(psPackets)
      /\ Head(psPackets).sub # PS!Broker
      /\ received' = [received EXCEPT ![Head(psPackets).sub] = Append(@, Head(psPackets).pub)]
      /\ published' = published /\ notif_count' = notif_count + 1 /\ timers' = timers
      /\ psResets' = psResets /\ psBefore' = psBefore
  BY DEF PS!SubReceive
<1>2. /\ psPackets' \in Seq(PSPacket(L)) /\ 1 \in DOMAIN psPackets
      /\ \A k \in DOMAIN psPackets' :
           k + 1 \in DOMAIN psPackets /\ psPackets'[k] = psPackets[k + 1] /\ 1 < k + 1
      /\ \A k \in DOMAIN psPackets :
           k = 1 \/ (k - 1 \in DOMAIN psPackets' /\ psPackets[k] = psPackets'[k - 1])
      /\ PacketsInOrder'
  BY <1>1, PSDropped
<1>3. /\ PS!TypeOK /\ s # PS!Broker /\ s # 0
      /\ received' = [received EXCEPT ![s] = Append(@, p)]
  BY <1>1, PSDropped, SubsAre DEF PSInv
<1>4. /\ p \in 1..L /\ L \in Nat /\ s \in 1..4
      /\ \A i \in 1..4 : \A j \in DOMAIN received[i] : received[i][j] \in 1..L
  BY <1>2, <1>3, PSTyped
<1> HIDE DEF p, s, L
<1>5. /\ DOMAIN received = 1..4 /\ DOMAIN received' = 1..4
      /\ received'[s] = a /\ \A i \in 1..4 \ {s} : received'[i] = received[i]
  BY <1>3, <1>4, SubsAre DEF PSInv
<1>6. /\ a \in Seq(1..L) /\ n \in Nat /\ DOMAIN received[s] = 1..n /\ DOMAIN a = 1..(n + 1)
      /\ a[n + 1] = p /\ \A j \in 1..n : a[j] = received[s][j]
  <2>1. received[s] \in Seq(1..L) BY <1>3, <1>4, PSTypeIs DEF PSType, L
  <2> QED BY <1>4, <2>1, AppendIs
<1> HIDE DEF a, n
<1>7. \A i \in 1..4 : \A j \in DOMAIN received'[i] :
        \/ j \in DOMAIN received[i] /\ received'[i][j] = received[i][j]
        \/ i = s /\ j = n + 1 /\ received'[i][j] = p
  BY <1>4, <1>5, <1>6
<1>8. PS!TypeOK'
  <2>1. \A i \in 1..4 : received'[i] \in Seq(1..L)
    BY <1>3, <1>5, <1>6, PSTypeIs DEF PSType, L
  <2>2. notif_count' \in Nat BY <1>1, <1>3, PSTypeIs DEF PSType
  <2> QED BY <1>1, <1>2, <1>3, <2>1, <2>2, PSTypeIs DEF PSType, L
<1>9. TimersInOrder'
  BY <1>1, <1>2 DEF PSInv, TimersInOrder
<1>10. ReceivedInOrder'
  <2> SUFFICES ASSUME NEW i \in DOMAIN PS!SUBS
               PROVE  /\ Rising(received'[i])
                      /\ \A j \in DOMAIN received'[i] :
                           /\ \A t \in timers : t.sub = i => received'[i][j] < t.pub
                           /\ \A k \in DOMAIN psPackets' :
                                psPackets'[k].sub \in {i, PS!Broker} =>
                                  received'[i][j] < psPackets'[k].pub
    BY <1>1 DEF ReceivedInOrder
  <2>1. ReceivedInOrder /\ i \in 1..4 BY SubsAre DEF PSInv
  <2>2. Rising(received'[i])
    <3>1. CASE i # s
      <4>1. received'[i] = received[i] BY <1>5, <2>1, <3>1
      <4> QED BY <2>1, <4>1 DEF ReceivedInOrder
    <3>2. CASE i = s
      <4>1. \A j \in 1..n : received[s][j] < p
        BY <1>2, <1>6, <2>1, <3>2 DEF ReceivedInOrder, p, s
      <4>2. Rising(received[s]) BY <2>1, <3>2 DEF ReceivedInOrder
      <4>3. Rising(a) BY <1>6, <4>1, <4>2 DEF Rising
      <4> QED BY <1>5, <3>2, <4>3
    <3> QED BY <3>1, <3>2
  <2>3. ASSUME NEW j \in DOMAIN received'[i], NEW t \in timers, t.sub = i
        PROVE  received'[i][j] < t.pub
    <3>1. CASE j \in DOMAIN received[i] /\ received'[i][j] = received[i][j]
      BY <2>1, <2>3, <3>1 DEF ReceivedInOrder
    <3>2. CASE i = s /\ received'[i][j] = p
      BY <1>2, <2>3, <3>2 DEF PSInv, TimersInOrder, p, s
    <3> QED BY <1>7, <2>1, <3>1, <3>2
  <2>4. ASSUME NEW j \in DOMAIN received'[i], NEW k \in DOMAIN psPackets',
               psPackets'[k].sub \in {i, PS!Broker}
        PROVE  received'[i][j] < psPackets'[k].pub
    <3>1. k + 1 \in DOMAIN psPackets /\ psPackets'[k] = psPackets[k + 1] /\ 1 < k + 1 BY <1>2
    <3>2. CASE j \in DOMAIN received[i] /\ received'[i][j] = received[i][j]
      BY <2>1, <2>4, <3>1, <3>2 DEF ReceivedInOrder
    <3>3. CASE i = s /\ received'[i][j] = p
      <4>1. \/ psPackets[1].sub = psPackets[k + 1].sub /\ 1 < k + 1
            \/ psPackets[1].sub # PS!Broker /\ psPackets[k + 1].sub = PS!Broker
        BY <1>3, <2>4, <3>1, <3>3 DEF s
      <4>2. psPackets[1].pub < psPackets[k + 1].pub
        BY <1>2, <3>1, <4>1 DEF PSInv, PacketsInOrder
      <4> QED BY <3>1, <3>3, <4>2 DEF p
    <3> QED BY <1>7, <2>1, <3>2, <3>3
  <2> QED BY <2>2, <2>3, <2>4
<1>11. Addressed'
  <2>1. Addressed BY DEF PSInv
  <2>2. ASSUME NEW i \in DOMAIN PS!SUBS, NEW j \in DOMAIN received'[i]
        PROVE  published[received'[i][j]] \in PS!SUBS[i]
    <3>1. published[p] \in PS!SUBS[s] BY <1>2, <1>3, <2>1 DEF Addressed, p, s
    <3> QED BY <1>7, <2>1, <3>1, SubsAre DEF Addressed
  <2>3. ASSUME NEW k \in DOMAIN psPackets', psPackets'[k].sub # PS!Broker
        PROVE  published[psPackets'[k].pub] \in PS!SUBS[psPackets'[k].sub]
    BY <1>2, <2>1, <2>3 DEF Addressed
  <2> QED BY <1>1, <2>1, <2>2, <2>3 DEF Addressed
<1>12. NoneLost'
  <2> SUFFICES ASSUME NEW q \in DOMAIN published, NEW i \in DOMAIN PS!SUBS, q > psBefore,
                      published[q] \in PS!SUBS[i]
               PROVE  OnItsWay(q, PS!Broker)' \/ Due(q, i)' \/ OnItsWay(q, i)' \/ Received(q, i)'
    BY <1>1 DEF NoneLost
  <2>1. OnItsWay(q, PS!Broker) \/ Due(q, i) \/ OnItsWay(q, i) \/ Received(q, i)
    BY DEF PSInv, NoneLost
  <2>2. Received(q, i) => Received(q, i)'
    <3> SUFFICES ASSUME NEW j \in DOMAIN received[i], received[i][j] = q PROVE Received(q, i)'
      BY DEF Received
    <3>1. j \in DOMAIN received'[i] /\ received'[i][j] = received[i][j]
      BY <1>4, <1>5, <1>6, SubsAre
    <3> QED BY <3>1 DEF Received
  <2>3. Due(q, i) => Due(q, i)' BY <1>1 DEF Due
  <2>4. ASSUME NEW x, OnItsWay(q, x), ~(q = p /\ x = s) PROVE OnItsWay(q, x)'
    <3>1. PICK k \in DOMAIN psPackets : psPackets[k].pub = q /\ psPackets[k].sub = x
      BY <2>4 DEF OnItsWay
    <3>2. k # 1 BY <2>4, <3>1 DEF p, s
    <3> QED BY <1>2, <3>1, <3>2 DEF OnItsWay
  <2>5. CASE q = p /\ i = s
    <3>1. n + 1 \in DOMAIN received'[i] /\ received'[i][n + 1] = q BY <1>5, <1>6, <2>5
    <3> QED BY <3>1 DEF Received
  <2> QED BY <1>3, <2>1, <2>2, <2>3, <2>4, <2>5
<1> QED BY <1>2, <1>5, <1>8, <1>9, <1>10, <1>11, <1>12, SubsAre DEF PSInv

LEMMA PSResetKeeps == ASSUME PSInv, PS!Reset PROVE PSInv'
<1>1. /\ psResets < MaxResets /\ psResets' = psResets + 1 /\ psPackets' = <<>>
      /\ notif_count' = 0 /\ psBefore' = Len(published)
      /\ published' = published /\ timers' = timers /\ received' = received
  BY DEF PS!Reset
<1>2. DOMAIN psPackets' = {} /\ PS!TypeOK BY <1>1 DEF PSInv
<1>3. Len(published) \in Nat /\ DOMAIN published = 1..Len(published) BY <1>2, PSTyped
<1>4. PS!TypeOK'
  <2>1. psPackets' \in Seq(PSPacket(Len(published))) BY <1>1, EmptySeq
  <2>2. psResets' \in 0..MaxResets /\ psBefore' \in 0..Len(published)
    BY <1>1, <1>2, <1>3, Bounds, PSTypeIs DEF PSType
  <2> QED BY <1>1, <1>2, <2>1, <2>2, PSTypeIs DEF PSType
<1>5. PacketsInOrder' /\ TimersInOrder' BY <1>2 DEF PacketsInOrder, TimersInOrder
<1>6. ReceivedInOrder' BY <1>1, <1>2 DEF PSInv, ReceivedInOrder
<1>7. Addressed' BY <1>1, <1>2 DEF PSInv, Addressed
<1>8. NoneLost' BY <1>1, <1>3 DEF NoneLost
<1> QED BY <1>1, <1>4, <1>5, <1>6, <1>7, <1>8 DEF PSInv

LEMMA PSUnchanged == ASSUME PSInv, UNCHANGED psVars PROVE PSInv'
  BY DEF PSInv, psVars, PS!TypeOK, PacketsInOrder, TimersInOrder, ReceivedInOrder, Addressed,
         NoneLost, OnItsWay, Due, Received

LEMMA PSKeeps == PSInv /\ PS!Next => PSInv'
  BY PublishKeeps, BrokerReceiveKeeps, NotifySubKeeps, SubReceiveKeeps, PSResetKeeps
     DEF PS!Next, PS!Arrive

-----------------------------------------------------------------------------
(* Every subscriber is notified once.                                      *)

LEMMA AtMostOne ==
  ASSUME NEW S, \A x, y \in S : x = y
  PROVE  Cardinality(S) \in {0, 1} /\ (Cardinality(S) = 0 <=> S = {})
<1>1. CASE S = {} BY <1>1, FS_EmptySet
<1>2. CASE S # {}
  <2>1. PICK x : S = {x} BY <1>2
  <2>2. Cardinality(S) = 1 BY <2>1, FS_Singleton
  <2> QED BY <1>2, <2>2
<1> QED BY <1>1, <1>2

LEMMA Once == PSInv => PS!NotifiedOnceInOrder
<1> SUFFICES ASSUME PSInv, NEW i \in DOMAIN PS!SUBS
             PROVE  /\ \A p \in DOMAIN published :
                         /\ PS!Notifications(p, i) <= (IF i \in PS!Subscribers(p) THEN 1 ELSE 0)
                         /\ p > psBefore /\ i \in PS!Subscribers(p)
                              => PS!ToBroker(p) \/ PS!Notifications(p, i) = 1
                    /\ \A j, k \in DOMAIN received[i] : j < k => received[i][j] < received[i][k]
  BY DEF PS!NotifiedOnceInOrder
<1>1. /\ PacketsInOrder /\ TimersInOrder /\ ReceivedInOrder /\ Addressed /\ NoneLost
      /\ PS!TypeOK /\ i \in 1..4 /\ i # PS!Broker
  BY SubsAre DEF PSInv
<1>2. psPackets \in Seq(PSPacket(Len(published))) /\ received[i] \in Seq(1..Len(published))
  BY <1>1, PSTypeIs DEF PSType
<1>3. /\ \A k \in DOMAIN psPackets : k \in Nat /\ psPackets[k].pub \in Nat
                                     /\ psPackets[k] \in PSPacket(Len(published))
      /\ \A j \in DOMAIN received[i] : j \in Nat /\ received[i][j] \in Nat
      /\ \A t \in timers : t.pub \in Nat /\ t = [pub |-> t.pub, sub |-> t.sub, slot |-> t.slot]
  <2>1. DOMAIN psPackets = 1..Len(psPackets) /\ DOMAIN received[i] = 1..Len(received[i])
    BY <1>2, LenProperties
  <2>2. \A k \in DOMAIN psPackets : psPackets[k] \in PSPacket(Len(published))
    BY <1>2, <2>1, ElementOfSeq
  <2> QED BY <1>1, <2>1, <2>2, PSTyped
<1>4. \A j, k \in DOMAIN received[i] : j < k => received[i][j] < received[i][k]
  BY <1>1 DEF ReceivedInOrder, Rising
<1>5. ASSUME NEW p \in DOMAIN published
      PROVE  /\ PS!Notifications(p, i) <= (IF i \in PS!Subscribers(p) THEN 1 ELSE 0)
             /\ p > psBefore /\ i \in PS!Subscribers(p)
                  => PS!ToBroker(p) \/ PS!Notifications(p, i) = 1
  <2> DEFINE T == {t \in timers : t.pub = p /\ t.sub = i}
             K == {k \in DOMAIN psPackets : psPackets[k] = [pub |-> p, sub |-> i]}
             R == {j \in DOMAIN received[i] : received[i][j] = p}
  <2>1. /\ \A k : k \in K <=> k \in DOMAIN psPackets /\ psPackets[k].pub = p /\ psPackets[k].sub = i
        /\ PS!ToBroker(p) <=> OnItsWay(p, PS!Broker)
    <3>1. \A k \in DOMAIN psPackets :
            psPackets[k] = [pub |-> psPackets[k].pub, sub |-> psPackets[k].sub]
      BY <1>3 DEF PSPacket
    <3> QED BY <3>1 DEF PS!ToBroker, OnItsWay
  <2>2. \A t, u \in T : t = u
    <3> SUFFICES ASSUME NEW t \in T, NEW u \in T PROVE t = u OBVIOUS
    <3>1. t.slot = u.slot BY <1>1 DEF Addressed
    <3> QED BY <1>3, <3>1
  <2>3. \A j, k \in K : j = k
    <3> SUFFICES ASSUME NEW j \in K, NEW k \in K, j < k PROVE FALSE BY <1>3, <2>1
    <3> QED BY <1>1, <1>3, <2>1 DEF PacketsInOrder
  <2>4. \A j, k \in R : j = k
    <3> SUFFICES ASSUME NEW j \in R, NEW k \in R, j < k PROVE FALSE BY <1>3
    <3> QED BY <1>3, <1>4
  <2>5. /\ ~\E t \in T, k \in K : TRUE
        /\ ~\E t \in T, j \in R : TRUE
        /\ ~\E k \in K, j \in R : TRUE
    <3>1. ASSUME NEW t \in T, NEW k \in K PROVE FALSE
      BY <1>1, <1>3, <2>1 DEF TimersInOrder
    <3>2. ASSUME NEW t \in T, NEW j \in R PROVE FALSE
      BY <1>1, <1>3 DEF ReceivedInOrder
    <3>3. ASSUME NEW k \in K, NEW j \in R PROVE FALSE
      BY <1>1, <1>3, <2>1 DEF ReceivedInOrder
    <3> QED BY <3>1, <3>2, <3>3
  <2>6. PS!Notifications(p, i) = Cardinality(T) + Cardinality(K) + Cardinality(R)
    BY PSCardinality DEF PS!Notifications
  <2>7. (T # {} \/ K # {} \/ R # {}) => i \in PS!Subscribers(p)
    BY <1>1, <2>1 DEF Addressed, PS!Subscribers
  <2>8. p > psBefore /\ i \in PS!Subscribers(p) => PS!ToBroker(p) \/ T # {} \/ K # {} \/ R # {}
    <3> SUFFICES ASSUME p > psBefore, i \in PS!Subscribers(p)
                 PROVE  PS!ToBroker(p) \/ T # {} \/ K # {} \/ R # {}
      OBVIOUS
    <3>1. OnItsWay(p, PS!Broker) \/ Due(p, i) \/ OnItsWay(p, i) \/ Received(p, i)
      BY <1>1 DEF NoneLost, PS!Subscribers
    <3> QED BY <2>1, <3>1 DEF Due, OnItsWay, Received
  <2> HIDE DEF T, K, R
  <2>9. /\ Cardinality(T) \in {0, 1} /\ (Cardinality(T) = 0 <=> T = {})
        /\ Cardinality(K) \in {0, 1} /\ (Cardinality(K) = 0 <=> K = {})
        /\ Cardinality(R) \in {0, 1} /\ (Cardinality(R) = 0 <=> R = {})
    BY <2>2, <2>3, <2>4, AtMostOne
  <2> QED BY <2>5, <2>6, <2>7, <2>8, <2>9
<1> QED BY <1>4, <1>5

-----------------------------------------------------------------------------
(***************************************************************************)
(* MessagePassingTab.                                                      *)
(***************************************************************************)

MPInv ==
  /\ MP!TypeOK /\ MP!ProcessedInOrder
  /\ IsFiniteSet(MP!Waiting) /\ msg_count + planned <= MaxMessages

MPPacket(n) == [from : Nodes, to : Nodes, id : 1..n]
MPMessage(n) == [from : Nodes, id : 1..n]

MPType ==
  /\ planned \in Nat /\ sent \in Nat /\ processed \in Nat /\ msg_count \in 0..MaxMessages
  /\ mpPackets \in Seq(MPPacket(msg_count))
  /\ queues \in [Nodes -> Seq(MPMessage(msg_count))]
  /\ last \in [Nodes -> 0..msg_count]
  /\ mpResets \in 0..MaxResets

(* What moves, waits and was processed, without the numbers. *)
MPOrder ==
  /\ MP!Increasing(mpPackets)
  /\ \A n \in Nodes :
       /\ MP!Increasing(queues[n])
       /\ \A j \in DOMAIN queues[n] : last[n] < queues[n][j].id
       /\ \A k \in DOMAIN mpPackets : mpPackets[k].to = n =>
            last[n] < mpPackets[k].id /\ \A j \in DOMAIN queues[n] : queues[n][j].id < mpPackets[k].id

LEMMA MPCardinality == \A S : MP!Cardinality(S) = Cardinality(S)
  BY DEF MP!Cardinality, Cardinality

LEMMA MPTypeIs == (MP!TypeOK <=> MPType) /\ (MP!TypeOK' <=> MPType')
  BY DEF MP!TypeOK, MPType, MPPacket, MPMessage

LEMMA MPInvIs ==
  /\ MPInv <=> /\ MPType /\ MPOrder /\ IsFiniteSet(MP!Waiting)
               /\ msg_count + planned <= MaxMessages
               /\ sent = processed + Len(mpPackets) + Cardinality(MP!Waiting)
  /\ MPInv' <=> /\ MPType' /\ MPOrder' /\ IsFiniteSet(MP!Waiting')
                /\ msg_count' + planned' <= MaxMessages
                /\ sent' = processed' + Len(mpPackets') + Cardinality(MP!Waiting')
<1>1. /\ MP!Cardinality(MP!Waiting) = Cardinality(MP!Waiting)
      /\ MP!Cardinality(MP!Waiting') = Cardinality(MP!Waiting')
  BY MPCardinality
<1>2. /\ MP!ProcessedInOrder <=>
           MPOrder /\ sent = processed + Len(mpPackets) + Cardinality(MP!Waiting)
      /\ MP!ProcessedInOrder' <=>
           MPOrder' /\ sent' = processed' + Len(mpPackets') + Cardinality(MP!Waiting')
  BY <1>1 DEF MP!ProcessedInOrder, MPOrder
<1> QED BY <1>2, MPTypeIs DEF MPInv

LEMMA WaitingIs ==
  /\ \A w : w \in MP!Waiting <=> \E n \in Nodes : \E k \in DOMAIN queues[n] : w = <<n, k>>
  /\ \A w : w \in MP!Waiting' <=> \E n \in Nodes : \E k \in DOMAIN queues'[n] : w = <<n, k>>
  BY DEF MP!Waiting

LEMMA MPTyped ==
  ASSUME MPInv
  PROVE  /\ msg_count \in Nat /\ planned \in Nat /\ msg_count + planned <= MaxMessages
         /\ \A k \in DOMAIN mpPackets :
              /\ k \in Nat /\ mpPackets[k].id \in 1..msg_count
              /\ mpPackets[k].to \in Nodes /\ mpPackets[k].from \in Nodes
         /\ \A n \in Nodes :
              /\ queues[n] \in Seq(MPMessage(msg_count)) /\ last[n] \in 0..msg_count
              /\ \A j \in DOMAIN queues[n] : j \in Nat /\ queues[n][j].id \in 1..msg_count
         /\ DOMAIN queues = Nodes
<1>1. MPType /\ msg_count + planned <= MaxMessages BY MPInvIs
<1>2. msg_count \in Nat /\ planned \in Nat BY <1>1, Bounds DEF MPType
<1>3. ASSUME NEW k \in DOMAIN mpPackets
      PROVE  /\ k \in Nat /\ mpPackets[k].id \in 1..msg_count
             /\ mpPackets[k].to \in Nodes /\ mpPackets[k].from \in Nodes
  <2>1. mpPackets \in Seq(MPPacket(msg_count)) BY <1>1 DEF MPType
  <2>2. DOMAIN mpPackets = 1..Len(mpPackets) BY <2>1, LenProperties
  <2>3. mpPackets[k] \in MPPacket(msg_count) BY <2>1, <2>2, ElementOfSeq
  <2> QED BY <2>2, <2>3 DEF MPPacket
<1>4. ASSUME NEW n \in Nodes
      PROVE  /\ queues[n] \in Seq(MPMessage(msg_count)) /\ last[n] \in 0..msg_count
             /\ \A j \in DOMAIN queues[n] : j \in Nat /\ queues[n][j].id \in 1..msg_count
  <2>1. queues[n] \in Seq(MPMessage(msg_count)) /\ last[n] \in 0..msg_count BY <1>1 DEF MPType
  <2>2. DOMAIN queues[n] = 1..Len(queues[n]) BY <2>1, LenProperties
  <2>3. \A j \in DOMAIN queues[n] : queues[n][j] \in MPMessage(msg_count)
    BY <2>1, <2>2, ElementOfSeq
  <2> QED BY <2>1, <2>2, <2>3 DEF MPMessage
<1> QED BY <1>1, <1>2, <1>3, <1>4 DEF MPType

-----------------------------------------------------------------------------
(* The steps.                                                              *)

LEMMA MPStarts == MP!Init => MPInv
<1> SUFFICES ASSUME MP!Init PROVE MPInv OBVIOUS
<1>1. /\ planned = 0 /\ msg_count = 0 /\ sent = 0 /\ processed = 0
      /\ mpPackets = <<>> /\ queues = [n \in Nodes |-> <<>>]
      /\ last = [n \in Nodes |-> 0] /\ mpResets = 0
  BY DEF MP!Init
<1>2. DOMAIN mpPackets = {} /\ Len(mpPackets) = 0 /\ \A n \in Nodes : DOMAIN queues[n] = {}
  BY <1>1
<1>3. MPType
  <2>1. mpPackets \in Seq(MPPacket(msg_count)) /\ <<>> \in Seq(MPMessage(msg_count))
    BY <1>1, EmptySeq
  <2>2. queues \in [Nodes -> Seq(MPMessage(msg_count))] BY <1>1, <2>1
  <2>3. last \in [Nodes -> 0..msg_count] BY <1>1
  <2>4. /\ planned \in Nat /\ sent \in Nat /\ processed \in Nat
        /\ msg_count \in 0..MaxMessages /\ mpResets \in 0..MaxResets
    BY <1>1, Bounds
  <2> QED BY <2>1, <2>2, <2>3, <2>4 DEF MPType
<1>4. MPOrder BY <1>2 DEF MPOrder, MP!Increasing
<1>5. MP!Waiting = {} BY <1>2, WaitingIs
<1> QED BY <1>1, <1>2, <1>3, <1>4, <1>5, Bounds, FS_EmptySet, MPInvIs

LEMMA DoSendKeeps ==
  ASSUME MPInv, NEW from \in Nodes, NEW to \in Nodes, MP!DoSend(from, to),
         planned' \in Nat, msg_count + 1 + planned' <= MaxMessages
  PROVE  MPInv'
<1> DEFINE c == msg_count
           m == [from |-> from, to |-> to, id |-> msg_count + 1]
           n == Len(mpPackets)
<1>1. /\ msg_count' = c + 1 /\ sent' = sent + 1 /\ mpPackets' = Append(mpPackets, m)
      /\ processed' = processed /\ queues' = queues /\ last' = last /\ mpResets' = mpResets
  BY DEF MP!DoSend
<1>2. /\ MPType /\ MPOrder /\ c \in Nat /\ IsFiniteSet(MP!Waiting)
      /\ sent = processed + n + Cardinality(MP!Waiting)
  BY MPInvIs, MPTyped
<1>3. m \in MPPacket(c + 1) /\ m.to = to /\ m.id = c + 1 BY <1>2 DEF MPPacket
<1> HIDE DEF m
<1>4. /\ mpPackets' \in Seq(MPPacket(c + 1)) /\ n \in Nat /\ Len(mpPackets') = n + 1
      /\ DOMAIN mpPackets = 1..n /\ DOMAIN mpPackets' = 1..(n + 1)
      /\ mpPackets'[n + 1] = m /\ \A k \in 1..n : mpPackets'[k] = mpPackets[k]
  <2>1. MPPacket(c) \subseteq MPPacket(c + 1) BY <1>2 DEF MPPacket
  <2>2. mpPackets \in Seq(MPPacket(c + 1)) BY <1>2, <2>1, SeqGrows DEF MPType
  <2> QED BY <1>1, <1>3, <2>2, AppendIs
<1>5. \A k \in DOMAIN mpPackets : mpPackets[k].id \in Nat /\ mpPackets[k].id < c + 1 BY <1>2, MPTyped
<1>6. \A r \in Nodes : last[r] <= c /\ \A j \in DOMAIN queues[r] : queues[r][j].id <= c
  BY <1>2, MPTyped
<1>7. MPType'
  <2>1. queues \in [Nodes -> Seq(MPMessage(c + 1))]
    <3>1. MPMessage(c) \subseteq MPMessage(c + 1) BY <1>2 DEF MPMessage
    <3>2. \A r \in Nodes : queues[r] \in Seq(MPMessage(c + 1)) BY <3>1, MPTyped, SeqGrows
    <3> QED BY <1>2, <3>2 DEF MPType
  <2>2. last \in [Nodes -> 0..(c + 1)] BY <1>2 DEF MPType
  <2>3. /\ planned' \in Nat /\ sent' \in Nat /\ processed' \in Nat
        /\ msg_count' \in 0..MaxMessages /\ mpResets' \in 0..MaxResets
    <3>1. sent \in Nat /\ processed \in Nat /\ mpResets \in 0..MaxResets BY <1>2 DEF MPType
    <3>2. c + 1 \in 0..MaxMessages
      <4>1. c + 1 + planned' <= MaxMessages /\ planned' \in Nat OBVIOUS
      <4>2. c \in Nat BY <1>2
      <4>3. \A x, y, z \in Nat : x + 1 + y <= z => x + 1 \in 0..z OBVIOUS
      <4> HIDE DEF c
      <4> QED BY <4>1, <4>2, <4>3, Bounds
    <3> QED BY <1>1, <3>1, <3>2
  <2> QED BY <1>1, <1>4, <2>1, <2>2, <2>3 DEF MPType
<1> HIDE DEF n
<1>8. MP!Increasing(mpPackets')
  <2> SUFFICES ASSUME NEW j \in 1..(n + 1), NEW k \in 1..(n + 1), j < k
               PROVE  mpPackets'[j].id < mpPackets'[k].id
    BY <1>4 DEF MP!Increasing
  <2>1. CASE k = n + 1
    <3>1. j \in 1..n BY <1>4, <2>1
    <3> QED BY <1>3, <1>4, <1>5, <2>1, <3>1
  <2>2. CASE k \in 1..n
    <3>1. j \in 1..n BY <1>4, <2>2
    <3> QED BY <1>2, <1>4, <2>2, <3>1 DEF MPOrder, MP!Increasing
  <2> QED BY <1>4, <2>1, <2>2
<1>9. MPOrder'
  <2>1. ASSUME NEW r \in Nodes, NEW k \in DOMAIN mpPackets', mpPackets'[k].to = r
        PROVE  /\ last[r] < mpPackets'[k].id
               /\ \A j \in DOMAIN queues[r] : queues[r][j].id < mpPackets'[k].id
    <3>1. CASE k = n + 1
      <4>1. mpPackets'[k].id = c + 1 BY <1>3, <1>4, <3>1
      <4> QED BY <1>2, <1>6, <4>1, MPTyped
    <3>2. CASE k \in 1..n BY <1>2, <1>4, <2>1, <3>2 DEF MPOrder
    <3> QED BY <1>4, <3>1, <3>2
  <2> QED BY <1>1, <1>2, <1>8, <2>1 DEF MPOrder
<1>10. MP!Waiting' = MP!Waiting BY <1>1 DEF MP!Waiting
<1>11. sent' = processed' + Len(mpPackets') + Cardinality(MP!Waiting')
  <2>1. Cardinality(MP!Waiting) \in Nat BY <1>2, FS_CardinalityType
  <2> QED BY <1>1, <1>2, <1>4, <1>10, <2>1 DEF MPType, n
<1> QED BY <1>1, <1>2, <1>7, <1>9, <1>10, <1>11, MPInvIs

LEMMA SendMsgKeeps ==
  ASSUME MPInv, NEW from \in Nodes, NEW to \in Nodes, MP!SendMsg(from, to)
  PROVE  MPInv'
<1>1. MP!DoSend(from, to) /\ msg_count + planned < MaxMessages /\ planned' = planned
  BY DEF MP!SendMsg
<1>2. msg_count + 1 + planned' <= MaxMessages /\ planned' \in Nat BY <1>1, Bounds, MPTyped
<1> QED BY <1>1, <1>2, DoSendKeeps

LEMMA SendPlannedKeeps ==
  ASSUME MPInv, NEW from \in Nodes, NEW to \in Nodes, MP!SendPlanned(from, to)
  PROVE  MPInv'
<1>1. MP!DoSend(from, to) /\ planned > 0 /\ planned' = planned - 1 BY DEF MP!SendPlanned
<1>2. msg_count + 1 + planned' <= MaxMessages /\ planned' \in Nat BY <1>1, Bounds, MPTyped
<1> QED BY <1>1, <1>2, DoSendKeeps

LEMMA SendRandomKeeps == ASSUME MPInv, MP!SendRandom PROVE MPInv'
<1>1. /\ msg_count + planned + Burst <= MaxMessages /\ planned' = planned + Burst
      /\ msg_count' = msg_count /\ sent' = sent /\ processed' = processed
      /\ mpPackets' = mpPackets /\ queues' = queues /\ last' = last /\ mpResets' = mpResets
  BY DEF MP!SendRandom
<1>2. planned' \in Nat /\ msg_count' + planned' <= MaxMessages BY <1>1, Bounds, MPTyped
<1>3. MPType' BY <1>1, <1>2, MPInvIs DEF MPType
<1>4. MPOrder' /\ MP!Waiting' = MP!Waiting BY <1>1, MPInvIs DEF MPOrder, MP!Waiting
<1> QED BY <1>1, <1>2, <1>3, <1>4, MPInvIs

LEMMA EnqueueKeeps == ASSUME MPInv, MP!Enqueue PROVE MPInv'
<1> DEFINE h == Head(mpPackets)
           r == h.to
           c == msg_count
           m == [from |-> h.from, id |-> h.id]
           a == Append(queues[r], m)
           n == Len(queues[r])
<1>1. /\ mpPackets # <<>> /\ mpPackets' = Tail(mpPackets)
      /\ queues' = [queues EXCEPT ![r] = a]
      /\ planned' = planned /\ msg_count' = c /\ sent' = sent /\ processed' = processed
      /\ last' = last /\ mpResets' = mpResets
  BY DEF MP!Enqueue
<1>2. /\ MPType /\ MPOrder /\ c \in Nat /\ IsFiniteSet(MP!Waiting)
      /\ sent = processed + Len(mpPackets) + Cardinality(MP!Waiting)
      /\ c + planned <= MaxMessages
  BY MPInvIs, MPTyped
<1>3. /\ mpPackets' \in Seq(MPPacket(c)) /\ h = mpPackets[1] /\ 1 \in DOMAIN mpPackets
      /\ Len(mpPackets) \in Nat /\ Len(mpPackets') = Len(mpPackets) - 1
      /\ \A k \in DOMAIN mpPackets' : /\ k + 1 \in DOMAIN mpPackets /\ k \in Nat /\ 1 < k + 1
                                      /\ mpPackets'[k] = mpPackets[k + 1]
  <2>1. mpPackets \in Seq(MPPacket(c)) BY <1>2 DEF MPType
  <2>2. /\ mpPackets' \in Seq(MPPacket(c)) /\ h = mpPackets[1]
        /\ Len(mpPackets) \in Nat /\ Len(mpPackets) # 0 /\ DOMAIN mpPackets = 1..Len(mpPackets)
        /\ DOMAIN mpPackets' = 1..Len(mpPackets') /\ Len(mpPackets') = Len(mpPackets) - 1
        /\ \A k \in DOMAIN mpPackets' :
             k + 1 \in DOMAIN mpPackets /\ mpPackets'[k] = mpPackets[k + 1]
    BY <1>1, <2>1, TailIs
  <2> QED BY <2>2
<1>4. r \in Nodes /\ h.id \in 1..c /\ h.from \in Nodes BY <1>3, MPTyped
<1>5. m \in MPMessage(c) /\ m.id = h.id BY <1>4 DEF MPMessage
<1> HIDE DEF h, m
<1>6. /\ a \in Seq(MPMessage(c)) /\ n \in Nat /\ DOMAIN queues[r] = 1..n
      /\ DOMAIN a = 1..(n + 1) /\ a[n + 1] = m /\ \A j \in 1..n : a[j] = queues[r][j]
  BY <1>4, <1>5, MPTyped, AppendIs
<1> HIDE DEF a, n, r
<1>7. /\ queues' \in [Nodes -> Seq(MPMessage(c))] /\ queues'[r] = a
      /\ \A s \in Nodes \ {r} : queues'[s] = queues[s]
  BY <1>1, <1>2, <1>4, <1>6 DEF MPType
<1>8. \A s \in Nodes : \A j \in DOMAIN queues'[s] :
        \/ j \in DOMAIN queues[s] /\ queues'[s][j] = queues[s][j]
        \/ s = r /\ j = n + 1 /\ queues'[s][j] = m
  BY <1>4, <1>6, <1>7
<1>9. /\ \A k \in DOMAIN mpPackets' : h.id < mpPackets'[k].id
      /\ last[r] < h.id /\ \A j \in DOMAIN queues[r] : queues[r][j].id < h.id
  <2>1. ASSUME NEW k \in DOMAIN mpPackets' PROVE h.id < mpPackets'[k].id
    BY <1>2, <1>3 DEF MPOrder, MP!Increasing
  <2>2. last[r] < h.id /\ \A j \in DOMAIN queues[r] : queues[r][j].id < h.id
    BY <1>2, <1>3, <1>4 DEF MPOrder, r
  <2> QED BY <2>1, <2>2
<1>10. MPType' BY <1>1, <1>2, <1>3, <1>7 DEF MPType
<1>11. MPOrder'
  <2>1. MP!Increasing(mpPackets')
    <3> SUFFICES ASSUME NEW j \in DOMAIN mpPackets', NEW k \in DOMAIN mpPackets', j < k
                 PROVE  mpPackets'[j].id < mpPackets'[k].id
      BY DEF MP!Increasing
    <3>1. j + 1 < k + 1 BY <1>3
    <3> QED BY <1>2, <1>3, <3>1 DEF MPOrder, MP!Increasing
  <2>2. ASSUME NEW s \in Nodes PROVE MP!Increasing(queues'[s])
    <3>1. MP!Increasing(queues[s]) BY <1>2 DEF MPOrder
    <3>2. CASE s = r
      <4>1. MP!Increasing(a) BY <1>5, <1>6, <1>9, <3>1, <3>2 DEF MP!Increasing
      <4> QED BY <1>7, <3>2, <4>1
    <3>3. CASE s # r
      <4>1. queues'[s] = queues[s] BY <1>7, <3>3
      <4> QED BY <3>1, <4>1
    <3> QED BY <3>2, <3>3
  <2>3. ASSUME NEW s \in Nodes, NEW j \in DOMAIN queues'[s] PROVE last[s] < queues'[s][j].id
    BY <1>2, <1>5, <1>8, <1>9 DEF MPOrder
  <2>4. ASSUME NEW s \in Nodes, NEW k \in DOMAIN mpPackets', mpPackets'[k].to = s
        PROVE  /\ last[s] < mpPackets'[k].id
               /\ \A j \in DOMAIN queues'[s] : queues'[s][j].id < mpPackets'[k].id
    BY <1>2, <1>3, <1>5, <1>8, <1>9, <2>4 DEF MPOrder
  <2> QED BY <1>1, <2>1, <2>2, <2>3, <2>4 DEF MPOrder
<1>12. /\ MP!Waiting' = MP!Waiting \cup {<<r, n + 1>>} /\ <<r, n + 1>> \notin MP!Waiting
  <2>1. ASSUME NEW w PROVE w \in MP!Waiting' <=> w \in MP!Waiting \cup {<<r, n + 1>>}
    <3>1. ASSUME NEW s \in Nodes, NEW k
          PROVE  k \in DOMAIN queues'[s] <=> k \in DOMAIN queues[s] \/ (s = r /\ k = n + 1)
      <4>1. CASE s = r BY <1>6, <1>7, <4>1
      <4>2. CASE s # r BY <1>7, <4>2
      <4> QED BY <4>1, <4>2
    <3> QED BY <1>4, <3>1, WaitingIs
  <2>2. <<r, n + 1>> \notin MP!Waiting
    <3> SUFFICES ASSUME NEW s \in Nodes, NEW k \in DOMAIN queues[s], <<r, n + 1>> = <<s, k>>
                 PROVE  FALSE
      BY WaitingIs
    <3> QED BY <1>6
  <2> QED BY <2>1, <2>2
<1>13. /\ IsFiniteSet(MP!Waiting')
       /\ sent' = processed' + Len(mpPackets') + Cardinality(MP!Waiting')
  <2>1. /\ IsFiniteSet(MP!Waiting') /\ Cardinality(MP!Waiting) \in Nat
        /\ Cardinality(MP!Waiting') = Cardinality(MP!Waiting) + 1
    BY <1>2, <1>12, FS_AddElement, FS_CardinalityType
  <2> QED BY <1>1, <1>2, <1>3, <2>1 DEF MPType
<1> QED BY <1>1, <1>2, <1>10, <1>11, <1>13, MPInvIs

(* The nodes that process a message take one each. *)
LEMMA ProcessQueuesKeeps == ASSUME MPInv, MP!ProcessQueues PROVE MPInv'
<1> DEFINE B == MP!Busy
           c == msg_count
           X == {<<n, Len(queues[n])>> : n \in B}
<1>1. /\ queues' = [n \in Nodes |-> IF n \in B THEN Tail(queues[n]) ELSE <<>>]
      /\ last' = [n \in Nodes |-> IF n \in B THEN Head(queues[n]).id ELSE last[n]]
      /\ processed' = processed + Cardinality(B)
      /\ planned' = planned /\ msg_count' = c /\ sent' = sent
      /\ mpPackets' = mpPackets /\ mpResets' = mpResets
  BY MPCardinality DEF MP!ProcessQueues
<1>2. /\ MPType /\ MPOrder /\ c \in Nat /\ IsFiniteSet(MP!Waiting)
      /\ sent = processed + Len(mpPackets) + Cardinality(MP!Waiting)
      /\ c + planned <= MaxMessages
  BY MPInvIs, MPTyped
<1>3. \A n \in Nodes : (n \in B <=> queues[n] # <<>>) BY DEF MP!Busy
<1>4. B \subseteq Nodes /\ IsFiniteSet(B) /\ Cardinality(B) \in Nat
  BY SimulasiAssumption, FS_Subset, FS_CardinalityType DEF MP!Busy
<1> HIDE DEF B
<1>5. ASSUME NEW n \in B
      PROVE  /\ queues'[n] \in Seq(MPMessage(c)) /\ last'[n] = queues[n][1].id
             /\ 1 \in DOMAIN queues[n] /\ DOMAIN queues[n] = 1..Len(queues[n])
             /\ Len(queues[n]) \in Nat /\ Len(queues[n]) # 0
             /\ DOMAIN queues'[n] = 1..(Len(queues[n]) - 1)
             /\ \A j \in DOMAIN queues'[n] : /\ j + 1 \in DOMAIN queues[n] /\ j \in Nat /\ 1 < j + 1
                                             /\ queues'[n][j] = queues[n][j + 1]
  <2>1. queues[n] \in Seq(MPMessage(c)) /\ queues[n] # <<>> /\ n \in Nodes
    BY <1>3, <1>4, MPTyped
  <2>2. queues'[n] = Tail(queues[n]) /\ last'[n] = Head(queues[n]).id BY <1>1, <2>1
  <2>3. /\ Tail(queues[n]) \in Seq(MPMessage(c)) /\ Head(queues[n]) = queues[n][1]
        /\ Len(queues[n]) \in Nat /\ Len(queues[n]) # 0 /\ DOMAIN queues[n] = 1..Len(queues[n])
        /\ DOMAIN Tail(queues[n]) = 1..Len(Tail(queues[n]))
        /\ Len(Tail(queues[n])) = Len(queues[n]) - 1
        /\ \A j \in DOMAIN Tail(queues[n]) :
             j + 1 \in DOMAIN queues[n] /\ Tail(queues[n])[j] = queues[n][j + 1]
    BY <2>1, TailIs
  <2> QED BY <2>2, <2>3
<1>6. ASSUME NEW n \in Nodes, n \notin B
      PROVE  /\ queues'[n] = <<>> /\ queues[n] = <<>> /\ last'[n] = last[n]
             /\ DOMAIN queues[n] = {} /\ DOMAIN queues'[n] = {}
  BY <1>1, <1>3, <1>6
<1>7. MPType'
  <2>1. queues' \in [Nodes -> Seq(MPMessage(c))]
    <3>1. \A n \in Nodes : queues'[n] \in Seq(MPMessage(c)) BY <1>5, <1>6, EmptySeq
    <3> QED BY <1>1, <3>1
  <2>2. last' \in [Nodes -> 0..c]
    <3>1. \A n \in Nodes : last'[n] \in 0..c
      <4> SUFFICES ASSUME NEW n \in Nodes PROVE last'[n] \in 0..c OBVIOUS
      <4>1. CASE n \in B
        <5>1. queues[n][1].id \in 1..c /\ last'[n] = queues[n][1].id BY <1>5, <4>1, MPTyped
        <5> QED BY <1>2, <5>1
      <4>2. CASE n \notin B BY <1>6, <4>2, MPTyped
      <4> QED BY <4>1, <4>2
    <3> QED BY <1>1, <3>1
  <2>3. processed' \in Nat BY <1>1, <1>2, <1>4 DEF MPType
  <2> QED BY <1>1, <1>2, <2>1, <2>2, <2>3 DEF MPType
<1>8. ASSUME NEW n \in Nodes
      PROVE  /\ MP!Increasing(queues'[n])
             /\ \A j \in DOMAIN queues'[n] : last'[n] < queues'[n][j].id
             /\ \A k \in DOMAIN mpPackets : mpPackets[k].to = n =>
                  /\ last'[n] < mpPackets[k].id
                  /\ \A j \in DOMAIN queues'[n] : queues'[n][j].id < mpPackets[k].id
  <2>1. CASE n \in B
    <3>1. MP!Increasing(queues[n]) BY <1>2 DEF MPOrder
    <3>2. MP!Increasing(queues'[n])
      <4> SUFFICES ASSUME NEW j \in DOMAIN queues'[n], NEW k \in DOMAIN queues'[n], j < k
                   PROVE  queues'[n][j].id < queues'[n][k].id
        BY DEF MP!Increasing
      <4>1. /\ j + 1 \in DOMAIN queues[n] /\ k + 1 \in DOMAIN queues[n] /\ j + 1 < k + 1
            /\ queues'[n][j] = queues[n][j + 1] /\ queues'[n][k] = queues[n][k + 1]
        BY <1>5, <2>1
      <4> QED BY <3>1, <4>1 DEF MP!Increasing
    <3>3. \A j \in DOMAIN queues'[n] : last'[n] < queues'[n][j].id
      BY <1>5, <2>1, <3>1 DEF MP!Increasing
    <3>4. ASSUME NEW k \in DOMAIN mpPackets, mpPackets[k].to = n
          PROVE  /\ last'[n] < mpPackets[k].id
                 /\ \A j \in DOMAIN queues'[n] : queues'[n][j].id < mpPackets[k].id
      BY <1>2, <1>5, <2>1, <3>4 DEF MPOrder
    <3> QED BY <3>2, <3>3, <3>4
  <2>2. CASE n \notin B BY <1>2, <1>6, <2>2 DEF MPOrder, MP!Increasing
  <2> QED BY <2>1, <2>2
<1>9. MPOrder' BY <1>1, <1>2, <1>8 DEF MPOrder
<1>10. MP!Waiting' = MP!Waiting \ X /\ X \subseteq MP!Waiting
  <2>1. ASSUME NEW w \in X PROVE w \in MP!Waiting
    <3>1. PICK n \in B : w = <<n, Len(queues[n])>> OBVIOUS
    <3>2. n \in Nodes /\ Len(queues[n]) \in DOMAIN queues[n] BY <1>4, <1>5
    <3> QED BY <3>1, <3>2, WaitingIs
  <2>2. ASSUME NEW n \in Nodes, NEW k
        PROVE  k \in DOMAIN queues'[n] <=> k \in DOMAIN queues[n] /\ <<n, k>> \notin X
    <3>1. CASE n \in B
      <4>1. <<n, k>> \in X <=> k = Len(queues[n]) BY <3>1
      <4> QED BY <1>5, <3>1, <4>1
    <3>2. CASE n \notin B BY <1>6, <3>2
    <3> QED BY <3>1, <3>2
  <2>3. ASSUME NEW w PROVE w \in MP!Waiting' <=> w \in MP!Waiting \ X
    BY <2>2, WaitingIs
  <2> QED BY <2>1, <2>3
<1>11. IsFiniteSet(X) /\ Cardinality(X) = Cardinality(B)
  <2> DEFINE f == [n \in B |-> <<n, Len(queues[n])>>]
  <2>1. f \in Bijection(B, X)
    <3>1. f \in [B -> X] OBVIOUS
    <3>2. \A m, n \in B : f[m] = f[n] => m = n OBVIOUS
    <3>3. \A w \in X : \E n \in B : f[n] = w OBVIOUS
    <3> QED BY <3>1, <3>2, <3>3 DEF Bijection, Injection, Surjection, IsInjective
  <2> QED BY <1>4, <2>1, FS_Bijection DEF ExistsBijection
<1> HIDE DEF X
<1>12. /\ IsFiniteSet(MP!Waiting')
       /\ sent' = processed' + Len(mpPackets') + Cardinality(MP!Waiting')
  <2>1. MP!Waiting \cap X = X BY <1>10
  <2>2. /\ IsFiniteSet(MP!Waiting')
        /\ Cardinality(MP!Waiting') = Cardinality(MP!Waiting) - Cardinality(B)
    <3>1. /\ IsFiniteSet(MP!Waiting \ X)
          /\ Cardinality(MP!Waiting \ X) = Cardinality(MP!Waiting) - Cardinality(MP!Waiting \cap X)
      BY <1>2, FS_Difference
    <3> QED BY <1>10, <1>11, <2>1, <3>1
  <2>3. Cardinality(MP!Waiting) \in Nat BY <1>2, FS_CardinalityType
  <2>4. Len(mpPackets) \in Nat /\ processed \in Nat BY <1>2, LenProperties DEF MPType
  <2> QED BY <1>1, <1>2, <1>4, <2>2, <2>3, <2>4
<1> QED BY <1>1, <1>2, <1>7, <1>9, <1>12, MPInvIs

LEMMA MPResetKeeps == ASSUME MPInv, MP!Reset PROVE MPInv'
<1>1. /\ mpResets < MaxResets /\ mpResets' = mpResets + 1
      /\ mpPackets' = <<>> /\ queues' = [n \in Nodes |-> <<>>]
      /\ sent' = 0 /\ processed' = 0
      /\ planned' = planned /\ msg_count' = msg_count /\ last' = last
  BY DEF MP!Reset
<1>2. /\ DOMAIN mpPackets' = {} /\ Len(mpPackets') = 0
      /\ \A n \in Nodes : queues'[n] = <<>> /\ DOMAIN queues'[n] = {}
  BY <1>1
<1>3. MPType /\ msg_count + planned <= MaxMessages BY MPInvIs
<1>4. MPType'
  <2>1. mpPackets' \in Seq(MPPacket(msg_count)) /\ <<>> \in Seq(MPMessage(msg_count))
    BY <1>1, EmptySeq
  <2>2. queues' \in [Nodes -> Seq(MPMessage(msg_count))] BY <1>1, <2>1
  <2>3. mpResets' \in 0..MaxResets BY <1>1, <1>3, Bounds DEF MPType
  <2> QED BY <1>1, <1>3, <2>1, <2>2, <2>3 DEF MPType
<1>5. MPOrder' BY <1>2 DEF MPOrder, MP!Increasing
<1>6. MP!Waiting' = {} BY <1>2, WaitingIs
<1> QED BY <1>1, <1>2, <1>3, <1>4, <1>5, <1>6, FS_EmptySet, MPInvIs

LEMMA MPUnchanged == ASSUME MPInv, UNCHANGED mpVars PROVE MPInv'
  BY MPInvIs DEF mpVars, MPType, MPOrder, MP!Waiting

LEMMA MPKeeps == MPInv /\ MP!Next => MPInv'
  BY SendMsgKeeps, SendPlannedKeeps, SendRandomKeeps, EnqueueKeeps, ProcessQueuesKeeps,
     MPResetKeeps
     DEF MP!Next

-----------------------------------------------------------------------------
(***************************************************************************)
(* The three tabs in one event loop.                                       *)
(***************************************************************************)

IInv == RRInv /\ PSInv /\ MPInv

LEMMA Inductive == Spec => []IInv
<1>1. Init => IInv BY RRStarts, PSStarts, MPStarts DEF Init, IInv
<1>2. IInv /\ [Next]_vars => IInv'
  <2> SUFFICES ASSUME IInv, [Next]_vars PROVE IInv' OBVIOUS
  <2>1. RRInv /\ PSInv /\ MPInv BY DEF IInv
  <2>2. CASE RR!Next /\ UNCHANGED <<tab, psVars, mpVars>>
    BY <2>1, <2>2, RRKeeps, PSUnchanged, MPUnchanged DEF IInv
  <2>3. CASE PS!Next /\ UNCHANGED <<tab, rrVars, mpVars>>
    BY <2>1, <2>3, PSKeeps, RRUnchanged, MPUnchanged DEF IInv
  <2>4. CASE MP!Next /\ UNCHANGED <<tab, rrVars, psVars>>
    BY <2>1, <2>4, MPKeeps, RRUnchanged, PSUnchanged DEF IInv
  <2>5. CASE UNCHANGED vars
    BY <2>1, <2>5, RRUnchanged, PSUnchanged, MPUnchanged DEF IInv, vars
  <2> QED BY <2>2, <2>3, <2>4, <2>5 DEF Next
<1> QED BY <1>1, <1>2, PTL DEF Spec

(* Every variable of the three tabs holds values of the kind the code gives *)
(* it, in any order of the user's actions and the timers.                  *)
THEOREM TypeCorrect == Spec => []TypeOK
<1>1. IInv => TypeOK BY DEF IInv, RRInv, PSInv, MPInv, TypeOK
<1> QED BY <1>1, Inductive, PTL

(* RequestResponseTab: the client is blocked while its request is under    *)
(* way and has no other one, but for those a reset left with the server;   *)
(* none is lost or counted twice.                                          *)
THEOREM BlockingClient == Spec => []OneAtATime
<1>1. IInv => OneAtATime BY DEF IInv, RRInv, OneAtATime
<1> QED BY <1>1, Inductive, PTL

(* PubSubTab: each subscriber of a topic is notified of a publication once *)
(* and in the order of publication, others never; MessagePassingTab: a     *)
(* node processes its messages in the order they were sent in; and only a  *)
(* reset loses any.                                                        *)
THEOREM Delivery == Spec => []DeliveredInOrder
<1>1. IInv => DeliveredInOrder BY Once DEF IInv, MPInv, DeliveredInOrder
<1> QED BY <1>1, Inductive, PTL
=============================================================================
