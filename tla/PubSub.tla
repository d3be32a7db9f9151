------------------------------- MODULE PubSub -------------------------------
(***************************************************************************)
(* PubSubTab of simulasi_komunikasi.py: the broker notifies a topic's      *)
(* subscribers one after the other, 180 ms apart.  As in RequestResponse,  *)
(* packets arrive in the order they were made in and a reset does not      *)
(* forget the timers.  Timers fire in the order of their deadlines.        *)
(***************************************************************************)
EXTENDS Naturals, Sequences, FiniteSets

CONSTANTS
  Topics,     \* bound: those of TOPICS the user publishes to
  MaxPubs,    \* bound: publications
  MaxResets   \* bound: resets

VARIABLES
  published,  \* the topic of each publication, _pub_count of them
  packets,    \* [pub, sub]: a publication on its way to the broker (sub = 0)
              \* or to a subscriber
  timers,     \* [pub, sub, slot]: a _notify_sub that is due 180 * slot ms
              \* after the broker received pub
  notif_count,
  \* Recorded for the properties:
  received,   \* subscriber -> the publications it was notified of
  resets,     \* how many there were
  before      \* the number of publications at the last one

vars == <<published, packets, timers, notif_count, received, resets, before>>

Broker == 0

SUBS == << {"cuaca", "berita"}, {"saham", "olahraga"}, {"cuaca", "saham"}, {"berita"} >>

Subscribers(p) == {i \in DOMAIN SUBS : published[p] \in SUBS[i]}

Init ==
  /\ published = <<>> /\ packets = <<>> /\ timers = {} /\ notif_count = 0
  /\ received = [i \in DOMAIN SUBS |-> <<>>]
  /\ resets = 0 /\ before = 0

Publish(topic) ==
  /\ Len(published) < MaxPubs
  /\ published' = Append(published, topic)
  /\ packets' = Append(packets, [pub |-> Len(published) + 1, sub |-> Broker])
  /\ UNCHANGED <<timers, notif_count, received, resets, before>>

(* How many of p's subscribers stand before i in SUBS. *)
Slot(p, i) == Cardinality({j \in Subscribers(p) : j < i})

BrokerReceive ==
  /\ packets # <<>> /\ Head(packets).sub = Broker
  /\ LET p == Head(packets).pub IN
       timers' = timers \cup {[pub |-> p, sub |-> i, slot |-> Slot(p, i)] : i \in Subscribers(p)}
  /\ packets' = Tail(packets)
  /\ UNCHANGED <<published, notif_count, received, resets, before>>

(* Publications reach the broker in their order, so u's deadline is not    *)
(* after t's.                                                              *)
DueBefore(u, t) == u # t /\ u.pub <= t.pub /\ u.slot <= t.slot

(* Faulty: forgets which timer is due first. *)
NotifySub_AnyTimer(t) ==
  /\ t \in timers
  /\ timers' = timers \ {t}
  /\ packets' = Append(packets, [pub |-> t.pub, sub |-> t.sub])
  /\ UNCHANGED <<published, notif_count, received, resets, before>>

NotifySub(t) ==
  /\ t \in timers /\ \A u \in timers : ~DueBefore(u, t)
  /\ timers' = timers \ {t}
  /\ packets' = Append(packets, [pub |-> t.pub, sub |-> t.sub])
  /\ UNCHANGED <<published, notif_count, received, resets, before>>

SubReceive ==
  /\ packets # <<>> /\ Head(packets).sub # Broker
  /\ LET m == Head(packets) IN received' = [received EXCEPT ![m.sub] = Append(@, m.pub)]
  /\ notif_count' = notif_count + 1
  /\ packets' = Tail(packets)
  /\ UNCHANGED <<published, timers, resets, before>>

Reset ==
  /\ resets < MaxResets /\ resets' = resets + 1
  /\ packets' = <<>> /\ notif_count' = 0
  /\ before' = Len(published)
  /\ UNCHANGED <<published, timers, received>>

Arrive == BrokerReceive \/ SubReceive

Next ==
  \/ \E topic \in Topics : Publish(topic)
  \/ Arrive
  \/ \E t \in timers : NotifySub(t)
  \/ Reset

-----------------------------------------------------------------------------
(* Properties.                                                             *)

(* Every variable holds values of the kind the code gives it. *)
TypeOK ==
  /\ published \in Seq(Topics) /\ Len(published) <= MaxPubs
  /\ LET Pub == 1..Len(published) IN
       /\ packets \in Seq([pub : Pub, sub : {Broker} \cup DOMAIN SUBS])
       /\ timers \subseteq [pub : Pub, sub : DOMAIN SUBS, slot : 0..Len(SUBS)]
       /\ \A i \in DOMAIN SUBS : received[i] \in Seq(Pub)
  /\ notif_count \in Nat
  /\ resets \in 0..MaxResets /\ before \in 0..Len(published)

(* The notifications of p for subscriber i: due, on their way, or received. *)
Notifications(p, i) ==
  Cardinality({t \in timers : t.pub = p /\ t.sub = i})
  + Cardinality({k \in DOMAIN packets : packets[k] = [pub |-> p, sub |-> i]})
  + Cardinality({k \in DOMAIN received[i] : received[i][k] = p})

ToBroker(p) == \E k \in DOMAIN packets : packets[k] = [pub |-> p, sub |-> Broker]

(* "diteruskan HANYA ke subscriber yang berlangganan": a subscriber is     *)
(* notified of a publication once, others never, and only a reset loses    *)
(* one.  Every subscriber is notified in the order of publication: it has  *)
(* the same place among the subscribers of each of its topics.             *)
NotifiedOnceInOrder ==
  \A i \in DOMAIN SUBS :
    /\ \A p \in DOMAIN published :
         /\ Notifications(p, i) <= (IF i \in Subscribers(p) THEN 1 ELSE 0)
         /\ p > before /\ i \in Subscribers(p) => ToBroker(p) \/ Notifications(p, i) = 1
    /\ \A j, k \in DOMAIN received[i] : j < k => received[i][j] < received[i][k]
=============================================================================
