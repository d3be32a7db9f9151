----------------------------- MODULE PBFTProofs -----------------------------
(***************************************************************************)
(* Theorems about PBFT for any nodes, requests and faults: type            *)
(* correctness, that what is executed is backed, and, where n = 3f + 1,    *)
(* agreement.  And about PBFT on the message bus, for any channel size:    *)
(* nodes on the bus behave as PBFT allows, so that what is proved of an    *)
(* unordered, lossy network holds on the bus; and requests are executed in *)
(* the order of their numbers as long as no channel is full.               *)
(***************************************************************************)
EXTENDS PBFTOnBus, FiniteSetTheorems, SequenceTheorems, TLAPS

Numbers == 1..MaxSeq

(***************************************************************************)
(* The inductive invariant, in its parts.                                  *)
(***************************************************************************)

(* A correct primary has no entry it has not numbered. *)
Unnumbered ==
  Primary \in Correct => \A s \in Numbers : s > seq_num => log[Primary][s] = NoEntry

(* What a correct primary did not propose is in no log. *)
Proposed ==
  \A n \in Correct, s \in Numbers :
    Primary \in Correct /\ log[n][s] # NoEntry =>
      <<"PRE-PREPARE", s, log[n][s].digest>> \in sent[Primary]

(* A vote in a log was cast, for the digest of that log. *)
VotesCast ==
  \A n \in Correct, s \in Numbers : log[n][s] # NoEntry =>
    /\ \A p \in log[n][s].prepares : Arrives("PREPARE", p, s, log[n][s].digest)
    /\ \A p \in log[n][s].commits : Arrives("COMMIT", p, s, log[n][s].digest)

(* A replica has prepared what is in its log. *)
OwnPrepare ==
  \A n \in Correct \ {Primary}, s \in Numbers :
    log[n][s] # NoEntry => n \in log[n][s].prepares

(* A correct node casts one COMMIT for a number, and when it is prepared. *)
CommitsOnce ==
  \A n \in Correct, s \in Numbers, r \in Request : <<"COMMIT", s, r>> \in sent[n] =>
    log[n][s] # NoEntry /\ log[n][s].digest = r /\ Prepared(log[n][s].prepares)

CommittedByQuorum ==
  \A n \in Correct, s \in Numbers :
    log[n][s] # NoEntry /\ log[n][s].committed => Quorum(log[n][s].commits)

Votes == Proposed /\ OwnPrepare /\ VotesCast /\ CommitsOnce /\ CommittedByQuorum

IInv == TypeOK /\ faulty \in Faults /\ Unnumbered /\ Votes

-----------------------------------------------------------------------------
(* Sizes.                                                                  *)

LEMMA Sizes ==
  /\ Cardinality(Node) \in Nat /\ Cardinality(Node) >= 1 /\ f \in Nat
  /\ \A S \in SUBSET Node : IsFiniteSet(S) /\ Cardinality(S) \in Nat
<1>1. IsFiniteSet(Node) /\ Primary \in Node BY PBFTAssumption
<1>2. Cardinality(Node) \in Nat BY <1>1, FS_CardinalityType
<1>3. Cardinality(Node) # 0 BY <1>1, FS_EmptySet
<1>4. f \in Nat BY <1>2, <1>3, SMT DEF f
<1>5. \A S \in SUBSET Node : IsFiniteSet(S) BY <1>1, FS_Subset
<1> QED BY <1>2, <1>3, <1>4, <1>5, FS_CardinalityType, SMT

LEMMA PreparedGrows ==
  ASSUME NEW S \in SUBSET Node, NEW T \in SUBSET Node, S \subseteq T, Prepared(S)
  PROVE  Prepared(T)
<1>1. IsFiniteSet(T) /\ Cardinality(T) \in Nat /\ Cardinality(S) \in Nat BY Sizes
<1>2. Cardinality(S) <= Cardinality(T) BY <1>1, FS_Subset
<1> QED BY <1>1, <1>2, Sizes, SMT DEF Prepared

LEMMA QuorumGrows ==
  ASSUME NEW S \in SUBSET Node, NEW T \in SUBSET Node, S \subseteq T, Quorum(S)
  PROVE  Quorum(T)
<1>1. IsFiniteSet(T) /\ Cardinality(T) \in Nat /\ Cardinality(S) \in Nat BY Sizes
<1>2. Cardinality(S) <= Cardinality(T) BY <1>1, FS_Subset
<1> QED BY <1>1, <1>2, Sizes, SMT DEF Quorum

(* More votes than there are faulty nodes hold a correct one. *)
LEMMA OneCorrect ==
  ASSUME faulty \in Faults, NEW S \in SUBSET Node, Cardinality(S) > f
  PROVE  \E p \in S : p \in Correct
<1>1. SUFFICES ASSUME S \subseteq faulty PROVE FALSE BY DEF Correct
<1>2. faulty \subseteq Node /\ Cardinality(faulty) <= f BY PBFTAssumption
<1>3. IsFiniteSet(faulty) /\ Cardinality(faulty) \in Nat /\ Cardinality(S) \in Nat
  BY <1>2, Sizes
<1>4. Cardinality(S) <= Cardinality(faulty) BY <1>1, <1>3, FS_Subset
<1> QED BY <1>2, <1>3, <1>4, Sizes, SMT

(* Two quorums of 3f + 1 nodes share a correct one. *)
LEMMA QuorumsMeet ==
  ASSUME faulty \in Faults, Cardinality(Node) = 3 * f + 1,
         NEW S \in SUBSET Node, NEW T \in SUBSET Node, Quorum(S), Quorum(T)
  PROVE  \E p \in S \cap T : p \in Correct
<1>1. /\ IsFiniteSet(S) /\ IsFiniteSet(T) /\ IsFiniteSet(Node)
      /\ Cardinality(S) \in Nat /\ Cardinality(T) \in Nat
      /\ Cardinality(S \cap T) \in Nat /\ Cardinality(S \cup T) \in Nat
  BY Sizes, PBFTAssumption
<1>2. Cardinality(S \cup T) = Cardinality(S) + Cardinality(T) - Cardinality(S \cap T)
  BY <1>1, FS_Union
<1>3. Cardinality(S \cup T) <= Cardinality(Node)
  <2>1. S \cup T \subseteq Node OBVIOUS
  <2> QED BY <1>1, <2>1, FS_Subset
<1>4. Cardinality(S \cap T) > f BY <1>1, <1>2, <1>3, Sizes, SMT DEF Quorum
<1>5. S \cap T \in SUBSET Node OBVIOUS
<1> QED BY <1>4, <1>5, OneCorrect

-----------------------------------------------------------------------------
(* The steps.                                                              *)

LEMMA EntryOK ==
  /\ \A r \in Request : NewEntry(r) \in Entries
  /\ \A e \in Entries : e # NoEntry /\ e.digest # "none"
<1>1. \A r \in Request : NewEntry(r) \in Entries BY DEF NewEntry, Entries
<1>2. \A e \in Entries : e.digest \in Request BY DEF Entries
<1>3. "none" \notin Request BY PBFTAssumption
<1>4. NoEntry.digest = "none" BY DEF NoEntry
<1>5. \A e \in Entries : e # NoEntry /\ e.digest # "none" BY <1>2, <1>3, <1>4, Zenon
<1> QED BY <1>1, <1>5

(* What a handler of n may do to its entry for s and to what it sent, so   *)
(* that the votes stay cast.                                               *)
Handles(n, s, e) ==
  /\ SetEntry(n, s, e) /\ faulty' = faulty
  /\ \A p \in Node : sent[p] \subseteq sent'[p] /\ (p # n => sent'[p] = sent[p])
  /\ \A t \in Numbers, q \in Request :
       <<"COMMIT", t, q>> \in sent'[n] =>
         <<"COMMIT", t, q>> \in sent[n] \/ (t = s /\ q = e.digest /\ Prepared(e.prepares))
  /\ log[n][s] # NoEntry =>
       e.digest = log[n][s].digest /\ log[n][s].prepares \subseteq e.prepares
  /\ n # Primary => n \in e.prepares
  /\ Primary \in Correct => <<"PRE-PREPARE", s, e.digest>> \in sent'[Primary]
  /\ \A p \in e.prepares : p \in faulty' \/ <<"PREPARE", s, e.digest>> \in sent'[p]
  /\ \A p \in e.commits : p \in faulty' \/ <<"COMMIT", s, e.digest>> \in sent'[p]
  /\ e.committed => Quorum(e.commits)

LEMMA HandlesKeepsVotes ==
  ASSUME TypeOK, Votes, NEW n \in Correct, NEW s \in Numbers, NEW e \in Entries,
         Handles(n, s, e)
  PROVE  Votes'
<1>0. n \in Node /\ Correct' = Correct BY DEF Correct, Handles
<1>1. /\ log'[n][s] = e
      /\ \A m \in Correct, t \in Numbers : (m # n \/ t # s) => log'[m][t] = log[m][t]
  <2>1. log \in [Node -> [Numbers -> Entries \cup {NoEntry}]] BY DEF TypeOK, Numbers
  <2>2. log' = [log EXCEPT ![n][s] = e] BY DEF Handles, SetEntry
  <2>3. \A m \in Correct : m \in Node BY DEF Correct
  <2> QED BY <1>0, <2>1, <2>2, <2>3
<1>2. \A p \in Node : sent[p] \subseteq sent'[p] /\ (p # n => sent'[p] = sent[p])
  BY DEF Handles
<1>3. \A ph, p, t, r : p \in Node /\ Arrives(ph, p, t, r) => Arrives(ph, p, t, r)'
  <2>1. faulty' = faulty BY DEF Handles
  <2> QED BY <2>1, <1>2 DEF Arrives
<1>4. e # NoEntry BY EntryOK DEF Entries
<1>5. \A m \in Correct, t \in Numbers : log[m][t] # NoEntry => log[m][t] \in Entries
  BY DEF TypeOK, Numbers, Correct
<1>6. \A d \in Entries : d.prepares \subseteq Node /\ d.commits \subseteq Node BY DEF Entries
<1>7. Proposed'
  <2> SUFFICES ASSUME NEW m \in Correct, NEW t \in Numbers, Primary \in Correct,
                      log'[m][t] # NoEntry
               PROVE  <<"PRE-PREPARE", t, log'[m][t].digest>> \in sent'[Primary]
    BY <1>0 DEF Proposed
  <2>1. CASE m = n /\ t = s BY <2>1, <1>1 DEF Handles
  <2>2. CASE m # n \/ t # s
    <3>1. log'[m][t] = log[m][t] BY <2>2, <1>1
    <3>2. <<"PRE-PREPARE", t, log[m][t].digest>> \in sent[Primary]
      BY <3>1 DEF Votes, Proposed
    <3> QED BY <3>1, <3>2, <1>2 DEF Correct
  <2> QED BY <2>1, <2>2
<1>8. VotesCast'
  <2> DEFINE Cast(ph, p, t, r) == p \in faulty' \/ <<ph, t, r>> \in sent'[p]
  <2>0. \A ph, p, t, r : Arrives(ph, p, t, r)' <=> Cast(ph, p, t, r) BY DEF Arrives
  <2> SUFFICES ASSUME NEW m \in Correct, NEW t \in Numbers, log'[m][t] # NoEntry
               PROVE  /\ \A p \in log'[m][t].prepares : Cast("PREPARE", p, t, log'[m][t].digest)
                      /\ \A p \in log'[m][t].commits : Cast("COMMIT", p, t, log'[m][t].digest)
    BY <1>0 DEF VotesCast, Arrives
  <2>1. CASE m = n /\ t = s
    <3>1. /\ \A p \in e.prepares : Cast("PREPARE", p, s, e.digest)
          /\ \A p \in e.commits : Cast("COMMIT", p, s, e.digest)
      BY DEF Handles
    <3> QED BY <2>1, <3>1, <1>1
  <2>2. CASE m # n \/ t # s
    <3>1. log'[m][t] = log[m][t] /\ log[m][t] \in Entries BY <2>2, <1>1, <1>5
    <3>2. /\ \A p \in log[m][t].prepares : Arrives("PREPARE", p, t, log[m][t].digest)
          /\ \A p \in log[m][t].commits : Arrives("COMMIT", p, t, log[m][t].digest)
      BY <3>1 DEF Votes, VotesCast
    <3>3. /\ \A p \in log[m][t].prepares : Cast("PREPARE", p, t, log[m][t].digest)
          /\ \A p \in log[m][t].commits : Cast("COMMIT", p, t, log[m][t].digest)
      BY <3>1, <3>2, <2>0, <1>3, <1>6
    <3> QED BY <3>1, <3>3
  <2> QED BY <2>1, <2>2
<1>9. CommitsOnce'
  <2> SUFFICES ASSUME NEW m \in Correct, NEW t \in Numbers, NEW r \in Request,
                      <<"COMMIT", t, r>> \in sent'[m]
               PROVE  log'[m][t] # NoEntry /\ log'[m][t].digest = r
                      /\ Prepared(log'[m][t].prepares)
    BY <1>0 DEF CommitsOnce, Prepared, f
  <2>1. CASE <<"COMMIT", t, r>> \in sent[m]
    <3>1. /\ log[m][t] # NoEntry /\ log[m][t].digest = r
          /\ Prepared(log[m][t].prepares)
      BY <2>1 DEF Votes, CommitsOnce
    <3>2. CASE m = n /\ t = s
      <4>1. log'[m][t] = e /\ e.digest = r /\ log[m][t].prepares \subseteq e.prepares
        BY <3>1, <3>2, <1>1 DEF Handles
      <4>2. log[m][t].prepares \in SUBSET Node /\ e.prepares \in SUBSET Node
        BY <3>1, <1>5, <1>6
      <4>3. Prepared(e.prepares) BY <3>1, <4>1, <4>2, PreparedGrows
      <4> QED BY <4>1, <4>3, <1>4
    <3>3. CASE m # n \/ t # s
      <4>1. log'[m][t] = log[m][t] BY <3>3, <1>1
      <4> QED BY <3>1, <4>1
    <3> QED BY <3>2, <3>3
  <2>2. CASE <<"COMMIT", t, r>> \notin sent[m]
    <3>1. m = n BY <2>2, <1>2 DEF Correct
    <3>2. t = s /\ r = e.digest /\ Prepared(e.prepares) BY <2>2, <3>1 DEF Handles
    <3> QED BY <3>1, <3>2, <1>1, <1>4
  <2> QED BY <2>1, <2>2
<1>10. CommittedByQuorum'
  <2> SUFFICES ASSUME NEW m \in Correct, NEW t \in Numbers,
                      log'[m][t] # NoEntry, log'[m][t].committed
               PROVE  Quorum(log'[m][t].commits)
    BY <1>0 DEF CommittedByQuorum, Quorum, f
  <2>1. CASE m = n /\ t = s BY <2>1, <1>1 DEF Handles
  <2>2. CASE m # n \/ t # s
    <3>1. log'[m][t] = log[m][t] BY <2>2, <1>1
    <3> QED BY <3>1 DEF Votes, CommittedByQuorum
  <2> QED BY <2>1, <2>2
<1>11. OwnPrepare'
  <2> SUFFICES ASSUME NEW m \in Correct \ {Primary}, NEW t \in Numbers, log'[m][t] # NoEntry
               PROVE  m \in log'[m][t].prepares
    BY <1>0 DEF OwnPrepare
  <2>1. CASE m = n /\ t = s BY <2>1, <1>1 DEF Handles
  <2>2. CASE m # n \/ t # s
    <3>1. log'[m][t] = log[m][t] BY <2>2, <1>1
    <3> QED BY <3>1 DEF Votes, OwnPrepare
  <2> QED BY <2>1, <2>2
<1> QED BY <1>7, <1>8, <1>9, <1>10, <1>11 DEF Votes

LEMMA BroadcastGrows ==
  ASSUME TypeOK, NEW n \in Correct, NEW ph \in {"PRE-PREPARE", "PREPARE", "COMMIT"},
         NEW s \in Numbers, NEW r \in Request, Broadcast(n, ph, s, r)
  PROVE  /\ sent' \in [Node -> SUBSET Messages]
         /\ sent'[n] = sent[n] \cup {<<ph, s, r>>}
         /\ \A p \in Node : sent[p] \subseteq sent'[p] /\ (p # n => sent'[p] = sent[p])
<1>1. sent \in [Node -> SUBSET Messages] /\ n \in Node BY DEF TypeOK, Correct
<1>2. <<ph, s, r>> \in Messages BY DEF Messages, Numbers
<1>3. sent' = [sent EXCEPT ![n] = @ \cup {<<ph, s, r>>}] BY DEF Broadcast
<1> QED BY <1>1, <1>2, <1>3

LEMMA SetEntryType ==
  ASSUME TypeOK, NEW n \in Correct, NEW s \in Numbers, NEW e \in Entries, SetEntry(n, s, e)
  PROVE  log' \in [Node -> [Numbers -> Entries \cup {NoEntry}]]
<1>1. log \in [Node -> [Numbers -> Entries \cup {NoEntry}]] BY DEF TypeOK, Numbers
<1>2. log' = [log EXCEPT ![n][s] = e] BY DEF SetEntry
<1> QED BY <1>1, <1>2

(* The entry of a node that has one for s, and its votes. *)
LEMMA EntryOf ==
  ASSUME TypeOK, NEW n \in Correct, NEW s \in Numbers
  PROVE  /\ n \in Node
         /\ log[n][s] # NoEntry => log[n][s] \in Entries
         /\ \A r \in Request : log[n][s].digest = r => log[n][s] # NoEntry
<1>1. n \in Node BY DEF Correct
<1>2. log[n][s] \in Entries \cup {NoEntry} BY <1>1 DEF TypeOK, Numbers
<1>3. NoEntry.digest = "none" /\ "none" \notin Request BY PBFTAssumption DEF NoEntry
<1> QED BY <1>1, <1>2, <1>3

(* A step keeps the invariant when it handles one entry. *)
LEMMA HandlesKeeps ==
  ASSUME IInv, NEW n \in Correct, NEW s \in Numbers, NEW e \in Entries, Handles(n, s, e),
         sent' \in [Node -> SUBSET Messages],
         seq_num' \in 0..MaxSeq, seq_num' >= seq_num, n = Primary => s <= seq_num'
  PROVE  IInv'
<1>1. TypeOK /\ Votes BY DEF IInv
<1>2. faulty' = faulty /\ SetEntry(n, s, e) /\ Correct' = Correct BY DEF Handles, Correct
<1>3. log' \in [Node -> [Numbers -> Entries \cup {NoEntry}]] BY <1>1, <1>2, SetEntryType
<1>4. TypeOK' BY <1>1, <1>2, <1>3 DEF TypeOK, Numbers
<1>5. Votes' BY <1>1, HandlesKeepsVotes
<1>6. Unnumbered'
  <2> SUFFICES ASSUME Primary \in Correct, NEW t \in Numbers, t > seq_num'
               PROVE  log'[Primary][t] = NoEntry
    BY <1>2 DEF Unnumbered
  <2>1. seq_num \in Int /\ seq_num' \in Int /\ t \in Int /\ s \in Int
    BY <1>1 DEF TypeOK, Numbers
  <2>2. t > seq_num BY <2>1
  <2>3. log[Primary][t] = NoEntry BY <2>2 DEF IInv, Unnumbered
  <2>4. n # Primary \/ t # s BY <2>1
  <2>5. log \in [Node -> [Numbers -> Entries \cup {NoEntry}]] /\ n \in Node /\ Primary \in Node
    BY <1>1 DEF TypeOK, Numbers, Correct
  <2>6. log' = [log EXCEPT ![n][s] = e] BY <1>2 DEF SetEntry
  <2> QED BY <2>3, <2>4, <2>5, <2>6
<1>7. (faulty \in Faults)' BY <1>2 DEF IInv
<1> QED BY <1>4, <1>5, <1>6, <1>7 DEF IInv

LEMMA SubmitKeeps ==
  ASSUME IInv, NEW r \in Request, Submit(r)
  PROVE  IInv'
<1> DEFINE s == seq_num + 1
           e == NewEntry(r)
<1>1. /\ TypeOK /\ Primary \in Correct /\ s \in Numbers
      /\ seq_num' = s /\ seq_num' \in 0..MaxSeq /\ seq_num' >= seq_num
  BY PBFTAssumption DEF IInv, TypeOK, Submit, Numbers
<1>2. e \in Entries /\ e.digest = r /\ e.prepares = {} /\ e.commits = {} /\ e.committed = FALSE
  BY EntryOK DEF NewEntry
<1>3. SetEntry(Primary, s, e) /\ Broadcast(Primary, "PRE-PREPARE", s, r) /\ faulty' = faulty
  BY DEF Submit
<1> HIDE DEF e
<1>4. /\ sent' \in [Node -> SUBSET Messages]
      /\ sent'[Primary] = sent[Primary] \cup {<<"PRE-PREPARE", s, r>>}
      /\ \A p \in Node : sent[p] \subseteq sent'[p] /\ (p # Primary => sent'[p] = sent[p])
  BY <1>1, <1>3, BroadcastGrows
<1>5. log[Primary][s] = NoEntry BY <1>1 DEF IInv, TypeOK, Unnumbered
<1>6. Handles(Primary, s, e) BY <1>2, <1>3, <1>4, <1>5 DEF Handles
<1> QED BY <1>1, <1>2, <1>4, <1>6, HandlesKeeps

LEMMA OnPrePrepareKeeps ==
  ASSUME IInv, NEW n \in Correct, NEW p \in Node \ {n}, NEW s \in Numbers, NEW r \in Request,
         OnPrePrepare(n, p, s, r)
  PROVE  IInv'
<1> DEFINE d == IF log[n][s] = NoEntry THEN NewEntry(r) ELSE log[n][s]
           e == [d EXCEPT !.prepares = @ \cup {n}]
<1>1. TypeOK /\ n \in Node /\ n # Primary /\ p = Primary /\ (log[n][s] # NoEntry => log[n][s] \in Entries)
  BY EntryOf DEF IInv, OnPrePrepare, MayPropose
<1>2. d \in Entries BY <1>1, EntryOK
<1>3. log[n][s] = NoEntry =>
        d.digest = r /\ d.prepares = {} /\ d.commits = {} /\ d.committed = FALSE
  BY DEF NewEntry
<1>4. SetEntry(n, s, e) /\ Broadcast(n, "PREPARE", s, r) /\ faulty' = faulty /\ seq_num' = seq_num
  BY DEF OnPrePrepare
<1>5. log[n][s] # NoEntry => d = log[n][s] OBVIOUS
<1> HIDE DEF d
<1>6. /\ e \in Entries /\ e.digest = d.digest /\ e.prepares = d.prepares \cup {n}
      /\ e.commits = d.commits /\ e.committed = d.committed
  BY <1>1, <1>2 DEF Entries
<1> HIDE DEF e
<1>7. /\ sent' \in [Node -> SUBSET Messages]
      /\ sent'[n] = sent[n] \cup {<<"PREPARE", s, r>>}
      /\ \A q \in Node : sent[q] \subseteq sent'[q] /\ (q # n => sent'[q] = sent[q])
  BY <1>1, <1>4, BroadcastGrows
<1>9. \A q \in e.prepares : q \in faulty' \/ <<"PREPARE", s, e.digest>> \in sent'[q]
  <2>1. CASE log[n][s] = NoEntry
    <3>1. e.prepares = {n} /\ e.digest = r BY <2>1, <1>3, <1>6
    <3> QED BY <3>1, <1>7
  <2>2. CASE log[n][s] # NoEntry
    <3>1. e.prepares = log[n][s].prepares /\ e.digest = log[n][s].digest
      BY <2>2, <1>1, <1>5, <1>6 DEF IInv, Votes, OwnPrepare
    <3>2. \A q \in e.prepares : q \in faulty \/ <<"PREPARE", s, e.digest>> \in sent[q]
      BY <2>2, <3>1 DEF IInv, Votes, VotesCast, Arrives
    <3>3. e.prepares \subseteq Node BY <1>6 DEF Entries
    <3> QED BY <1>4, <1>7, <3>2, <3>3
  <2> QED BY <2>1, <2>2
<1>10. \A q \in e.commits : q \in faulty' \/ <<"COMMIT", s, e.digest>> \in sent'[q]
  <2>1. CASE log[n][s] = NoEntry BY <2>1, <1>3, <1>6
  <2>2. CASE log[n][s] # NoEntry
    <3>1. \A q \in e.commits : q \in faulty \/ <<"COMMIT", s, e.digest>> \in sent[q]
      BY <2>2, <1>5, <1>6 DEF IInv, Votes, VotesCast, Arrives
    <3>2. e.commits \subseteq Node BY <1>6 DEF Entries
    <3> QED BY <1>4, <1>7, <3>1, <3>2
  <2> QED BY <2>1, <2>2
<1>11. Primary \in Correct => <<"PRE-PREPARE", s, e.digest>> \in sent'[Primary]
  <2>1. log[n][s] = NoEntry /\ Primary \in Correct => <<"PRE-PREPARE", s, r>> \in sent[Primary]
    BY <1>1 DEF OnPrePrepare, Arrives, Correct
  <2>2. log[n][s] # NoEntry /\ Primary \in Correct =>
          <<"PRE-PREPARE", s, log[n][s].digest>> \in sent[Primary]
    BY DEF IInv, Votes, Proposed
  <2> QED BY <2>1, <2>2, <1>3, <1>5, <1>6, <1>7, PBFTAssumption
<1>12. e.committed => Quorum(e.commits)
  BY <1>3, <1>5, <1>6 DEF IInv, Votes, CommittedByQuorum
<1>13. \A t \in Numbers, q \in Request :
         <<"COMMIT", t, q>> \in sent'[n] => <<"COMMIT", t, q>> \in sent[n]
  BY <1>7
<1>14. log[n][s] # NoEntry => e.digest = log[n][s].digest /\ log[n][s].prepares \subseteq e.prepares
  BY <1>5, <1>6
<1>15. Handles(n, s, e)
  BY <1>4, <1>6, <1>7, <1>9, <1>10, <1>11, <1>12, <1>13, <1>14 DEF Handles
<1>16. seq_num' \in 0..MaxSeq /\ seq_num' >= seq_num BY <1>1, <1>4, PBFTAssumption DEF TypeOK
<1> QED BY <1>1, <1>6, <1>7, <1>15, <1>16, HandlesKeeps

LEMMA OnPrepareKeeps ==
  ASSUME IInv, NEW n \in Correct, NEW p \in Node \ {n}, NEW s \in Numbers, NEW r \in Request,
         OnPrepare(n, p, s, r)
  PROVE  IInv'
<1> DEFINE d == log[n][s]
           votes == d.prepares \cup {p}
           Vote == Prepared(votes) /\ p \notin d.commits
           e == [d EXCEPT !.prepares = votes, !.commits = IF Vote THEN @ \cup {n} ELSE @]
<1>1. TypeOK /\ d # NoEntry /\ d \in Entries /\ d.digest = r /\ Arrives("PREPARE", p, s, r)
  BY EntryOf DEF IInv, OnPrepare
<1>2. /\ SetEntry(n, s, e) /\ faulty' = faulty /\ seq_num' = seq_num
      /\ IF Vote THEN Broadcast(n, "COMMIT", s, r) ELSE sent' = sent
  <2>1. CASE Vote BY <2>1 DEF OnPrepare, CallsForCommit
  <2>2. CASE ~Vote
    <3>1. [d EXCEPT !.prepares = votes] = e BY <2>2, <1>1 DEF Entries
    <3> QED BY <2>2, <3>1 DEF OnPrepare, CallsForCommit
  <2> QED BY <2>1, <2>2
<1>3. /\ e \in Entries /\ e.digest = r /\ e.prepares = votes
      /\ e.commits = (IF Vote THEN d.commits \cup {n} ELSE d.commits)
      /\ e.committed = d.committed
  <2>1. n \in Node /\ p \in Node BY DEF Correct
  <2> HIDE DEF Vote
  <2> QED BY <2>1, <1>1 DEF Entries
<1> HIDE DEF e
<1>4. /\ sent' \in [Node -> SUBSET Messages]
      /\ sent'[n] = (IF Vote THEN sent[n] \cup {<<"COMMIT", s, r>>} ELSE sent[n])
      /\ \A q \in Node : sent[q] \subseteq sent'[q] /\ (q # n => sent'[q] = sent[q])
  <2> HIDE DEF Vote
  <2>1. CASE Vote BY <2>1, <1>1, <1>2, BroadcastGrows
  <2>2. CASE ~Vote BY <2>2, <1>1, <1>2 DEF TypeOK
  <2> QED BY <2>1, <2>2
<1>5. \A q \in e.prepares : q \in faulty' \/ <<"PREPARE", s, r>> \in sent'[q]
  <2>1. \A q \in votes : q \in Node /\ Arrives("PREPARE", q, s, r)
    BY <1>1 DEF IInv, Votes, VotesCast, Entries
  <2> QED BY <2>1, <1>2, <1>3, <1>4 DEF Arrives
<1>6. \A q \in e.commits : q \in faulty' \/ <<"COMMIT", s, r>> \in sent'[q]
  <2>1. \A q \in d.commits : q \in Node /\ Arrives("COMMIT", q, s, r)
    BY <1>1 DEF IInv, Votes, VotesCast, Entries
  <2>2. Vote => <<"COMMIT", s, r>> \in sent'[n] BY <1>4
  <2> HIDE DEF Vote
  <2> QED BY <2>1, <2>2, <1>2, <1>3, <1>4 DEF Arrives
<1>7. e.committed => Quorum(e.commits)
  <2>1. d.committed => Quorum(d.commits) BY <1>1 DEF IInv, Votes, CommittedByQuorum
  <2>2. d.commits \in SUBSET Node /\ e.commits \in SUBSET Node /\ d.commits \subseteq e.commits
    BY <1>1, <1>3 DEF Entries
  <2>3. Quorum(d.commits) => Quorum(e.commits) BY <2>2, QuorumGrows
  <2> QED BY <2>1, <2>3, <1>3
<1>8. \A t \in Numbers, q \in Request :
        <<"COMMIT", t, q>> \in sent'[n] =>
          <<"COMMIT", t, q>> \in sent[n] \/ (t = s /\ q = e.digest /\ Prepared(e.prepares))
  BY <1>3, <1>4
<1>9. n # Primary => n \in e.prepares BY <1>1, <1>3 DEF IInv, Votes, OwnPrepare
<1>10. Primary \in Correct => <<"PRE-PREPARE", s, e.digest>> \in sent'[Primary]
  <2>1. Primary \in Correct => <<"PRE-PREPARE", s, r>> \in sent[Primary]
    BY <1>1 DEF IInv, Votes, Proposed
  <2> QED BY <2>1, <1>3, <1>4, PBFTAssumption
<1>11. Handles(n, s, e)
  BY <1>1, <1>2, <1>3, <1>4, <1>5, <1>6, <1>7, <1>8, <1>9, <1>10 DEF Handles
<1>12. seq_num' \in 0..MaxSeq /\ seq_num' >= seq_num BY <1>1, <1>2, PBFTAssumption DEF TypeOK
<1>13. n = Primary => s <= seq_num'
  <2>1. n = Primary => ~(s > seq_num) BY <1>1 DEF IInv, Unnumbered
  <2>2. s \in Int /\ seq_num \in Int BY <1>1 DEF Numbers, TypeOK
  <2> QED BY <1>2, <2>1, <2>2
<1> QED BY <1>3, <1>4, <1>11, <1>12, <1>13, HandlesKeeps

LEMMA OnCommitKeeps ==
  ASSUME IInv, NEW n \in Correct, NEW p \in Node \ {n}, NEW s \in Numbers, NEW r \in Request,
         OnCommit(n, p, s, r)
  PROVE  IInv'
<1> DEFINE d == log[n][s]
           votes == d.commits \cup {p}
           e == [d EXCEPT !.commits = votes, !.committed = @ \/ Quorum(votes)]
<1>1. TypeOK /\ d # NoEntry /\ d \in Entries /\ d.digest = r /\ Arrives("COMMIT", p, s, r)
  BY EntryOf DEF IInv, OnCommit
<1>2. SetEntry(n, s, e) /\ faulty' = faulty /\ seq_num' = seq_num /\ sent' = sent
  BY DEF OnCommit
<1>3. /\ e \in Entries /\ e.digest = r /\ e.prepares = d.prepares /\ e.commits = votes
      /\ e.committed <=> d.committed \/ Quorum(votes)
  <2>1. n \in Node /\ p \in Node BY DEF Correct
  <2>2. (d.committed \/ Quorum(votes)) \in BOOLEAN BY <1>1 DEF Entries
  <2> QED BY <2>1, <2>2, <1>1 DEF Entries
<1> HIDE DEF e
<1>5. \A q \in e.prepares : q \in faulty' \/ <<"PREPARE", s, r>> \in sent'[q]
  <2>1. \A q \in d.prepares : q \in Node /\ Arrives("PREPARE", q, s, r)
    BY <1>1 DEF IInv, Votes, VotesCast, Entries
  <2> QED BY <2>1, <1>2, <1>3 DEF Arrives
<1>6. \A q \in e.commits : q \in faulty' \/ <<"COMMIT", s, r>> \in sent'[q]
  <2>1. \A q \in votes : q \in Node /\ Arrives("COMMIT", q, s, r)
    BY <1>1 DEF IInv, Votes, VotesCast, Entries
  <2> QED BY <2>1, <1>2, <1>3 DEF Arrives
<1>7. e.committed => Quorum(e.commits)
  <2>1. d.committed => Quorum(d.commits) BY <1>1 DEF IInv, Votes, CommittedByQuorum
  <2>2. d.commits \in SUBSET Node /\ votes \in SUBSET Node /\ d.commits \subseteq votes
    BY <1>1 DEF Entries
  <2>3. Quorum(d.commits) => Quorum(votes) BY <2>2, QuorumGrows
  <2> QED BY <2>1, <2>3, <1>3
<1>9. n # Primary => n \in e.prepares BY <1>1, <1>3 DEF IInv, Votes, OwnPrepare
<1>10. Primary \in Correct => <<"PRE-PREPARE", s, e.digest>> \in sent'[Primary]
  BY <1>1, <1>2, <1>3 DEF IInv, Votes, Proposed
<1>11. Handles(n, s, e)
  BY <1>1, <1>2, <1>3, <1>5, <1>6, <1>7, <1>9, <1>10 DEF Handles
<1>12. seq_num' \in 0..MaxSeq /\ seq_num' >= seq_num BY <1>1, <1>2, PBFTAssumption DEF TypeOK
<1>13. n = Primary => s <= seq_num'
  <2>1. n = Primary => ~(s > seq_num) BY <1>1 DEF IInv, Unnumbered
  <2>2. s \in Int /\ seq_num \in Int BY <1>1 DEF Numbers, TypeOK
  <2> QED BY <1>2, <2>1, <2>2
<1>14. sent' \in [Node -> SUBSET Messages] BY <1>1, <1>2 DEF TypeOK
<1> QED BY <1>3, <1>11, <1>12, <1>13, <1>14, HandlesKeeps

-----------------------------------------------------------------------------
(* The theorems.                                                           *)

LEMMA InitHolds == Init => IInv
<1> SUFFICES ASSUME Init PROVE IInv OBVIOUS
<1>1. faulty \in Faults /\ faulty \subseteq Node /\ seq_num = 0 BY PBFTAssumption DEF Init
<1>2. log = [n \in Node |-> [s \in Numbers |-> NoEntry]] BY DEF Init, Numbers
<1>3. sent = [n \in Node |-> {}] BY DEF Init
<1>4. \A n \in Node, s \in Numbers : log[n][s] = NoEntry BY <1>2
<1>5. Correct \subseteq Node BY DEF Correct
<1>6. TypeOK BY <1>1, <1>2, <1>3, PBFTAssumption DEF TypeOK, Numbers
<1>7. Unnumbered BY <1>4, <1>5 DEF Unnumbered
<1>8. Votes
  <2>1. Proposed /\ OwnPrepare /\ VotesCast /\ CommittedByQuorum
    BY <1>4, <1>5 DEF Proposed, OwnPrepare, VotesCast, CommittedByQuorum
  <2>2. CommitsOnce BY <1>3, <1>5 DEF CommitsOnce
  <2> QED BY <2>1, <2>2 DEF Votes
<1> QED BY <1>1, <1>6, <1>7, <1>8 DEF IInv

LEMMA NextKeeps == IInv /\ [Next]_vars => IInv'
<1> SUFFICES ASSUME IInv, [Next]_vars PROVE IInv' OBVIOUS
<1>1. CASE UNCHANGED vars
  <2>1. faulty' = faulty /\ seq_num' = seq_num /\ log' = log /\ sent' = sent
    BY <1>1 DEF vars
  <2> QED BY <2>1 DEF IInv, TypeOK, Unnumbered, Votes, Proposed, OwnPrepare, VotesCast,
        CommitsOnce, CommittedByQuorum, Correct, Arrives, Prepared, Quorum, f
<1>2. ASSUME NEW r \in Request, Submit(r) PROVE IInv' BY <1>2, SubmitKeeps
<1>3. ASSUME NEW r \in Request, NEW n \in Correct, NEW s \in 1..MaxSeq, NEW p \in Node \ {n},
             OnPrePrepare(n, p, s, r) \/ OnPrepare(n, p, s, r) \/ OnCommit(n, p, s, r)
      PROVE  IInv'
  <2>1. s \in Numbers BY DEF Numbers
  <2>2. CASE OnPrePrepare(n, p, s, r) BY <2>1, <2>2, OnPrePrepareKeeps
  <2>3. CASE OnPrepare(n, p, s, r) BY <2>1, <2>3, OnPrepareKeeps
  <2>4. CASE OnCommit(n, p, s, r) BY <2>1, <2>4, OnCommitKeeps
  <2> QED BY <1>3, <2>2, <2>3, <2>4
<1> QED BY <1>1, <1>2, <1>3 DEF Next

LEMMA Invariant == Spec => []IInv
<1> QED BY InitHolds, NextKeeps, PTL DEF Spec

(* The log, the counter and what was sent are always of the kind the code   *)
(* gives them.                                                              *)
THEOREM TypeCorrect == Spec => []TypeOK
<1>1. IInv => TypeOK BY DEF IInv
<1> QED BY <1>1, Invariant, PTL

(* Whatever at most f nodes do, what a correct node executes 2f nodes have  *)
(* prepared, and the primary, if correct, has proposed (_on_commit).        *)
THEOREM ExecutedIsBacked == Spec => []CommitIsBacked
<1>1. ASSUME IInv PROVE CommitIsBacked
  <2> SUFFICES ASSUME NEW n \in Correct, NEW s \in Numbers, NEW r \in Request,
                      CommittedAs(n, s, r)
               PROVE  /\ Prepared({p \in Node : Arrives("PREPARE", p, s, r)})
                      /\ Primary \in Correct => <<"PRE-PREPARE", s, r>> \in sent[Primary]
    BY DEF CommitIsBacked, Numbers
  <2>1. log[n][s] # NoEntry /\ log[n][s].digest = r /\ log[n][s].committed /\ log[n][s] \in Entries
    BY <1>1, EntryOf DEF CommittedAs, IInv
  <2> DEFINE votes == log[n][s].commits
  <2>2. Quorum(votes) /\ votes \in SUBSET Node
    BY <1>1, <2>1 DEF IInv, Votes, CommittedByQuorum, Entries
  <2>3. PICK p \in votes : p \in Correct
    <3>1. Cardinality(votes) \in Nat BY <2>2, Sizes
    <3>2. Cardinality(votes) > f BY <2>2, <3>1, Sizes, SMT DEF Quorum
    <3> QED BY <1>1, <2>2, <3>2, OneCorrect DEF IInv
  <2>4. <<"COMMIT", s, r>> \in sent[p]
    BY <1>1, <2>1, <2>3 DEF IInv, Votes, VotesCast, Arrives, Correct
  <2>5. log[p][s] # NoEntry /\ log[p][s].digest = r /\ Prepared(log[p][s].prepares)
    BY <1>1, <2>3, <2>4 DEF IInv, Votes, CommitsOnce
  <2>6. log[p][s].prepares \in SUBSET Node
    BY <1>1, <2>3, <2>5, EntryOf DEF IInv, Entries
  <2>7. log[p][s].prepares \subseteq {q \in Node : Arrives("PREPARE", q, s, r)}
    BY <1>1, <2>3, <2>5, <2>6 DEF IInv, Votes, VotesCast
  <2>8. Prepared({q \in Node : Arrives("PREPARE", q, s, r)})
    <3>1. {q \in Node : Arrives("PREPARE", q, s, r)} \in SUBSET Node OBVIOUS
    <3> QED BY <2>5, <2>6, <2>7, <3>1, PreparedGrows
  <2>9. Primary \in Correct => <<"PRE-PREPARE", s, r>> \in sent[Primary]
    BY <1>1, <2>1 DEF IInv, Votes, Proposed
  <2> QED BY <2>8, <2>9
<1> QED BY <1>1, Invariant, PTL

(* With n = 3f + 1 nodes correct nodes never execute two requests at one    *)
(* number, also under a primary that proposes several.                      *)
THEOREM AgreementHolds ==
  ASSUME Cardinality(Node) = 3 * f + 1
  PROVE  Spec => []Agreement
<1>1. ASSUME IInv PROVE Agreement
  <2> SUFFICES ASSUME NEW m \in Correct, NEW n \in Correct, NEW s \in Numbers,
                      NEW q \in Request, NEW r \in Request,
                      CommittedAs(m, s, q), CommittedAs(n, s, r)
               PROVE  q = r
    BY DEF Agreement, Numbers
  <2>1. /\ log[m][s] # NoEntry /\ log[m][s].digest = q /\ log[m][s].committed
        /\ log[n][s] # NoEntry /\ log[n][s].digest = r /\ log[n][s].committed
        /\ log[m][s] \in Entries /\ log[n][s] \in Entries
    BY <1>1, EntryOf DEF CommittedAs, IInv
  <2>2. /\ Quorum(log[m][s].commits) /\ log[m][s].commits \in SUBSET Node
        /\ Quorum(log[n][s].commits) /\ log[n][s].commits \in SUBSET Node
    BY <1>1, <2>1 DEF IInv, Votes, CommittedByQuorum, Entries
  <2>3. PICK p \in log[m][s].commits \cap log[n][s].commits : p \in Correct
    BY <1>1, <2>2, QuorumsMeet DEF IInv
  <2>4. <<"COMMIT", s, q>> \in sent[p] /\ <<"COMMIT", s, r>> \in sent[p]
    BY <1>1, <2>1, <2>3 DEF IInv, Votes, VotesCast, Arrives, Correct
  <2> QED BY <1>1, <2>3, <2>4 DEF IInv, Votes, CommitsOnce
<1> QED BY <1>1, Invariant, PTL

(***************************************************************************)
(* PBFT on the message bus.                                                *)
(***************************************************************************)

EnvelopesTo(n) ==
  [from : Node \ {n}, phase : {"PRE-PREPARE", "PREPARE", "COMMIT"}, seq : 1..MaxSeq,
   digest : Request]

ChannelOK(n) == inbox[n] \in Seq(EnvelopesTo(n)) /\ Len(inbox[n]) <= MaxInbox

(* Everybody follows the code, and what is in a channel another node sent.  *)
OnBus ==
  /\ faulty = {}
  /\ inbox = [n \in Node |-> inbox[n]] /\ \A n \in Node : ChannelOK(n)
  /\ partitions \in Cut

LEMMA InitOnBusHolds == InitOnBus => Init /\ OnBus
<1> SUFFICES ASSUME InitOnBus PROVE OnBus BY DEF InitOnBus
<1>1. ASSUME NEW n \in Node PROVE ChannelOK(n)
  <2>1. inbox[n] = <<>> BY DEF InitOnBus
  <2>2. inbox[n] \in Seq(EnvelopesTo(n)) /\ Len(inbox[n]) = 0 BY <2>1, EmptySeq
  <2> QED BY <2>2, PBFTOnBusAssumption DEF ChannelOK
<1> QED BY <1>1 DEF InitOnBus, OnBus

(* A channel after a message was dropped or put behind the others.          *)
LEMMA Appended ==
  ASSUME NEW n \in Node, NEW c \in Seq(EnvelopesTo(n)), NEW m \in EnvelopesTo(n),
         Len(c) < MaxInbox
  PROVE  Append(c, m) \in Seq(EnvelopesTo(n)) /\ Len(Append(c, m)) <= MaxInbox
<1>1. Append(c, m) \in Seq(EnvelopesTo(n)) /\ Len(Append(c, m)) = Len(c) + 1 /\ Len(c) \in Nat
  BY AppendProperties, LenProperties
<1> QED BY <1>1, PBFTOnBusAssumption

LEMMA Dropped ==
  ASSUME NEW n \in Node, ChannelOK(n), inbox[n] # <<>>
  PROVE  /\ Head(inbox[n]) \in EnvelopesTo(n)
         /\ Tail(inbox[n]) \in Seq(EnvelopesTo(n)) /\ Len(Tail(inbox[n])) <= MaxInbox
<1>1. /\ Head(inbox[n]) \in EnvelopesTo(n) /\ Tail(inbox[n]) \in Seq(EnvelopesTo(n))
      /\ Len(Tail(inbox[n])) = Len(inbox[n]) - 1 /\ Len(inbox[n]) \in Nat
  BY HeadTailProperties, LenProperties DEF ChannelOK
<1> QED BY <1>1, PBFTOnBusAssumption DEF ChannelOK

LEMMA EnvelopesOut ==
  ASSUME NEW n \in Node, NEW ph \in {"PRE-PREPARE", "PREPARE", "COMMIT"},
         NEW s \in 1..MaxSeq, NEW r \in Request, NEW p \in DOMAIN ToPeers(n, ph, s, r)
  PROVE  ToPeers(n, ph, s, r)[p] \in EnvelopesTo(p)
BY DEF ToPeers, Bus!Peers, EnvelopesTo

LEMMA SendKeeps ==
  ASSUME OnBus, NEW n \in Node, NEW ph \in {"PRE-PREPARE", "PREPARE", "COMMIT"},
         NEW s \in 1..MaxSeq, NEW r \in Request,
         Bus!Send(n, ToPeers(n, ph, s, r)), UNCHANGED <<faulty, partitions>>
  PROVE  OnBus'
<1>1. ASSUME NEW p \in Node PROVE ChannelOK(p)'
  <2>1. CASE p \in DOMAIN ToPeers(n, ph, s, r) /\ Bus!Accepts(n, p)
    <3>1. inbox'[p] = Append(inbox[p], ToPeers(n, ph, s, r)[p]) BY <2>1 DEF Bus!Send
    <3> QED BY <2>1, <3>1, EnvelopesOut, Appended DEF OnBus, ChannelOK, Bus!Accepts
  <2>2. CASE ~(p \in DOMAIN ToPeers(n, ph, s, r) /\ Bus!Accepts(n, p))
    <3>1. inbox'[p] = inbox[p] BY <2>2 DEF Bus!Send
    <3> QED BY <3>1 DEF OnBus, ChannelOK
  <2> QED BY <2>1, <2>2
<1> QED BY <1>1 DEF OnBus, Bus!Send

LEMMA HandleAndSendKeeps ==
  ASSUME OnBus, NEW n \in Node, inbox[n] # <<>>,
         NEW ph \in {"PRE-PREPARE", "PREPARE", "COMMIT"},
         NEW s \in 1..MaxSeq, NEW r \in Request,
         Bus!HandleAndSend(n, ToPeers(n, ph, s, r)), UNCHANGED <<faulty, partitions>>
  PROVE  OnBus'
<1>1. ASSUME NEW p \in Node PROVE ChannelOK(p)'
  <2>1. CASE p = n
    <3>1. inbox'[p] = Tail(inbox[p]) BY <2>1 DEF Bus!HandleAndSend
    <3> QED BY <2>1, <3>1, Dropped DEF OnBus, ChannelOK
  <2>2. CASE p # n /\ p \in DOMAIN ToPeers(n, ph, s, r) /\ Bus!Accepts(n, p)
    <3>1. inbox'[p] = Append(inbox[p], ToPeers(n, ph, s, r)[p])
      BY <2>2 DEF Bus!HandleAndSend
    <3> QED BY <2>2, <3>1, EnvelopesOut, Appended DEF OnBus, ChannelOK, Bus!Accepts
  <2>3. CASE p # n /\ ~(p \in DOMAIN ToPeers(n, ph, s, r) /\ Bus!Accepts(n, p))
    <3>1. inbox'[p] = inbox[p] BY <2>3 DEF Bus!HandleAndSend
    <3> QED BY <3>1 DEF OnBus, ChannelOK
  <2> QED BY <2>1, <2>2, <2>3
<1> QED BY <1>1 DEF OnBus, Bus!HandleAndSend

LEMMA HandleKeeps ==
  ASSUME OnBus, NEW n \in Node, inbox[n] # <<>>, Bus!Handle(n), UNCHANGED <<faulty, partitions>>
  PROVE  OnBus'
<1>1. inbox' = [p \in Node |-> IF p = n THEN Tail(inbox[n]) ELSE inbox[p]]
  <2>1. DOMAIN Bus!NoMessage = {} BY DEF Bus!NoMessage
  <2> QED BY <2>1 DEF Bus!Handle, Bus!HandleAndSend
<1>2. ASSUME NEW p \in Node PROVE ChannelOK(p)'
  <2>1. CASE p = n BY <1>1, <2>1, Dropped DEF OnBus, ChannelOK
  <2>2. CASE p # n BY <1>1, <2>2 DEF OnBus, ChannelOK
  <2> QED BY <2>1, <2>2
<1> QED BY <1>1, <1>2 DEF OnBus

(* A step of n for the message it received is one of PBFT's, or none.       *)
LEMMA OneOfPBFT ==
  ASSUME OnBus, NEW n \in Node, inbox[n] # <<>>,
         LET m == Head(inbox[n]) IN
           \/ OnPrePrepare(n, m.from, m.seq, m.digest)
           \/ OnPrepare(n, m.from, m.seq, m.digest)
           \/ OnCommit(n, m.from, m.seq, m.digest)
           \/ UNCHANGED vars
  PROVE  [Next]_vars /\ faulty' = faulty
<1>1. Head(inbox[n]) \in EnvelopesTo(n) BY Dropped DEF OnBus
<1>2. /\ Head(inbox[n]).from \in Node \ {n} /\ Head(inbox[n]).seq \in 1..MaxSeq
      /\ Head(inbox[n]).digest \in Request
  BY <1>1 DEF EnvelopesTo
<1>3. n \in Correct BY DEF OnBus, Correct
<1>4. faulty' = faulty BY DEF OnPrePrepare, OnPrepare, OnCommit, vars
<1>5. CASE UNCHANGED vars BY <1>4, <1>5
<1>6. CASE vars' # vars BY <1>2, <1>3, <1>4, <1>6 DEF Next
<1> QED BY <1>5, <1>6

LEMMA StepIsOfPBFT ==
  ASSUME IInv, OnBus, [NextOnBus]_onBusVars
  PROVE  [Next]_vars /\ OnBus'
<1>1. ASSUME NEW r \in Request, SubmitOnBus(r) PROVE [Next]_vars /\ OnBus'
  <2>1. seq_num \in 0..MaxSeq /\ MaxSeq \in Nat BY PBFTAssumption DEF IInv, TypeOK
  <2>2. Submit(r) /\ seq_num + 1 \in 1..MaxSeq /\ faulty' = faulty /\ Primary \in Node
    BY <1>1, <2>1, PBFTAssumption DEF SubmitOnBus, Submit
  <2>3. OnBus' BY <1>1, <2>2, SendKeeps DEF SubmitOnBus
  <2> QED BY <2>2, <2>3 DEF Next
<1>2. ASSUME NEW n \in Node, DispatchPrePrepare(n) PROVE [Next]_vars /\ OnBus'
  <2>1. inbox[n] # <<>> BY <1>2 DEF DispatchPrePrepare, Receives
  <2>2. [Next]_vars /\ faulty' = faulty BY <1>2, <2>1, OneOfPBFT DEF DispatchPrePrepare
  <2>3. Head(inbox[n]).seq \in 1..MaxSeq /\ Head(inbox[n]).digest \in Request
    BY <2>1, Dropped DEF OnBus, EnvelopesTo
  <2>4. OnBus' BY <1>2, <2>1, <2>2, <2>3, HandleAndSendKeeps DEF DispatchPrePrepare
  <2> QED BY <2>2, <2>4
<1>3. ASSUME NEW n \in Node, DispatchPrepare(n) PROVE [Next]_vars /\ OnBus'
  <2>1. inbox[n] # <<>> BY <1>3 DEF DispatchPrepare, Receives
  <2>2. [Next]_vars /\ faulty' = faulty BY <1>3, <2>1, OneOfPBFT DEF DispatchPrepare
  <2>3. Head(inbox[n]).seq \in 1..MaxSeq /\ Head(inbox[n]).digest \in Request
    BY <2>1, Dropped DEF OnBus, EnvelopesTo
  <2>4. CASE Bus!Handle(n) BY <1>3, <2>1, <2>2, <2>4, HandleKeeps DEF DispatchPrepare
  <2>5. CASE Bus!HandleAndSend(n, ToPeers(n, "COMMIT", Head(inbox[n]).seq,
                                          Head(inbox[n]).digest))
    BY <1>3, <2>1, <2>2, <2>3, <2>5, HandleAndSendKeeps DEF DispatchPrepare
  <2>6. OnBus' BY <1>3, <2>4, <2>5 DEF DispatchPrepare
  <2> QED BY <2>2, <2>6
<1>4. ASSUME NEW n \in Node, DispatchCommit(n) PROVE [Next]_vars /\ OnBus'
  <2>1. inbox[n] # <<>> BY <1>4 DEF DispatchCommit, Receives
  <2>2. [Next]_vars /\ faulty' = faulty BY <1>4, <2>1, OneOfPBFT DEF DispatchCommit
  <2>3. OnBus' BY <1>4, <2>1, <2>2, HandleKeeps DEF DispatchCommit
  <2> QED BY <2>2, <2>3
<1>5. CASE UNCHANGED onBusVars
  BY <1>5 DEF onBusVars, vars, OnBus, ChannelOK
<1> QED BY <1>1, <1>2, <1>3, <1>4, <1>5 DEF NextOnBus, Dispatch

(* Whatever the channels hold and whoever is cut off, nodes on the bus do  *)
(* what PBFT allows, the order of the channels being one of those it has.  *)
THEOREM Implements == SpecOnBus => Spec
<1>1. IInv /\ OnBus /\ [NextOnBus]_onBusVars => [Next]_vars /\ OnBus' BY StepIsOfPBFT
<1> QED BY <1>1, InitOnBusHolds, InitHolds, NextKeeps, PTL DEF SpecOnBus, Spec

(* What is in a channel is a message of another node, and a channel never   *)
(* holds more than the bus lets it.                                        *)
THEOREM TypeCorrectOnBus == SpecOnBus => []TypeOKOnBus
<1>1. IInv /\ OnBus /\ [NextOnBus]_onBusVars => IInv' /\ OnBus'
  BY StepIsOfPBFT, NextKeeps
<1>2. IInv /\ OnBus => TypeOKOnBus
  <2> SUFFICES ASSUME IInv, OnBus PROVE TypeOKOnBus OBVIOUS
  <2>1. ASSUME NEW n \in Node PROVE inbox[n] \in Seq(Envelopes)
    <3>1. inbox[n] \in Seq(EnvelopesTo(n)) BY DEF OnBus, ChannelOK
    <3>2. EnvelopesTo(n) \subseteq Envelopes BY DEF EnvelopesTo, Envelopes
    <3>3. /\ Len(inbox[n]) \in Nat /\ inbox[n] = [i \in 1..Len(inbox[n]) |-> inbox[n][i]]
          /\ \A i \in 1..Len(inbox[n]) : inbox[n][i] \in EnvelopesTo(n)
      BY <3>1, ElementOfSeq, LenProperties
    <3> QED BY <3>2, <3>3, IsASeq
  <2>2. inbox \in [Node -> Seq(Envelopes)] BY <2>1 DEF OnBus
  <2> QED BY <2>2 DEF TypeOKOnBus, OnBus, ChannelOK, IInv
<1> QED BY <1>1, <1>2, InitOnBusHolds, InitHolds, PTL DEF SpecOnBus

(* Of 3f + 1 nodes on the bus no two execute different requests at one      *)
(* number, whatever the bus drops.                                         *)
THEOREM AgreementOnBus ==
  ASSUME Cardinality(Node) = 3 * f + 1
  PROVE  SpecOnBus => []Agreement
BY Implements, AgreementHolds, PTL

(***************************************************************************)
(* Execution in the order of the numbers, as long as no channel is full.   *)
(* A broadcast is one step and a node has one channel, so what a node has  *)
(* heard is closed under what came before: whoever has heard a message has *)
(* heard, or has before it in the channel, all that its sender had seen.   *)
(***************************************************************************)

(* Nothing that is sent to a connected node is dropped. *)
RoomLeft == \A n \in Connected : Len(inbox[n]) < MaxInbox

Phases == {"PRE-PREPARE", "PREPARE", "COMMIT"}

(* Who says what of which number. *)
Sayings == Node \X Phases \X Numbers

Id(m) == <<m.from, m.phase, m.seq>>

(* What is in an entry for s. *)
Noted(e, s) ==
  {v \in Sayings :
     /\ v[3] = s
     /\ v[2] = "PRE-PREPARE" => v[1] = Primary
     /\ v[2] = "PREPARE" => v[1] \in e.prepares
     /\ v[2] = "COMMIT" => v[1] \in e.commits}

Heard(n) == {v \in Sayings : log[n][v[3]] # NoEntry /\ v \in Noted(log[n][v[3]], v[3])}

Coming(c, k) == {Id(c[i]) : i \in 1..k}

(* What n will have heard when it has handled k more messages. *)
Known(n, k) == Heard(n) \cup Coming(inbox[n], k)

Said == {v \in Sayings : /\ v[1] \in Connected
                         /\ \E r \in Request : <<v[2], v[3], r>> \in sent[v[1]]}

PreparedBy(K, s) == {p \in Node : <<p, "PREPARE", s>> \in K}

(* All that v must come after is in K. *)
Ready(K, v) ==
  /\ v[3] > 1 => <<v[1], v[2], v[3] - 1>> \in K
  /\ v[2] # "PRE-PREPARE" => <<Primary, "PRE-PREPARE", v[3]>> \in K
  /\ v[2] = "PREPARE" => v[1] # Primary
  /\ v[2] = "COMMIT" => /\ Prepared(PreparedBy(K, v[3]))
                        /\ v[1] # Primary => <<v[1], "PREPARE", v[3]>> \in K

Closed(K) == \A v \in K : Ready(K, v)

(* A node that is cut off receives nothing. *)
CutOff == \A n \in Node \ Connected : inbox[n] = <<>>

(* What a connected node says reaches all connected nodes. *)
AllTold == \A n \in Connected : Known(n, Len(inbox[n])) = Said

(* No message overtakes one that it depends on. *)
Causal == \A n \in Connected : \A k \in 0..Len(inbox[n]) : Closed(Known(n, k))

(* All speak of the request that the primary gave the number. *)
OneDigest ==
  /\ \A n \in Node : \A v \in sent[n] : log[Primary][v[2]].digest = v[3]
  /\ \A n \in Node : \A i \in 1..Len(inbox[n]) :
       log[Primary][inbox[n][i].seq].digest = inbox[n][i].digest

Numbered == \A s \in Numbers : s <= seq_num => log[Primary][s] # NoEntry

(* n votes when it is prepared, and executes when another's vote is there.  *)
ActedOn(n, e) ==
  /\ e.prepares \ {n} # {} /\ Prepared(e.prepares) => n \in e.commits
  /\ e.committed <=> e.commits \ {n} # {} /\ Quorum(e.commits)

Acted ==
  \A n \in Connected, s \in Numbers : log[n][s] # NoEntry => ActedOn(n, log[n][s])

Order == CutOff /\ AllTold /\ Causal /\ OneDigest /\ Numbered /\ Acted

-----------------------------------------------------------------------------
(* Sets of sayings.                                                        *)

LEMMA ReadyGrows ==
  ASSUME NEW K, NEW L, K \subseteq L, NEW v, Ready(K, v)
  PROVE  Ready(L, v)
<1>1. /\ PreparedBy(K, v[3]) \in SUBSET Node /\ PreparedBy(L, v[3]) \in SUBSET Node
      /\ PreparedBy(K, v[3]) \subseteq PreparedBy(L, v[3])
  BY DEF PreparedBy
<1>2. Prepared(PreparedBy(K, v[3])) => Prepared(PreparedBy(L, v[3])) BY <1>1, PreparedGrows
<1> QED BY <1>2 DEF Ready

LEMMA ClosedGrows ==
  ASSUME NEW K, NEW T, Closed(K), \A v \in T : Ready(K, v)
  PROVE  Closed(K \cup T)
<1>1. SUFFICES ASSUME NEW v \in K \cup T PROVE Ready(K \cup T, v) BY DEF Closed
<1>2. Ready(K, v) BY <1>1 DEF Closed
<1> QED BY <1>2, ReadyGrows

LEMMA NotedOf ==
  ASSUME NEW e, NEW s \in Numbers, NEW p \in Node
  PROVE  /\ <<p, "PRE-PREPARE", s>> \in Noted(e, s) <=> p = Primary
         /\ <<p, "PREPARE", s>> \in Noted(e, s) <=> p \in e.prepares
         /\ <<p, "COMMIT", s>> \in Noted(e, s) <=> p \in e.commits
BY DEF Noted, Sayings, Phases

LEMMA HeardOf ==
  ASSUME NEW n, NEW s \in Numbers, NEW p \in Node
  PROVE  /\ <<p, "PRE-PREPARE", s>> \in Heard(n) <=> log[n][s] # NoEntry /\ p = Primary
         /\ <<p, "PREPARE", s>> \in Heard(n) <=> log[n][s] # NoEntry /\ p \in log[n][s].prepares
         /\ <<p, "COMMIT", s>> \in Heard(n) <=> log[n][s] # NoEntry /\ p \in log[n][s].commits
<1>1. \A ph \in Phases :
        <<p, ph, s>> \in Heard(n) <=> log[n][s] # NoEntry /\ <<p, ph, s>> \in Noted(log[n][s], s)
  BY DEF Heard, Sayings
<1> QED BY <1>1, NotedOf DEF Phases

LEMMA HeardNoted ==
  ASSUME NEW n, NEW s \in Numbers, NEW v, v[3] = s, log[n][s] # NoEntry
  PROVE  v \in Heard(n) <=> v \in Noted(log[n][s], s)
BY DEF Heard, Noted

(* What n has heard when its entry for s becomes e. *)
LEMMA HeardNext ==
  ASSUME TypeOK, NEW n \in Node, NEW s \in Numbers, NEW e \in Entries, SetEntry(n, s, e),
         log[n][s] # NoEntry => Noted(log[n][s], s) \subseteq Noted(e, s)
  PROVE  /\ Heard(n)' = Heard(n) \cup Noted(e, s)
         /\ \A p \in Node \ {n} : Heard(p)' = Heard(p)
<1>1. /\ log'[n][s] = e /\ \A t \in Numbers : t # s => log'[n][t] = log[n][t]
      /\ \A p \in Node \ {n} : log'[p] = log[p]
  <2>1. log \in [Node -> [Numbers -> Entries \cup {NoEntry}]] BY DEF TypeOK, Numbers
  <2> QED BY <2>1 DEF SetEntry
<1>2. e # NoEntry BY EntryOK
<1>3. ASSUME NEW v \in Sayings
      PROVE  v \in Heard(n)' <=> v \in Heard(n) \cup Noted(e, s)
  <2>1. v[3] \in Numbers BY DEF Sayings
  <2>2. CASE v[3] = s
    <3>1. v \in Heard(n)' <=> v \in Noted(e, s) BY <1>1, <1>2, <2>2 DEF Heard, Noted
    <3>2. v \in Heard(n) => v \in Noted(e, s) BY <2>2 DEF Heard
    <3> QED BY <3>1, <3>2
  <2>3. CASE v[3] # s
    <3>1. v \notin Noted(e, s) BY <2>3 DEF Noted
    <3>2. log'[n][v[3]] = log[n][v[3]] BY <1>1, <2>1, <2>3
    <3> QED BY <3>1, <3>2 DEF Heard, Noted
  <2> QED BY <2>2, <2>3
<1>4. Heard(n)' = Heard(n) \cup Noted(e, s)
  <2>1. Heard(n)' \subseteq Sayings /\ Heard(n) \subseteq Sayings /\ Noted(e, s) \subseteq Sayings
    BY DEF Heard, Noted
  <2> QED BY <1>3, <2>1
<1>5. ASSUME NEW p \in Node \ {n} PROVE Heard(p)' = Heard(p)
  BY <1>1 DEF Heard, Noted
<1> QED BY <1>4, <1>5

LEMMA SaidNext ==
  ASSUME TypeOK, NEW n \in Node, NEW ph \in Phases, NEW s \in Numbers, NEW r \in Request,
         Broadcast(n, ph, s, r), UNCHANGED partitions
  PROVE  Said' = IF n \in Connected THEN Said \cup {<<n, ph, s>>} ELSE Said
<1>1. /\ sent'[n] = sent[n] \cup {<<ph, s, r>>}
      /\ \A p \in Node \ {n} : sent'[p] = sent[p]
  BY DEF TypeOK, Broadcast
<1>2. Connected' = Connected BY DEF Connected
<1>3. <<n, ph, s>> \in Sayings /\ Connected \subseteq Node BY DEF Sayings, Connected
<1>4. ASSUME NEW v \in Sayings, v[1] \in Connected
      PROVE  (\E q \in Request : <<v[2], v[3], q>> \in sent'[v[1]])
               <=> (\E q \in Request : <<v[2], v[3], q>> \in sent[v[1]]) \/ v = <<n, ph, s>>
  <2>1. v = <<v[1], v[2], v[3]>> /\ v[1] \in Node BY DEF Sayings
  <2>2. CASE v[1] # n
    <3>1. sent'[v[1]] = sent[v[1]] BY <1>1, <2>1, <2>2
    <3> QED BY <2>2, <3>1
  <2>3. CASE v[1] = n
    <3>1. \A q : <<v[2], v[3], q>> \in sent'[n] <=>
                   <<v[2], v[3], q>> \in sent[n] \/ (v[2] = ph /\ v[3] = s /\ q = r)
      BY <1>1
    <3>2. v = <<n, ph, s>> <=> v[2] = ph /\ v[3] = s BY <2>1, <2>3
    <3> QED BY <2>3, <3>1, <3>2
  <2> QED BY <2>2, <2>3
<1>5. Said' = {v \in Sayings : /\ v[1] \in Connected
                               /\ \E q \in Request : <<v[2], v[3], q>> \in sent'[v[1]]}
  BY <1>2 DEF Said, Sayings
<1>6. \A v : v \in Said' <=> v \in Sayings /\ v[1] \in Connected
                             /\ (v \in Said \/ v = <<n, ph, s>>)
  BY <1>4, <1>5 DEF Said
<1>7. CASE n \in Connected
  <2>1. <<n, ph, s>>[1] = n OBVIOUS
  <2> QED BY <1>3, <1>6, <1>7, <2>1 DEF Said
<1>8. CASE n \notin Connected
  <2>1. \A v : v[1] \in Connected => v # <<n, ph, s>> BY <1>8
  <2> QED BY <1>6, <1>8, <2>1 DEF Said
<1> QED BY <1>7, <1>8

-----------------------------------------------------------------------------
(* Channels.                                                               *)

LEMMA ComingDropped ==
  ASSUME NEW S, NEW c \in Seq(S), c # <<>>, NEW k \in 0..Len(Tail(c))
  PROVE  /\ k + 1 \in 0..Len(c) /\ Len(Tail(c)) + 1 = Len(c)
         /\ {Id(Head(c))} \cup Coming(Tail(c), k) = Coming(c, k + 1)
<1>1. /\ Len(Tail(c)) = Len(c) - 1 /\ Len(c) \in Nat /\ k \in Nat /\ Head(c) = c[1]
      /\ \A i \in 1..Len(Tail(c)) : Tail(c)[i] = c[i + 1]
  BY HeadTailProperties, LenProperties
<1>2. ASSUME NEW v, v \in Coming(c, k + 1)
      PROVE  v \in {Id(Head(c))} \cup Coming(Tail(c), k)
  <2>1. PICK i \in 1..(k + 1) : v = Id(c[i]) BY <1>2 DEF Coming
  <2>2. CASE i = 1 BY <1>1, <2>1, <2>2
  <2>3. CASE i # 1
    <3>1. i - 1 \in 1..k /\ i - 1 \in 1..Len(Tail(c)) /\ (i - 1) + 1 = i BY <1>1, <2>3
    <3>2. Tail(c)[i - 1] = c[i] BY <1>1, <3>1
    <3> QED BY <2>1, <3>1, <3>2 DEF Coming
  <2> QED BY <2>2, <2>3
<1>3. ASSUME NEW v, v \in {Id(Head(c))} \cup Coming(Tail(c), k)
      PROVE  v \in Coming(c, k + 1)
  <2>1. CASE v = Id(Head(c))
    <3>1. 1 \in 1..(k + 1) BY <1>1
    <3> QED BY <1>1, <2>1, <3>1 DEF Coming
  <2>2. CASE v \in Coming(Tail(c), k)
    <3>1. PICK i \in 1..k : v = Id(Tail(c)[i]) BY <2>2 DEF Coming
    <3>2. i \in 1..Len(Tail(c)) /\ i + 1 \in 1..(k + 1) BY <1>1
    <3>3. v = Id(c[i + 1]) BY <1>1, <3>1, <3>2
    <3> QED BY <3>2, <3>3 DEF Coming
  <2> QED BY <1>3, <2>1, <2>2
<1> QED BY <1>1, <1>2, <1>3

LEMMA ComingAppended ==
  ASSUME NEW S, NEW c \in Seq(S), NEW m \in S
  PROVE  /\ Len(Append(c, m)) = Len(c) + 1 /\ Len(c) \in Nat
         /\ \A k \in 0..Len(c) : Coming(Append(c, m), k) = Coming(c, k)
         /\ Coming(Append(c, m), Len(c) + 1) = Coming(c, Len(c)) \cup {Id(m)}
<1> DEFINE d == Append(c, m)
<1>1. /\ Len(d) = Len(c) + 1 /\ Len(c) \in Nat /\ d[Len(c) + 1] = m
      /\ \A i \in 1..Len(c) : d[i] = c[i]
  BY AppendProperties, LenProperties
<1> HIDE DEF d
<1>2. ASSUME NEW k \in 0..Len(c) PROVE Coming(d, k) = Coming(c, k)
  <2>1. \A i \in 1..k : d[i] = c[i] BY <1>1
  <2> QED BY <2>1 DEF Coming
<1>3. Coming(d, Len(c) + 1) = Coming(c, Len(c)) \cup {Id(m)}
  <2>1. \A i : i \in 1..(Len(c) + 1) <=> i \in 1..Len(c) \/ i = Len(c) + 1 BY <1>1
  <2> QED BY <1>1, <2>1 DEF Coming
<1> QED BY <1>1, <1>2, <1>3 DEF d

KnownNext(n, k) == Heard(n)' \cup Coming(inbox'[n], k)

(* A step in which p is told T and handles nothing. *)
Learns(p, T) ==
  /\ Len(inbox[p]) \in Nat
  /\ KnownNext(p, Len(inbox'[p])) = Known(p, Len(inbox[p])) \cup T
  /\ \A k \in 0..Len(inbox'[p]) :
       k = Len(inbox'[p]) \/ (k \in 0..Len(inbox[p]) /\ KnownNext(p, k) = Known(p, k))

(* A step in which n handles d messages and says T.                        *)
LEMMA KnownGrows ==
  ASSUME AllTold, Causal, Connected' = Connected,
         NEW n \in Connected, NEW d \in {0, 1}, NEW T,
         \A v \in T : Ready(Known(n, d), v), Said' = Said \cup T,
         d \in 0..Len(inbox[n]), Len(inbox'[n]) \in Nat, Len(inbox'[n]) + d = Len(inbox[n]),
         \A k \in 0..Len(inbox'[n]) : KnownNext(n, k) = Known(n, k + d) \cup T,
         \A p \in Connected \ {n} : Learns(p, T)
  PROVE  AllTold' /\ Causal'
<1>1. AllTold'
  <2> SUFFICES ASSUME NEW p \in Connected PROVE KnownNext(p, Len(inbox'[p])) = Said'
    BY DEF AllTold, Known, KnownNext
  <2>1. Known(p, Len(inbox[p])) = Said BY DEF AllTold
  <2>2. CASE p = n
    <3>1. Len(inbox'[n]) \in 0..Len(inbox'[n]) OBVIOUS
    <3>2. KnownNext(n, Len(inbox'[n])) = Known(n, Len(inbox'[n]) + d) \cup T BY <3>1
    <3> QED BY <2>1, <2>2, <3>2
  <2>3. CASE p # n BY <2>1, <2>3 DEF Learns
  <2> QED BY <2>2, <2>3
<1>2. \A v \in T : Ready(Said, v)
  <2>1. Known(n, d) \subseteq Known(n, Len(inbox[n])) BY DEF Known, Coming
  <2>2. Known(n, Len(inbox[n])) = Said BY DEF AllTold
  <2> QED BY <2>1, <2>2, ReadyGrows
<1>3. ASSUME NEW p \in Connected, NEW k \in 0..Len(inbox'[p])
      PROVE  Closed(KnownNext(p, k))
  <2>1. CASE p = n
    <3>1. KnownNext(n, k) = Known(n, k + d) \cup T BY <2>1
    <3>2. k + d \in 0..Len(inbox[n]) /\ d <= k + d BY <2>1
    <3>3. 1..d \subseteq 1..(k + d) BY <3>2, <2>1
    <3>4. Known(n, d) \subseteq Known(n, k + d) BY <3>3 DEF Known, Coming
    <3>5. Closed(Known(n, k + d)) BY <3>2 DEF Causal
    <3>6. \A v \in T : Ready(Known(n, k + d), v) BY <3>4, ReadyGrows
    <3>7. Closed(Known(n, k + d) \cup T) BY <3>5, <3>6, ClosedGrows
    <3> QED BY <2>1, <3>1, <3>7
  <2>2. CASE p # n /\ k \in 0..Len(inbox[p]) /\ KnownNext(p, k) = Known(p, k)
    BY <2>2 DEF Causal
  <2>3. CASE p # n /\ k = Len(inbox'[p])
    <3>1. KnownNext(p, k) = Said \cup T BY <2>3 DEF AllTold, Learns
    <3>2. Len(inbox[p]) \in 0..Len(inbox[p]) BY <2>3 DEF Learns
    <3>3. Closed(Said) BY <2>3, <3>2 DEF Causal, AllTold
    <3>4. Closed(Said \cup T) BY <3>3, <1>2, ClosedGrows
    <3> QED BY <3>1, <3>4
  <2> QED BY <2>1, <2>2, <2>3 DEF Learns
<1>4. Causal'
  <2> SUFFICES ASSUME NEW p \in Connected, NEW k \in 0..Len(inbox'[p]),
                      NEW v \in KnownNext(p, k)
               PROVE  Ready(KnownNext(p, k), v)
    BY DEF Causal, Closed, Known, KnownNext, Ready, Prepared, PreparedBy, f
  <2> QED BY <1>3 DEF Closed
<1> QED BY <1>1, <1>4

(* A node that is told nothing, one that is told m, and the one that        *)
(* handles a message.                                                       *)
LEMMA OthersStay ==
  ASSUME NEW p \in Node, ChannelOK(p), Heard(p)' = Heard(p), inbox'[p] = inbox[p]
  PROVE  Learns(p, {})
<1>1. Len(inbox[p]) \in Nat BY LenProperties DEF ChannelOK
<1>2. \A k : KnownNext(p, k) = Known(p, k) BY DEF KnownNext, Known
<1> QED BY <1>1, <1>2 DEF Learns

LEMMA OthersLearn ==
  ASSUME NEW p \in Node, ChannelOK(p), Heard(p)' = Heard(p), NEW m \in EnvelopesTo(p),
         inbox'[p] = Append(inbox[p], m)
  PROVE  Learns(p, {Id(m)})
<1>1. /\ Len(inbox'[p]) = Len(inbox[p]) + 1 /\ Len(inbox[p]) \in Nat
      /\ \A k \in 0..Len(inbox[p]) : Coming(inbox'[p], k) = Coming(inbox[p], k)
      /\ Coming(inbox'[p], Len(inbox'[p])) = Coming(inbox[p], Len(inbox[p])) \cup {Id(m)}
  <2> DEFINE c == inbox[p]
             d == Append(c, m)
  <2>1. c \in Seq(EnvelopesTo(p)) /\ inbox'[p] = d BY DEF ChannelOK
  <2> HIDE DEF c
  <2>2. /\ Len(d) = Len(c) + 1 /\ Len(c) \in Nat
        /\ \A k \in 0..Len(c) : Coming(d, k) = Coming(c, k)
        /\ Coming(d, Len(c) + 1) = Coming(c, Len(c)) \cup {Id(m)}
    BY <2>1, ComingAppended
  <2> HIDE DEF d
  <2> QED BY <2>1, <2>2 DEF c
<1>2. KnownNext(p, Len(inbox'[p])) = Known(p, Len(inbox[p])) \cup {Id(m)}
  BY <1>1 DEF KnownNext, Known
<1>3. \A k \in 0..Len(inbox[p]) : KnownNext(p, k) = Known(p, k) BY <1>1 DEF KnownNext, Known
<1>4. \A k \in 0..Len(inbox'[p]) : k = Len(inbox'[p]) \/ k \in 0..Len(inbox[p]) BY <1>1
<1> QED BY <1>1, <1>2, <1>3, <1>4 DEF Learns

LEMMA HandlerLearns ==
  ASSUME NEW n \in Node, ChannelOK(n), inbox[n] # <<>>, inbox'[n] = Tail(inbox[n]), NEW T,
         Heard(n)' = Heard(n) \cup {Id(Head(inbox[n]))} \cup T
  PROVE  /\ 1 \in 0..Len(inbox[n]) /\ Len(inbox'[n]) \in Nat /\ Len(inbox'[n]) + 1 = Len(inbox[n])
         /\ \A k \in 0..Len(inbox'[n]) : KnownNext(n, k) = Known(n, k + 1) \cup T
<1>1. /\ Len(inbox'[n]) = Len(inbox[n]) - 1 /\ Len(inbox[n]) \in Nat /\ Len(inbox[n]) # 0
  BY HeadTailProperties, LenProperties, EmptySeq DEF ChannelOK
<1>2. ASSUME NEW k \in 0..Len(inbox'[n]) PROVE KnownNext(n, k) = Known(n, k + 1) \cup T
  <2>1. {Id(Head(inbox[n]))} \cup Coming(inbox'[n], k) = Coming(inbox[n], k + 1)
    BY ComingDropped DEF ChannelOK
  <2> QED BY <2>1 DEF KnownNext, Known
<1> QED BY <1>1, <1>2

(* What n has when it handles the next message.                            *)
LEMMA HeadReady ==
  ASSUME OnBus, Causal, NEW n \in Connected, inbox[n] # <<>>
  PROVE  /\ Known(n, 0) = Heard(n) /\ Closed(Heard(n))
         /\ Known(n, 1) = Heard(n) \cup {Id(Head(inbox[n]))} /\ Closed(Known(n, 1))
         /\ Ready(Known(n, 1), Id(Head(inbox[n])))
<1>0. n \in Node BY DEF Connected
<1>1. inbox[n] \in Seq(EnvelopesTo(n)) BY <1>0 DEF OnBus, ChannelOK
<1>2. Head(inbox[n]) = inbox[n][1] /\ Len(inbox[n]) \in Nat /\ Len(inbox[n]) # 0
  BY <1>1, HeadTailProperties, LenProperties, EmptySeq
<1>3. Coming(inbox[n], 0) = {} BY DEF Coming
<1>4. Coming(inbox[n], 1) = {Id(Head(inbox[n]))}
  <2>1. 1..1 = {1} OBVIOUS
  <2> QED BY <1>2, <2>1 DEF Coming
<1>5. 0 \in 0..Len(inbox[n]) /\ 1 \in 0..Len(inbox[n]) BY <1>2
<1>6. Closed(Known(n, 0)) /\ Closed(Known(n, 1)) BY <1>5 DEF Causal
<1>7. Known(n, 0) = Heard(n) BY <1>3 DEF Known
<1>8. Known(n, 1) = Heard(n) \cup {Id(Head(inbox[n]))} BY <1>4 DEF Known
<1>9. Ready(Known(n, 1), Id(Head(inbox[n]))) BY <1>6, <1>8 DEF Closed
<1> QED BY <1>6, <1>7, <1>8, <1>9

(* A broadcast reaches the other connected nodes and nobody else.          *)
LEMMA Reaches ==
  ASSUME OnBus, RoomLeft, NEW n \in Connected, NEW ph \in Phases, NEW s \in Numbers,
         NEW r \in Request,
         \/ Bus!Send(n, ToPeers(n, ph, s, r))
         \/ Bus!HandleAndSend(n, ToPeers(n, ph, s, r))
  PROVE  /\ \A p \in Connected \ {n} : \E m \in EnvelopesTo(p) :
              /\ m = [from |-> n, phase |-> ph, seq |-> s, digest |-> r]
              /\ Id(m) = <<n, ph, s>> /\ inbox'[p] = Append(inbox[p], m)
         /\ \A p \in Node \ Connected : inbox'[p] = inbox[p]
         /\ Bus!Send(n, ToPeers(n, ph, s, r)) => inbox'[n] = inbox[n]
         /\ Bus!HandleAndSend(n, ToPeers(n, ph, s, r)) => inbox'[n] = Tail(inbox[n])
<1> DEFINE out == ToPeers(n, ph, s, r)
           m == [from |-> n, phase |-> ph, seq |-> s, digest |-> r]
<1>1. /\ n \in Node /\ n \notin partitions /\ \A p \in Connected : p \in Node /\ p \notin partitions
      /\ \A p \in Node \ Connected : p \in partitions /\ p # n
  BY DEF Connected
<1>2. DOMAIN out = Node \ {n} /\ \A p \in Node \ {n} : out[p] = m BY DEF ToPeers, Bus!Peers
<1>3. \A p \in Connected \ {n} : p \in DOMAIN out /\ Bus!Accepts(n, p)
  BY <1>1, <1>2 DEF RoomLeft, Bus!Accepts
<1>4. \A p \in Node \ Connected : ~Bus!Accepts(n, p) BY <1>1 DEF Bus!Accepts
<1>5. n \notin DOMAIN out BY <1>2
<1> HIDE DEF out
<1>6. \A p \in Connected \ {n} : inbox'[p] = Append(inbox[p], out[p])
  <2>1. CASE Bus!Send(n, out) BY <2>1, <1>1, <1>3 DEF Bus!Send
  <2>2. CASE Bus!HandleAndSend(n, out) BY <2>2, <1>1, <1>3 DEF Bus!HandleAndSend
  <2> QED BY <2>1, <2>2 DEF out
<1>7. \A p \in Node \ Connected : inbox'[p] = inbox[p]
  <2>1. CASE Bus!Send(n, out) BY <2>1, <1>1, <1>4 DEF Bus!Send
  <2>2. CASE Bus!HandleAndSend(n, out) BY <2>2, <1>1, <1>4 DEF Bus!HandleAndSend
  <2> QED BY <2>1, <2>2 DEF out
<1>8. Bus!Send(n, out) => inbox'[n] = inbox[n] BY <1>1, <1>5 DEF Bus!Send
<1>9. Bus!HandleAndSend(n, out) => inbox'[n] = Tail(inbox[n]) BY <1>1 DEF Bus!HandleAndSend
<1>10. Id(m) = <<n, ph, s>> BY DEF Id
<1>11. \A p \in Connected \ {n} : m \in EnvelopesTo(p)
  BY <1>1 DEF EnvelopesTo, Phases, Numbers
<1> QED BY <1>1, <1>2, <1>6, <1>7, <1>8, <1>9, <1>10, <1>11 DEF out

(* A step in which n handles a message, and says nothing or one thing.     *)
LEMMA HandlingKnows ==
  ASSUME OnBus, RoomLeft, CutOff, AllTold, Causal, UNCHANGED partitions,
         NEW n \in Connected, inbox[n] # <<>>, NEW T,
         Heard(n)' = Heard(n) \cup {Id(Head(inbox[n]))} \cup T,
         \A p \in Node \ {n} : Heard(p)' = Heard(p),
         Said' = Said \cup T, \A v \in T : Ready(Known(n, 1), v),
         \/ T = {} /\ Bus!Handle(n)
         \/ \E ph \in Phases, s \in Numbers, r \in Request :
              T = {<<n, ph, s>>} /\ Bus!HandleAndSend(n, ToPeers(n, ph, s, r))
  PROVE  AllTold' /\ Causal' /\ CutOff'
<1>0. n \in Node /\ Connected \subseteq Node /\ Connected' = Connected BY DEF Connected
<1>1. \A p \in Node : ChannelOK(p) BY DEF OnBus
<1>2. /\ inbox'[n] = Tail(inbox[n]) /\ \A p \in Node \ Connected : inbox'[p] = inbox[p]
      /\ \A p \in Connected \ {n} : Learns(p, T)
  <2>1. CASE T = {} /\ Bus!Handle(n)
    <3>1. inbox' = [p \in Node |-> IF p = n THEN Tail(inbox[n]) ELSE inbox[p]]
      <4>1. DOMAIN Bus!NoMessage = {} BY DEF Bus!NoMessage
      <4> QED BY <2>1, <4>1 DEF Bus!Handle, Bus!HandleAndSend
    <3>2. ASSUME NEW p \in Connected \ {n} PROVE Learns(p, {})
      <4>1. inbox'[p] = inbox[p] BY <3>1, <1>0
      <4> QED BY <4>1, <1>0, <1>1, OthersStay
    <3> QED BY <2>1, <3>1, <3>2, <1>0
  <2>2. ASSUME NEW ph \in Phases, NEW s \in Numbers, NEW r \in Request,
               T = {<<n, ph, s>>}, Bus!HandleAndSend(n, ToPeers(n, ph, s, r))
        PROVE  /\ inbox'[n] = Tail(inbox[n]) /\ \A p \in Node \ Connected : inbox'[p] = inbox[p]
               /\ \A p \in Connected \ {n} : Learns(p, T)
    <3>1. /\ \A p \in Connected \ {n} : \E m \in EnvelopesTo(p) :
               Id(m) = <<n, ph, s>> /\ inbox'[p] = Append(inbox[p], m)
          /\ \A p \in Node \ Connected : inbox'[p] = inbox[p]
          /\ inbox'[n] = Tail(inbox[n])
      BY <2>2, Reaches
    <3>2. ASSUME NEW p \in Connected \ {n} PROVE Learns(p, T)
      <4>1. PICK m \in EnvelopesTo(p) : Id(m) = <<n, ph, s>> /\ inbox'[p] = Append(inbox[p], m)
        BY <3>1
      <4>2. Learns(p, {Id(m)}) BY <4>1, <1>0, <1>1, OthersLearn
      <4> QED BY <4>1, <4>2, <2>2
    <3> QED BY <3>1, <3>2
  <2> QED BY <2>1, <2>2
<1>3. /\ 1 \in 0..Len(inbox[n]) /\ Len(inbox'[n]) \in Nat /\ Len(inbox'[n]) + 1 = Len(inbox[n])
      /\ \A k \in 0..Len(inbox'[n]) : KnownNext(n, k) = Known(n, k + 1) \cup T
  BY <1>0, <1>1, <1>2, HandlerLearns
<1>4. AllTold' /\ Causal' BY <1>0, <1>2, <1>3, KnownGrows
<1>5. CutOff' BY <1>0, <1>2 DEF CutOff
<1> QED BY <1>4, <1>5

(* A step in which a connected n says something that it was not told.      *)
LEMMA TellingKnows ==
  ASSUME OnBus, RoomLeft, CutOff, AllTold, Causal, UNCHANGED partitions,
         NEW n \in Connected, NEW ph \in Phases, NEW s \in Numbers, NEW r \in Request,
         Heard(n)' = Heard(n) \cup {<<n, ph, s>>},
         \A p \in Node \ {n} : Heard(p)' = Heard(p),
         Said' = Said \cup {<<n, ph, s>>}, Ready(Heard(n), <<n, ph, s>>),
         Bus!Send(n, ToPeers(n, ph, s, r))
  PROVE  AllTold' /\ Causal' /\ CutOff'
<1> DEFINE T == {<<n, ph, s>>}
<1>0. n \in Node /\ Connected \subseteq Node /\ Connected' = Connected BY DEF Connected
<1>1. \A p \in Node : ChannelOK(p) BY DEF OnBus
<1>2. /\ \A p \in Connected \ {n} : \E m \in EnvelopesTo(p) :
           Id(m) = <<n, ph, s>> /\ inbox'[p] = Append(inbox[p], m)
      /\ \A p \in Node \ Connected : inbox'[p] = inbox[p]
      /\ inbox'[n] = inbox[n]
  BY Reaches
<1>3. ASSUME NEW p \in Connected \ {n} PROVE Learns(p, T)
  <2>1. PICK m \in EnvelopesTo(p) : Id(m) = <<n, ph, s>> /\ inbox'[p] = Append(inbox[p], m)
    BY <1>2
  <2>2. Learns(p, {Id(m)}) BY <2>1, <1>0, <1>1, OthersLearn
  <2> QED BY <2>1, <2>2
<1>4. Len(inbox[n]) \in Nat BY <1>0, <1>1, LenProperties DEF ChannelOK
<1>5. \A k \in 0..Len(inbox'[n]) : KnownNext(n, k) = Known(n, k + 0) \cup T
  <2> SUFFICES ASSUME NEW k \in 0..Len(inbox'[n]) PROVE KnownNext(n, k) = Known(n, k + 0) \cup T
    OBVIOUS
  <2>1. k + 0 = k BY <1>2, <1>4
  <2> QED BY <1>2, <2>1 DEF KnownNext, Known
<1>6. Known(n, 0) = Heard(n) BY DEF Known, Coming
<1>7. \A v \in T : Ready(Known(n, 0), v) BY <1>6
<1>8. 0 \in 0..Len(inbox[n]) /\ Len(inbox'[n]) \in Nat /\ Len(inbox'[n]) + 0 = Len(inbox[n])
  BY <1>2, <1>4
<1>9. Said' = Said \cup T OBVIOUS
<1> DEFINE d == 0
<1>10. /\ d \in {0, 1} /\ d \in 0..Len(inbox[n]) /\ Len(inbox'[n]) + d = Len(inbox[n])
       /\ \A k \in 0..Len(inbox'[n]) : KnownNext(n, k) = Known(n, k + d) \cup T
       /\ \A v \in T : Ready(Known(n, d), v)
  BY <1>5, <1>7, <1>8
<1> HIDE DEF T, d
<1>11. AllTold' /\ Causal' BY <1>0, <1>3, <1>8, <1>9, <1>10, KnownGrows
<1>12. CutOff' BY <1>0, <1>2 DEF CutOff
<1> QED BY <1>11, <1>12

-----------------------------------------------------------------------------
(* The other parts of Order.                                               *)

(* Messages that stay in a channel, and those that are new in it.          *)
LEMMA InboxNext ==
  ASSUME OnBus, NEW n \in Node, NEW ph \in Phases, NEW s \in Numbers, NEW r \in Request,
         \/ Bus!Send(n, ToPeers(n, ph, s, r))
         \/ inbox[n] # <<>> /\ Bus!HandleAndSend(n, ToPeers(n, ph, s, r))
         \/ inbox[n] # <<>> /\ Bus!Handle(n)
  PROVE  \A p \in Node : \A i \in 1..Len(inbox'[p]) :
           \/ \E j \in 1..Len(inbox[p]) : inbox'[p][i] = inbox[p][j]
           \/ inbox'[p][i].seq = s /\ inbox'[p][i].digest = r
<1> SUFFICES ASSUME NEW p \in Node
             PROVE  \A i \in 1..Len(inbox'[p]) :
                      \/ \E j \in 1..Len(inbox[p]) : inbox'[p][i] = inbox[p][j]
                      \/ inbox'[p][i].seq = s /\ inbox'[p][i].digest = r
  OBVIOUS
<1> DEFINE out == ToPeers(n, ph, s, r)
           m == [from |-> n, phase |-> ph, seq |-> s, digest |-> r]
<1>1. inbox[p] \in Seq(EnvelopesTo(p)) BY DEF OnBus, ChannelOK
<1>2. n \notin DOMAIN out /\ \A q \in DOMAIN out : out[q] = m BY DEF ToPeers, Bus!Peers
<1>3. \/ inbox'[p] = inbox[p]
      \/ p # n /\ inbox'[p] = Append(inbox[p], m)
      \/ inbox[p] # <<>> /\ inbox'[p] = Tail(inbox[p])
  <2> HIDE DEF out, m
  <2>1. CASE Bus!Send(n, out) BY <2>1, <1>2 DEF Bus!Send
  <2>2. CASE inbox[n] # <<>> /\ Bus!HandleAndSend(n, out)
    BY <2>2, <1>2 DEF Bus!HandleAndSend
  <2>3. CASE inbox[n] # <<>> /\ Bus!Handle(n)
    <3>1. DOMAIN Bus!NoMessage = {} BY DEF Bus!NoMessage
    <3> QED BY <2>3, <3>1 DEF Bus!Handle, Bus!HandleAndSend
  <2> QED BY <2>1, <2>2, <2>3 DEF out
<1>4. CASE inbox'[p] = inbox[p] BY <1>4
<1>5. CASE p # n /\ inbox'[p] = Append(inbox[p], m)
  <2> DEFINE d == Append(inbox[p], m)
  <2>1. n \in Node \ {p} /\ m \in EnvelopesTo(p) BY <1>5 DEF EnvelopesTo, Phases, Numbers
  <2>2. /\ Len(d) = Len(inbox[p]) + 1 /\ Len(inbox[p]) \in Nat /\ d[Len(inbox[p]) + 1] = m
        /\ \A i \in 1..Len(inbox[p]) : d[i] = inbox[p][i]
    BY <1>1, <2>1, AppendProperties, LenProperties
  <2>3. inbox'[p] = d BY <1>5
  <2>4. m.seq = s /\ m.digest = r OBVIOUS
  <2> HIDE DEF d, m
  <2>5. \A i \in 1..Len(d) : i \in 1..Len(inbox[p]) \/ i = Len(inbox[p]) + 1 BY <2>2
  <2> QED BY <2>2, <2>3, <2>4, <2>5
<1>6. CASE inbox[p] # <<>> /\ inbox'[p] = Tail(inbox[p])
  <2>1. /\ Len(Tail(inbox[p])) = Len(inbox[p]) - 1 /\ Len(inbox[p]) \in Nat
        /\ \A i \in 1..Len(Tail(inbox[p])) : Tail(inbox[p])[i] = inbox[p][i + 1]
    BY <1>1, <1>6, HeadTailProperties, LenProperties
  <2>2. \A i \in 1..Len(Tail(inbox[p])) : i + 1 \in 1..Len(inbox[p]) BY <2>1
  <2> QED BY <1>6, <2>1, <2>2
<1> QED BY <1>3, <1>4, <1>5, <1>6

LEMMA OneDigestKept ==
  ASSUME TypeOK, OnBus, OneDigest, NEW s \in Numbers, NEW r \in Request,
         \A t \in Numbers : log[Primary][t] # NoEntry =>
                              log'[Primary][t].digest = log[Primary][t].digest,
         log'[Primary][s].digest = r,
         \A p \in Node : \A v \in sent'[p] : v \in sent[p] \/ (v[2] = s /\ v[3] = r),
         \A p \in Node : \A i \in 1..Len(inbox'[p]) :
           \/ \E j \in 1..Len(inbox[p]) : inbox'[p][i] = inbox[p][j]
           \/ inbox'[p][i].seq = s /\ inbox'[p][i].digest = r
  PROVE  OneDigest'
<1>1. \A t \in Numbers, q \in Request :
        log[Primary][t].digest = q => log'[Primary][t].digest = q
  <2>1. NoEntry.digest = "none" /\ "none" \notin Request BY PBFTAssumption DEF NoEntry
  <2> QED BY <2>1
<1>2. ASSUME NEW p \in Node, NEW v \in sent'[p] PROVE log'[Primary][v[2]].digest = v[3]
  <2>1. CASE v \in sent[p]
    <3>1. v \in Messages BY <2>1 DEF TypeOK
    <3>2. v[2] \in Numbers /\ v[3] \in Request BY <3>1 DEF Messages, Numbers
    <3> QED BY <2>1, <3>2, <1>1 DEF OneDigest
  <2>2. CASE v[2] = s /\ v[3] = r BY <2>2
  <2> QED BY <1>2, <2>1, <2>2
<1>3. ASSUME NEW p \in Node, NEW i \in 1..Len(inbox'[p])
      PROVE  log'[Primary][inbox'[p][i].seq].digest = inbox'[p][i].digest
  <2>1. CASE \E j \in 1..Len(inbox[p]) : inbox'[p][i] = inbox[p][j]
    <3>1. PICK j \in 1..Len(inbox[p]) : inbox'[p][i] = inbox[p][j] BY <2>1
    <3>2. inbox[p][j] \in EnvelopesTo(p) BY ElementOfSeq DEF OnBus, ChannelOK
    <3>3. inbox[p][j].seq \in Numbers /\ inbox[p][j].digest \in Request
      BY <3>2 DEF EnvelopesTo, Numbers
    <3> QED BY <3>1, <3>3, <1>1 DEF OneDigest
  <2>2. CASE inbox'[p][i].seq = s /\ inbox'[p][i].digest = r BY <2>2
  <2> QED BY <1>3, <2>1, <2>2
<1> QED BY <1>2, <1>3 DEF OneDigest

(* A step of n that sets its entry for s to e.                              *)
LEMMA EntryKeeps ==
  ASSUME TypeOK, Acted, Numbered, NEW n \in Node, NEW s \in Numbers, NEW e \in Entries,
         SetEntry(n, s, e), UNCHANGED partitions, n \in Connected => ActedOn(n, e),
         log[n][s] # NoEntry => e.digest = log[n][s].digest,
         \A t \in Numbers : t <= seq_num' => t <= seq_num \/ (n = Primary /\ t = s)
  PROVE  /\ Acted' /\ Numbered'
         /\ \A t \in Numbers : log[Primary][t] # NoEntry =>
              log'[Primary][t].digest = log[Primary][t].digest
<1>1. /\ log'[n][s] = e /\ \A t \in Numbers : t # s => log'[n][t] = log[n][t]
      /\ \A p \in Node \ {n} : log'[p] = log[p]
  <2>1. log \in [Node -> [Numbers -> Entries \cup {NoEntry}]] BY DEF TypeOK, Numbers
  <2> QED BY <2>1 DEF SetEntry
<1>2. e # NoEntry BY EntryOK
<1>3. Primary \in Node BY PBFTAssumption
<1>4. Connected' = Connected /\ Connected \subseteq Node BY DEF Connected
<1>5. ASSUME NEW p \in Connected, NEW t \in Numbers, log'[p][t] # NoEntry
      PROVE  ActedOn(p, log'[p][t])
  <2>1. CASE p = n /\ t = s BY <2>1, <1>1
  <2>2. CASE ~(p = n /\ t = s)
    <3>1. log'[p][t] = log[p][t] BY <2>2, <1>1, <1>4
    <3> QED BY <3>1, <1>5 DEF Acted
  <2> QED BY <2>1, <2>2
<1>6. Acted'
  <2>1. ASSUME NEW p \in Connected, NEW t \in Numbers, log'[p][t] # NoEntry
        PROVE  ActedOn(p, log[p][t])'
    BY <1>5, <2>1 DEF ActedOn, Prepared, Quorum, f
  <2> QED BY <1>4, <2>1 DEF Acted
<1>7. Numbered'
  <2> SUFFICES ASSUME NEW t \in Numbers, t <= seq_num' PROVE log'[Primary][t] # NoEntry
    BY DEF Numbered
  <2>1. CASE n = Primary /\ t = s BY <2>1, <1>1, <1>2
  <2>2. CASE ~(n = Primary /\ t = s)
    <3>1. log'[Primary][t] = log[Primary][t] BY <2>2, <1>1, <1>3
    <3> QED BY <2>2, <3>1 DEF Numbered
  <2> QED BY <2>1, <2>2
<1>8. ASSUME NEW t \in Numbers, log[Primary][t] # NoEntry
      PROVE  log'[Primary][t].digest = log[Primary][t].digest
  <2>1. CASE n = Primary /\ t = s BY <2>1, <1>1, <1>8
  <2>2. CASE ~(n = Primary /\ t = s)
    <3>1. log'[Primary][t] = log[Primary][t] BY <2>2, <1>1, <1>3
    <3> QED BY <3>1
  <2> QED BY <2>1, <2>2
<1> QED BY <1>6, <1>7, <1>8

-----------------------------------------------------------------------------
(* The steps on the bus.                                                   *)

LEMMA SubmitOrders ==
  ASSUME IInv, OnBus, Order, RoomLeft, NEW r \in Request, SubmitOnBus(r)
  PROVE  Order'
<1> DEFINE s == seq_num + 1
           e == NewEntry(r)
<1>1. /\ TypeOK /\ s \in Numbers /\ seq_num' = s /\ seq_num \in Nat /\ Primary \in Node
      /\ SetEntry(Primary, s, e) /\ Broadcast(Primary, "PRE-PREPARE", s, r)
      /\ UNCHANGED partitions /\ Bus!Send(Primary, ToPeers(Primary, "PRE-PREPARE", s, r))
  BY PBFTAssumption DEF SubmitOnBus, Submit, IInv, TypeOK, Numbers
<1>2. e \in Entries /\ e.digest = r /\ e.prepares = {} /\ e.commits = {} /\ e.committed = FALSE
  BY EntryOK DEF NewEntry
<1> HIDE DEF e
<1>3. log[Primary][s] = NoEntry
  <2>1. s > seq_num /\ Primary \in Correct BY <1>1 DEF OnBus, Correct
  <2> QED BY <1>1, <2>1 DEF IInv, Unnumbered
<1>4. "PRE-PREPARE" \in Phases BY DEF Phases
<1> HIDE DEF s
<1>5. ActedOn(Primary, e) BY <1>2 DEF ActedOn
<1>6. \A t \in Numbers : t <= seq_num' => t <= seq_num \/ (Primary = Primary /\ t = s)
  BY <1>1 DEF s, Numbers
<1>7. /\ Acted' /\ Numbered'
      /\ \A t \in Numbers : log[Primary][t] # NoEntry =>
           log'[Primary][t].digest = log[Primary][t].digest
  BY <1>1, <1>2, <1>3, <1>5, <1>6, EntryKeeps DEF Order
<1>8. OneDigest'
  <2>1. log'[Primary][s].digest = r BY <1>1, <1>2 DEF TypeOK, SetEntry, Numbers
  <2>2. \A p \in Node : \A v \in sent'[p] : v \in sent[p] \/ (v[2] = s /\ v[3] = r)
    BY <1>1 DEF TypeOK, Broadcast
  <2>3. \A p \in Node : \A i \in 1..Len(inbox'[p]) :
          \/ \E j \in 1..Len(inbox[p]) : inbox'[p][i] = inbox[p][j]
          \/ inbox'[p][i].seq = s /\ inbox'[p][i].digest = r
    BY <1>1, <1>4, InboxNext
  <2> QED BY <1>1, <1>7, <2>1, <2>2, <2>3, OneDigestKept DEF Order
<1>9. /\ Heard(Primary)' = Heard(Primary) \cup Noted(e, s)
      /\ \A p \in Node \ {Primary} : Heard(p)' = Heard(p)
  BY <1>1, <1>2, <1>3, HeardNext
<1>10. Said' = IF Primary \in Connected THEN Said \cup {<<Primary, "PRE-PREPARE", s>>} ELSE Said
  BY <1>1, <1>4, SaidNext
<1>11. CASE Primary \in Connected
  <2>1. Noted(e, s) = {<<Primary, "PRE-PREPARE", s>>}
    <3>1. ASSUME NEW v \in Noted(e, s) PROVE v = <<Primary, "PRE-PREPARE", s>>
      BY <1>2 DEF Noted, Sayings, Phases
    <3>2. <<Primary, "PRE-PREPARE", s>> \in Noted(e, s) BY <1>1, NotedOf
    <3> QED BY <3>1, <3>2
  <2>2. Ready(Heard(Primary), <<Primary, "PRE-PREPARE", s>>)
    <3>1. s > 1 => <<Primary, "PRE-PREPARE", s - 1>> \in Heard(Primary)
      <4> SUFFICES ASSUME s > 1 PROVE <<Primary, "PRE-PREPARE", s - 1>> \in Heard(Primary)
        OBVIOUS
      <4>0. s \in Numbers /\ s = seq_num + 1 /\ seq_num \in Nat BY <1>1 DEF s
      <4>1. s - 1 \in Numbers /\ s - 1 <= seq_num BY <4>0, PBFTAssumption DEF Numbers
      <4>2. log[Primary][s - 1] # NoEntry BY <4>1 DEF Order, Numbered
      <4> QED BY <1>1, <4>1, <4>2, HeardOf
    <3> DEFINE v == <<Primary, "PRE-PREPARE", s>>
    <3>2. v[1] = Primary /\ v[2] = "PRE-PREPARE" /\ v[3] = s OBVIOUS
    <3> HIDE DEF v
    <3>3. Ready(Heard(Primary), v) BY <3>1, <3>2 DEF Ready
    <3> QED BY <3>3 DEF v
  <2>3. AllTold' /\ Causal' /\ CutOff'
    BY <1>1, <1>4, <1>9, <1>10, <1>11, <2>1, <2>2, TellingKnows DEF Order
  <2> QED BY <1>7, <1>8, <2>3 DEF Order
<1>12. CASE Primary \notin Connected
  <2>1. Connected' = Connected /\ Connected \subseteq Node /\ Primary \in partitions
    BY <1>1, <1>12 DEF Connected
  <2>2. \A p \in Node : inbox'[p] = inbox[p] BY <1>1, <2>1 DEF Bus!Send, Bus!Accepts
  <2>3. \A p \in Connected : Heard(p)' = Heard(p) BY <1>9, <1>12, <2>1
  <2>4. \A p \in Connected : \A k : KnownNext(p, k) = Known(p, k)
    BY <2>1, <2>2, <2>3 DEF KnownNext, Known
  <2>5. AllTold'
    <3> SUFFICES ASSUME NEW p \in Connected PROVE KnownNext(p, Len(inbox'[p])) = Said'
      BY <2>1 DEF AllTold, Known, KnownNext
    <3> QED BY <1>10, <1>12, <2>1, <2>2, <2>4 DEF Order, AllTold
  <2>6. Causal'
    <3> SUFFICES ASSUME NEW p \in Connected, NEW k \in 0..Len(inbox'[p]),
                        NEW v \in KnownNext(p, k)
                 PROVE  Ready(KnownNext(p, k), v)
      BY <2>1 DEF Causal, Closed, Known, KnownNext, Ready, Prepared, PreparedBy, f
    <3>1. k \in 0..Len(inbox[p]) /\ KnownNext(p, k) = Known(p, k) BY <2>1, <2>2, <2>4
    <3> QED BY <3>1 DEF Order, Causal, Closed
  <2>7. CutOff' BY <2>1, <2>2 DEF Order, CutOff
  <2> QED BY <1>7, <1>8, <2>5, <2>6, <2>7 DEF Order
<1> QED BY <1>11, <1>12

(* What n finds when it handles a message.                                 *)
LEMMA HeadFound ==
  ASSUME IInv, OnBus, Order, NEW n \in Node, inbox[n] # <<>>,
         NEW m, m = Head(inbox[n])
  PROVE  /\ n \in Connected /\ n \in Correct
         /\ m.from \in Node \ {n} /\ m.phase \in Phases /\ m.seq \in Numbers
         /\ m.digest \in Request /\ log[Primary][m.seq].digest = m.digest
         /\ log[n][m.seq] # NoEntry =>
              log[n][m.seq] \in Entries /\ log[n][m.seq].digest = m.digest
         /\ m.phase # "PRE-PREPARE" => log[n][m.seq] # NoEntry
<1>1. n \in Connected /\ n \in Correct /\ faulty = {} BY DEF Order, CutOff, OnBus, Correct
<1>2. m \in EnvelopesTo(n) BY Dropped DEF OnBus
<1>3. /\ m.from \in Node \ {n} /\ m.phase \in Phases /\ m.seq \in Numbers
      /\ m.digest \in Request
  BY <1>2 DEF EnvelopesTo, Phases, Numbers
<1>4. log[Primary][m.seq].digest = m.digest
  <2>1. inbox[n] \in Seq(EnvelopesTo(n)) BY DEF OnBus, ChannelOK
  <2>2. m = inbox[n][1] /\ 1 \in 1..Len(inbox[n])
    BY <2>1, HeadTailProperties, LenProperties, EmptySeq
  <2> QED BY <2>2 DEF Order, OneDigest
<1>5. log[n][m.seq] # NoEntry =>
        log[n][m.seq] \in Entries /\ log[n][m.seq].digest = m.digest
  <2> SUFFICES ASSUME log[n][m.seq] # NoEntry
               PROVE  log[n][m.seq] \in Entries /\ log[n][m.seq].digest = m.digest
    OBVIOUS
  <2>1. log[n][m.seq] \in Entries BY <1>1, <1>3, EntryOf DEF IInv
  <2>2. Primary \in Node /\ Primary \in Correct BY <1>1, PBFTAssumption DEF Correct
  <2>3. <<"PRE-PREPARE", m.seq, log[n][m.seq].digest>> \in sent[Primary]
    BY <1>1, <1>3, <2>2 DEF IInv, Votes, Proposed
  <2> DEFINE v == <<"PRE-PREPARE", m.seq, log[n][m.seq].digest>>
  <2>4. v \in sent[Primary] /\ v[2] = m.seq /\ v[3] = log[n][m.seq].digest BY <2>3
  <2> HIDE DEF v
  <2>5. log[Primary][m.seq].digest = log[n][m.seq].digest
    BY <2>2, <2>4 DEF Order, OneDigest
  <2> QED BY <2>1, <2>5, <1>4
<1>6. m.phase # "PRE-PREPARE" => log[n][m.seq] # NoEntry
  <2> SUFFICES ASSUME m.phase # "PRE-PREPARE" PROVE log[n][m.seq] # NoEntry OBVIOUS
  <2>1. /\ Ready(Known(n, 1), Id(m)) /\ Known(n, 1) = Heard(n) \cup {Id(m)}
    BY <1>1, HeadReady DEF Order
  <2>2. Id(m) = <<m.from, m.phase, m.seq>> BY DEF Id
  <2>3. <<Primary, "PRE-PREPARE", m.seq>> \in Known(n, 1) BY <2>1, <2>2 DEF Ready
  <2>4. <<Primary, "PRE-PREPARE", m.seq>> # Id(m) BY <2>2
  <2>5. <<Primary, "PRE-PREPARE", m.seq>> \in Heard(n) BY <2>1, <2>3, <2>4
  <2> QED BY <1>3, <2>5, HeardOf, PBFTAssumption
<1> QED BY <1>1, <1>3, <1>4, <1>5, <1>6

LEMMA PrePrepareOrders ==
  ASSUME IInv, OnBus, Order, RoomLeft, NEW n \in Node, DispatchPrePrepare(n)
  PROVE  Order'
<1> DEFINE m == Head(inbox[n])
           s == m.seq
           r == m.digest
           d == IF log[n][s] = NoEntry THEN NewEntry(r) ELSE log[n][s]
           e == [d EXCEPT !.prepares = @ \cup {n}]
           T == {<<n, "PREPARE", s>>}
<1>1. /\ inbox[n] # <<>> /\ m.phase = "PRE-PREPARE" /\ m.from = Primary
      /\ SetEntry(n, s, e) /\ Broadcast(n, "PREPARE", s, r) /\ seq_num' = seq_num
      /\ UNCHANGED partitions /\ Bus!HandleAndSend(n, ToPeers(n, "PREPARE", s, r))
  BY DEF DispatchPrePrepare, Receives, OnPrePrepare, MayPropose
<1>2. /\ n \in Connected /\ n \in Correct /\ n # Primary /\ s \in Numbers /\ r \in Request
      /\ log[Primary][s].digest = r
      /\ log[n][s] # NoEntry => log[n][s] \in Entries /\ log[n][s].digest = r
  BY <1>1, HeadFound
<1>3. Id(m) = <<Primary, "PRE-PREPARE", s>> BY <1>1 DEF Id
<1>4. /\ Known(n, 1) = Heard(n) \cup {Id(m)} /\ Ready(Known(n, 1), Id(m))
  BY <1>1, <1>2, HeadReady DEF Order
<1>5. TypeOK /\ Primary \in Node /\ "PREPARE" \in Phases BY PBFTAssumption DEF IInv, Phases
<1> HIDE DEF m, s, r
<1>6. /\ d \in Entries /\ d.digest = r
      /\ log[n][s] = NoEntry => d.prepares = {} /\ d.commits = {} /\ d.committed = FALSE
      /\ log[n][s] # NoEntry => d = log[n][s]
  BY <1>2, EntryOK DEF NewEntry
<1> HIDE DEF d
<1>7. /\ e \in Entries /\ e.digest = r /\ e.prepares = d.prepares \cup {n}
      /\ e.commits = d.commits /\ e.committed = d.committed
  BY <1>6 DEF Entries
<1> HIDE DEF e
<1>8. log[n][s] # NoEntry => n \in log[n][s].prepares
  BY <1>2 DEF IInv, Votes, OwnPrepare
<1>9. ActedOn(n, e)
  <2>1. CASE log[n][s] = NoEntry BY <2>1, <1>6, <1>7 DEF ActedOn
  <2>2. CASE log[n][s] # NoEntry
    <3>1. e.prepares = log[n][s].prepares /\ e.commits = log[n][s].commits
          /\ e.committed = log[n][s].committed
      BY <2>2, <1>6, <1>7, <1>8
    <3>2. ActedOn(n, log[n][s]) BY <2>2, <1>2 DEF Order, Acted
    <3> QED BY <3>1, <3>2 DEF ActedOn
  <2> QED BY <2>1, <2>2
<1>10. /\ Acted' /\ Numbered'
       /\ \A t \in Numbers : log[Primary][t] # NoEntry =>
            log'[Primary][t].digest = log[Primary][t].digest
  <2>1. log[n][s] # NoEntry => e.digest = log[n][s].digest BY <1>2, <1>7
  <2> QED BY <1>1, <1>2, <1>5, <1>7, <1>9, <2>1, EntryKeeps DEF Order
<1>11. OneDigest'
  <2>1. log'[Primary][s].digest = r
    <3>1. log[Primary][s] # NoEntry BY <1>2, PBFTAssumption DEF NoEntry
    <3> QED BY <3>1, <1>2, <1>10
  <2>2. \A p \in Node : \A v \in sent'[p] : v \in sent[p] \/ (v[2] = s /\ v[3] = r)
    BY <1>1, <1>5 DEF TypeOK, Broadcast
  <2>3. \A p \in Node : \A i \in 1..Len(inbox'[p]) :
          \/ \E j \in 1..Len(inbox[p]) : inbox'[p][i] = inbox[p][j]
          \/ inbox'[p][i].seq = s /\ inbox'[p][i].digest = r
    BY <1>1, <1>2, <1>5, InboxNext
  <2> QED BY <1>2, <1>5, <1>10, <2>1, <2>2, <2>3, OneDigestKept DEF Order
<1>12. log[n][s] # NoEntry => Noted(log[n][s], s) = Noted(e, s)
  <2> SUFFICES ASSUME log[n][s] # NoEntry PROVE Noted(log[n][s], s) = Noted(e, s) OBVIOUS
  <2>1. e.prepares = log[n][s].prepares /\ e.commits = log[n][s].commits
    BY <1>6, <1>7, <1>8
  <2> QED BY <2>1 DEF Noted
<1>13. /\ Heard(n)' = Heard(n) \cup Noted(e, s)
       /\ \A p \in Node \ {n} : Heard(p)' = Heard(p)
  BY <1>1, <1>2, <1>5, <1>7, <1>12, HeardNext
<1>14. Heard(n)' = Heard(n) \cup {Id(m)} \cup T
  <2>1. Id(m) \in Noted(e, s) /\ <<n, "PREPARE", s>> \in Noted(e, s)
    <3>1. n \in e.prepares BY <1>7
    <3>2. <<n, "PREPARE", s>> \in Noted(e, s) BY <1>2, <3>1, NotedOf
    <3>3. <<Primary, "PRE-PREPARE", s>> \in Noted(e, s) BY <1>2, <1>5, NotedOf
    <3> QED BY <1>3, <3>2, <3>3
  <2>2. CASE log[n][s] = NoEntry
    <3>1. ASSUME NEW v \in Noted(e, s) PROVE v = Id(m) \/ v = <<n, "PREPARE", s>>
      BY <2>2, <1>3, <1>6, <1>7 DEF Noted, Sayings, Phases
    <3> QED BY <1>13, <2>1, <3>1
  <2>3. CASE log[n][s] # NoEntry
    <3>1. Noted(e, s) \subseteq Heard(n)
      <4> SUFFICES ASSUME NEW v \in Noted(e, s) PROVE v \in Heard(n) OBVIOUS
      <4>1. v[3] = s /\ v \in Noted(log[n][s], s) BY <2>3, <1>12 DEF Noted
      <4> QED BY <2>3, <1>2, <4>1, HeardNoted
    <3> QED BY <1>13, <2>1, <3>1
  <2> QED BY <2>2, <2>3
<1>15. Said' = Said \cup T BY <1>1, <1>2, <1>5, SaidNext
<1>16. Ready(Known(n, 1), <<n, "PREPARE", s>>)
  <2>1. s > 1 => <<n, "PREPARE", s - 1>> \in Known(n, 1)
    <3> SUFFICES ASSUME s > 1 PROVE <<n, "PREPARE", s - 1>> \in Known(n, 1) OBVIOUS
    <3>1. s - 1 \in Numbers /\ s - 1 # s BY <1>2, PBFTAssumption DEF Numbers
    <3>2. <<Primary, "PRE-PREPARE", s - 1>> \in Known(n, 1) BY <1>3, <1>4 DEF Ready
    <3>3. <<Primary, "PRE-PREPARE", s - 1>> \in Heard(n) BY <1>3, <1>4, <3>1, <3>2
    <3>4. log[n][s - 1] # NoEntry BY <3>1, <3>3, <1>5, HeardOf
    <3>5. n \in log[n][s - 1].prepares BY <1>2, <3>1, <3>4 DEF IInv, Votes, OwnPrepare
    <3> QED BY <1>4, <3>1, <3>4, <3>5, HeardOf
  <2>2. <<Primary, "PRE-PREPARE", s>> \in Known(n, 1) BY <1>3, <1>4
  <2> DEFINE v == <<n, "PREPARE", s>>
  <2>3. v[1] = n /\ v[2] = "PREPARE" /\ v[3] = s OBVIOUS
  <2> HIDE DEF v
  <2>4. Ready(Known(n, 1), v) BY <1>2, <2>1, <2>2, <2>3 DEF Ready
  <2> QED BY <2>4 DEF v
<1>17. AllTold' /\ Causal' /\ CutOff'
  <2>1. \A v \in T : Ready(Known(n, 1), v) BY <1>16
  <2>2. \E ph \in Phases, t \in Numbers, q \in Request :
          T = {<<n, ph, t>>} /\ Bus!HandleAndSend(n, ToPeers(n, ph, t, q))
    BY <1>1, <1>2, <1>5
  <2> HIDE DEF T
  <2> QED BY <1>1, <1>2, <1>13, <1>14, <1>15, <2>1, <2>2, HandlingKnows DEF m, Order
<1> QED BY <1>10, <1>11, <1>17 DEF Order

LEMMA CommitOrders ==
  ASSUME IInv, OnBus, Order, RoomLeft, NEW n \in Node, DispatchCommit(n)
  PROVE  Order'
<1> DEFINE m == Head(inbox[n])
           q == m.from
           s == m.seq
           r == m.digest
           d == log[n][s]
           votes == d.commits \cup {q}
           e == [d EXCEPT !.commits = votes, !.committed = @ \/ Quorum(votes)]
<1>1. /\ inbox[n] # <<>> /\ m.phase = "COMMIT" /\ Bus!Handle(n) /\ UNCHANGED partitions
      /\ IF Matches(n, m) THEN OnCommit(n, q, s, r) ELSE UNCHANGED vars
  BY DEF DispatchCommit, Receives
<1>2. /\ n \in Connected /\ n \in Correct /\ q \in Node \ {n} /\ s \in Numbers /\ r \in Request
      /\ log[Primary][s].digest = r /\ d # NoEntry /\ d \in Entries /\ d.digest = r
  BY <1>1, HeadFound
<1>3. SetEntry(n, s, e) /\ seq_num' = seq_num /\ sent' = sent
  BY <1>1, <1>2 DEF Matches, OnCommit
<1>4. Id(m) = <<q, "COMMIT", s>> BY <1>1 DEF Id
<1>5. TypeOK /\ Primary \in Node BY PBFTAssumption DEF IInv
<1> HIDE DEF m, q, s, r
<1>6. /\ e \in Entries /\ e.digest = r /\ e.prepares = d.prepares /\ e.commits = votes
      /\ e.committed <=> d.committed \/ Quorum(votes)
  <2>1. (d.committed \/ Quorum(votes)) \in BOOLEAN BY <1>2 DEF Entries
  <2> QED BY <2>1, <1>2 DEF Entries
<1> HIDE DEF e
<1>7. ActedOn(n, e)
  <2>1. ActedOn(n, d) BY <1>2 DEF Order, Acted
  <2>2. d.commits \in SUBSET Node /\ votes \in SUBSET Node BY <1>2 DEF Entries
  <2>3. Quorum(d.commits) => Quorum(votes) BY <2>2, QuorumGrows
  <2>4. votes \ {n} # {} BY <1>2
  <2> QED BY <1>6, <2>1, <2>3, <2>4 DEF ActedOn
<1>8. /\ Acted' /\ Numbered'
      /\ \A t \in Numbers : log[Primary][t] # NoEntry =>
           log'[Primary][t].digest = log[Primary][t].digest
  BY <1>1, <1>2, <1>3, <1>5, <1>6, <1>7, EntryKeeps DEF Order
<1>9. OneDigest'
  <2>1. log'[Primary][s].digest = r
    <3>1. log[Primary][s] # NoEntry BY <1>2, PBFTAssumption DEF NoEntry
    <3> QED BY <3>1, <1>2, <1>8
  <2>2. \A p \in Node : \A v \in sent'[p] : v \in sent[p] \/ (v[2] = s /\ v[3] = r)
    BY <1>3
  <2>3. \A p \in Node : \A i \in 1..Len(inbox'[p]) :
          \/ \E j \in 1..Len(inbox[p]) : inbox'[p][i] = inbox[p][j]
          \/ inbox'[p][i].seq = s /\ inbox'[p][i].digest = r
    <3>1. "COMMIT" \in Phases BY DEF Phases
    <3> QED BY <1>1, <1>2, <3>1, InboxNext
  <2> QED BY <1>2, <1>5, <1>8, <2>1, <2>2, <2>3, OneDigestKept DEF Order
<1>10. Noted(d, s) \subseteq Noted(e, s) BY <1>6 DEF Noted
<1>11. /\ Heard(n)' = Heard(n) \cup Noted(e, s)
       /\ \A p \in Node \ {n} : Heard(p)' = Heard(p)
  BY <1>2, <1>3, <1>5, <1>6, <1>10, HeardNext
<1>12. Heard(n)' = Heard(n) \cup {Id(m)} \cup {}
  <2>0. q \in e.commits /\ q \in Node BY <1>2, <1>6
  <2>1. Id(m) \in Noted(e, s)
    <3>1. <<q, "COMMIT", s>> \in Noted(e, s) BY <1>2, <2>0, NotedOf
    <3> QED BY <3>1, <1>4
  <2>2. ASSUME NEW v \in Noted(e, s), v # Id(m) PROVE v \in Heard(n)
    <3>1. v \in Noted(d, s) BY <2>2, <1>4, <1>6 DEF Noted, Sayings
    <3>2. v[3] = s BY DEF Noted
    <3> QED BY <1>2, <3>1, <3>2, HeardNoted
  <2> QED BY <1>11, <2>1, <2>2
<1>13. Said' = Said \cup {}
  <2>1. Connected' = Connected BY <1>1 DEF Connected
  <2> QED BY <1>3, <2>1 DEF Said, Sayings
<1>14. AllTold' /\ Causal' /\ CutOff'
  BY <1>1, <1>2, <1>11, <1>12, <1>13, HandlingKnows DEF m, Order
<1> QED BY <1>8, <1>9, <1>14 DEF Order

(* Where d is what n finds when q's PREPARE for s arrives. *)
LEMMA PrepareActs ==
  ASSUME NEW n \in Node, NEW q \in Node \ {n}, NEW d \in Entries, NEW e \in Entries,
         ActedOn(n, d), d.commits \ {n} # {} => Prepared(d.prepares),
         q \in d.commits => q \in d.prepares,
         e.prepares = d.prepares \cup {q}, e.committed = d.committed,
         e.commits = IF CallsForCommit(d, q) THEN d.commits \cup {n} ELSE d.commits
  PROVE  ActedOn(n, e)
<1>1. /\ d.prepares \in SUBSET Node /\ d.commits \in SUBSET Node
      /\ e.prepares \in SUBSET Node /\ e.commits \in SUBSET Node /\ d.commits \subseteq e.commits
  BY DEF Entries
<1>2. ASSUME Prepared(e.prepares) PROVE n \in e.commits
  <2>1. CASE q \in d.commits
    <3>1. e.prepares = d.prepares /\ q \in d.prepares \ {n} BY <2>1
    <3> QED BY <1>1, <1>2, <3>1 DEF ActedOn
  <2>2. CASE q \notin d.commits BY <1>2, <2>2 DEF CallsForCommit
  <2> QED BY <2>1, <2>2
<1>3. e.committed <=> e.commits \ {n} # {} /\ Quorum(e.commits)
  <2>1. CASE e.commits = d.commits BY <2>1 DEF ActedOn
  <2>2. CASE d.commits \ {n} = {}
    <3>1. e.commits \ {n} = {} BY <2>2
    <3> QED BY <2>2, <3>1 DEF ActedOn
  <2>3. CASE e.commits # d.commits /\ d.commits \ {n} # {}
    <3>1. n \notin d.commits BY <2>3
    <3>2. Prepared(d.prepares) BY <2>3
    <3>3. d.prepares \subseteq {n} BY <3>1, <3>2 DEF ActedOn
    <3>4. f = 0
      <4>1. IsFiniteSet({n}) /\ Cardinality({n}) = 1 BY FS_Singleton
      <4>2. Cardinality(d.prepares) <= 1 /\ Cardinality(d.prepares) \in Nat
        BY <3>3, <4>1, <1>1, Sizes, FS_Subset
      <4>3. Cardinality(d.prepares) >= 2 * f BY <3>2 DEF Prepared
      <4> QED BY <4>2, <4>3, Sizes
    <3>5. Quorum(d.commits)
      <4>1. IsFiniteSet(d.commits) /\ Cardinality(d.commits) \in Nat BY <1>1, Sizes
      <4>2. Cardinality(d.commits) # 0 BY <2>3, <4>1, FS_EmptySet
      <4> QED BY <3>4, <4>1, <4>2 DEF Quorum
    <3>6. Quorum(e.commits) BY <1>1, <3>5, QuorumGrows
    <3>7. e.commits \ {n} # {} BY <2>3, <1>1
    <3> QED BY <2>3, <3>5, <3>6, <3>7 DEF ActedOn
  <2> QED BY <2>1, <2>2, <2>3
<1> QED BY <1>2, <1>3 DEF ActedOn

LEMMA PrepareOrders ==
  ASSUME IInv, OnBus, Order, RoomLeft, NEW n \in Node, DispatchPrepare(n)
  PROVE  Order'
<1> DEFINE m == Head(inbox[n])
           q == m.from
           s == m.seq
           r == m.digest
           d == log[n][s]
           votes == d.prepares \cup {q}
           Vote == CallsForCommit(d, q)
           e == [d EXCEPT !.prepares = votes, !.commits = IF Vote THEN @ \cup {n} ELSE @]
           T == IF Vote THEN {<<n, "COMMIT", s>>} ELSE {}
<1>1. /\ inbox[n] # <<>> /\ m.phase = "PREPARE" /\ UNCHANGED partitions
      /\ IF Matches(n, m) THEN OnPrepare(n, q, s, r) ELSE UNCHANGED vars
      /\ IF Matches(n, m) /\ Vote THEN Bus!HandleAndSend(n, ToPeers(n, "COMMIT", s, r))
                                  ELSE Bus!Handle(n)
  BY DEF DispatchPrepare, Receives
<1>2. /\ n \in Connected /\ n \in Correct /\ q \in Node \ {n} /\ s \in Numbers /\ r \in Request
      /\ log[Primary][s].digest = r /\ d # NoEntry /\ d \in Entries /\ d.digest = r
  BY <1>1, HeadFound
<1>3. OnPrepare(n, q, s, r)
      /\ IF Vote THEN Bus!HandleAndSend(n, ToPeers(n, "COMMIT", s, r)) ELSE Bus!Handle(n)
  BY <1>1, <1>2 DEF Matches
<1>4. /\ SetEntry(n, s, e) /\ seq_num' = seq_num
      /\ IF Vote THEN Broadcast(n, "COMMIT", s, r) ELSE sent' = sent
  <2>1. CASE Vote BY <2>1, <1>3 DEF OnPrepare
  <2>2. CASE ~Vote
    <3>1. [d EXCEPT !.prepares = votes] = e BY <2>2, <1>2 DEF Entries
    <3> QED BY <2>2, <3>1, <1>3 DEF OnPrepare
  <2> QED BY <2>1, <2>2
<1>5. Id(m) = <<q, "PREPARE", s>> BY <1>1 DEF Id
<1>6. TypeOK /\ Primary \in Node /\ "COMMIT" \in Phases BY PBFTAssumption DEF IInv, Phases
<1>7. /\ Known(n, 1) = Heard(n) \cup {Id(m)} /\ Ready(Known(n, 1), Id(m))
      /\ Closed(Known(n, 1)) /\ Closed(Heard(n))
  BY <1>1, <1>2, HeadReady DEF Order
<1> HIDE DEF m, q, s, r
<1>8. /\ e \in Entries /\ e.digest = r /\ e.prepares = votes
      /\ e.commits = (IF Vote THEN d.commits \cup {n} ELSE d.commits)
      /\ e.committed = d.committed
  <2> HIDE DEF Vote
  <2> QED BY <1>2 DEF Entries
<1> HIDE DEF e
<1>9. q # Primary BY <1>5, <1>7 DEF Ready
<1>10. ActedOn(n, e)
  <2>1. ActedOn(n, d) BY <1>2 DEF Order, Acted
  <2>2. ASSUME NEW p \in d.commits
        PROVE  Prepared(d.prepares) /\ (p # Primary => p \in d.prepares)
    <3>0. p \in Node BY <1>2 DEF Entries
    <3> DEFINE v == <<p, "COMMIT", s>>
    <3>1. v \in Heard(n) BY <1>2, <3>0, HeardOf
    <3>2. v[1] = p /\ v[2] = "COMMIT" /\ v[3] = s OBVIOUS
    <3> HIDE DEF v
    <3>3. Ready(Heard(n), v) BY <1>7, <3>1 DEF Closed
    <3>4. Prepared(PreparedBy(Heard(n), s)) /\ (p # Primary => <<p, "PREPARE", s>> \in Heard(n))
      BY <3>2, <3>3 DEF Ready
    <3>5. PreparedBy(Heard(n), s) \subseteq d.prepares BY <1>2, HeardOf DEF PreparedBy
    <3>6. PreparedBy(Heard(n), s) \in SUBSET Node /\ d.prepares \in SUBSET Node
      BY <1>2 DEF PreparedBy, Entries
    <3>7. Prepared(d.prepares) BY <3>4, <3>5, <3>6, PreparedGrows
    <3> QED BY <1>2, <3>0, <3>4, <3>7, HeardOf
  <2>3. /\ d.commits \ {n} # {} => Prepared(d.prepares)
        /\ q \in d.commits => q \in d.prepares
    BY <2>2, <1>9
  <2> QED BY <1>2, <1>8, <2>1, <2>3, PrepareActs
<1>11. /\ Acted' /\ Numbered'
       /\ \A t \in Numbers : log[Primary][t] # NoEntry =>
            log'[Primary][t].digest = log[Primary][t].digest
  BY <1>1, <1>2, <1>4, <1>6, <1>8, <1>10, EntryKeeps DEF Order
<1>12. OneDigest'
  <2>1. log'[Primary][s].digest = r
    <3>1. log[Primary][s] # NoEntry BY <1>2, PBFTAssumption DEF NoEntry
    <3> QED BY <3>1, <1>2, <1>11
  <2>2. \A p \in Node : \A v \in sent'[p] : v \in sent[p] \/ (v[2] = s /\ v[3] = r)
    <3> HIDE DEF Vote
    <3> QED BY <1>4, <1>6 DEF TypeOK, Broadcast
  <2>3. \A p \in Node : \A i \in 1..Len(inbox'[p]) :
          \/ \E j \in 1..Len(inbox[p]) : inbox'[p][i] = inbox[p][j]
          \/ inbox'[p][i].seq = s /\ inbox'[p][i].digest = r
    BY <1>1, <1>2, <1>3, <1>6, InboxNext
  <2> QED BY <1>2, <1>6, <1>11, <2>1, <2>2, <2>3, OneDigestKept DEF Order
<1>13. Noted(d, s) \subseteq Noted(e, s)
  <2>1. d.prepares \subseteq e.prepares /\ d.commits \subseteq e.commits BY <1>8
  <2> QED BY <2>1 DEF Noted
<1>14. /\ Heard(n)' = Heard(n) \cup Noted(e, s)
       /\ \A p \in Node \ {n} : Heard(p)' = Heard(p)
  BY <1>2, <1>4, <1>6, <1>8, <1>13, HeardNext
<1>15. Heard(n)' = Heard(n) \cup {Id(m)} \cup T
  <2>1. Id(m) \in Noted(e, s)
    <3>1. q \in e.prepares /\ q \in Node BY <1>2, <1>8
    <3>2. <<q, "PREPARE", s>> \in Noted(e, s) BY <1>2, <3>1, NotedOf
    <3> QED BY <3>2, <1>5
  <2>2. T \subseteq Noted(e, s)
    <3> SUFFICES ASSUME Vote PROVE <<n, "COMMIT", s>> \in Noted(e, s) OBVIOUS
    <3>1. n \in e.commits BY <1>8
    <3> QED BY <1>2, <3>1, NotedOf
  <2>3. ASSUME NEW v \in Noted(e, s), v # Id(m), v \notin T PROVE v \in Heard(n)
    <3>1. v[3] = s /\ v \in Sayings BY DEF Noted
    <3>2. CASE v \in Noted(d, s) BY <1>2, <3>1, <3>2, HeardNoted
    <3>3. CASE v \notin Noted(d, s)
      <4>1. v = <<q, "PREPARE", s>> \/ (Vote /\ v = <<n, "COMMIT", s>>)
        BY <1>8, <3>1, <3>3 DEF Noted, Sayings, Phases
      <4> QED BY <2>3, <4>1, <1>5
    <3> QED BY <3>2, <3>3
  <2> QED BY <1>14, <2>1, <2>2, <2>3
<1>16. Said' = Said \cup T
  <2>1. CASE Vote BY <2>1, <1>1, <1>2, <1>4, <1>6, SaidNext
  <2>2. CASE ~Vote
    <3>1. Connected' = Connected /\ sent' = sent BY <2>2, <1>1, <1>4 DEF Connected
    <3> QED BY <2>2, <3>1 DEF Said, Sayings
  <2> QED BY <2>1, <2>2
<1>17. ASSUME Vote PROVE Ready(Known(n, 1), <<n, "COMMIT", s>>)
  <2>1. \A p \in votes : p \in Node /\ <<p, "PREPARE", s>> \in Known(n, 1)
    <3>1. d.prepares \subseteq Node BY <1>2 DEF Entries
    <3>2. \A p \in d.prepares : <<p, "PREPARE", s>> \in Heard(n) BY <3>1, <1>2, HeardOf
    <3> QED BY <3>1, <3>2, <1>2, <1>5, <1>7
  <2>2. Prepared(PreparedBy(Known(n, 1), s))
    <3>1. votes \in SUBSET Node /\ votes \subseteq PreparedBy(Known(n, 1), s)
      BY <2>1 DEF PreparedBy
    <3>2. PreparedBy(Known(n, 1), s) \in SUBSET Node BY DEF PreparedBy
    <3> QED BY <1>17, <3>1, <3>2, PreparedGrows DEF CallsForCommit
  <2>3. <<Primary, "PRE-PREPARE", s>> \in Known(n, 1) BY <1>2, <1>6, <1>7, HeardOf
  <2>4. n # Primary => <<n, "PREPARE", s>> \in Known(n, 1)
    <3>1. n # Primary => n \in d.prepares BY <1>2 DEF IInv, Votes, OwnPrepare
    <3> QED BY <3>1, <2>1
  <2>5. s > 1 => <<n, "COMMIT", s - 1>> \in Known(n, 1)
    <3> SUFFICES ASSUME s > 1 PROVE <<n, "COMMIT", s - 1>> \in Known(n, 1) OBVIOUS
    <3>1. s - 1 \in Numbers /\ s - 1 # s BY <1>2, PBFTAssumption DEF Numbers
    <3> DEFINE before == log[n][s - 1]
    <3>2. ASSUME NEW p \in votes PROVE before # NoEntry /\ p \in before.prepares
      <4> DEFINE v == <<p, "PREPARE", s>>
      <4>1. v[1] = p /\ v[2] = "PREPARE" /\ v[3] = s /\ v \in Known(n, 1) BY <2>1
      <4> HIDE DEF v
      <4>2. Ready(Known(n, 1), v) BY <4>1, <1>7 DEF Closed
      <4>3. <<p, "PREPARE", s - 1>> \in Known(n, 1) BY <4>1, <4>2 DEF Ready
      <4>4. <<p, "PREPARE", s - 1>> \in Heard(n) BY <4>3, <1>5, <1>7, <3>1
      <4> QED BY <2>1, <3>1, <4>4, HeardOf
    <3>3. q \in votes OBVIOUS
    <3>4. before # NoEntry /\ q \in before.prepares /\ votes \subseteq before.prepares
      BY <3>2, <3>3
    <3>5. before \in Entries BY <1>2, <1>6, <3>1, <3>4, EntryOf
    <3>6. Prepared(before.prepares)
      <4>1. votes \in SUBSET Node /\ before.prepares \in SUBSET Node BY <2>1, <3>5 DEF Entries
      <4> QED BY <1>17, <3>4, <4>1, PreparedGrows DEF CallsForCommit
    <3>7. n \in before.commits
      <4>1. ActedOn(n, before) BY <1>2, <3>1, <3>4 DEF Order, Acted
      <4>2. before.prepares \ {n} # {} BY <1>2, <3>4
      <4> QED BY <3>6, <4>1, <4>2 DEF ActedOn
    <3> QED BY <1>7, <3>1, <3>4, <3>7, HeardOf
  <2> DEFINE v == <<n, "COMMIT", s>>
  <2>6. v[1] = n /\ v[2] = "COMMIT" /\ v[3] = s OBVIOUS
  <2> HIDE DEF v
  <2>7. Ready(Known(n, 1), v) BY <2>2, <2>3, <2>4, <2>5, <2>6 DEF Ready
  <2> QED BY <2>7 DEF v
<1>18. AllTold' /\ Causal' /\ CutOff'
  <2>1. \A v \in T : Ready(Known(n, 1), v) BY <1>17
  <2>2. \/ T = {} /\ Bus!Handle(n)
        \/ \E ph \in Phases, t \in Numbers, p \in Request :
             T = {<<n, ph, t>>} /\ Bus!HandleAndSend(n, ToPeers(n, ph, t, p))
    <3>1. CASE Vote
      <4>1. T = {<<n, "COMMIT", s>>} /\ Bus!HandleAndSend(n, ToPeers(n, "COMMIT", s, r))
        BY <3>1, <1>3
      <4> HIDE DEF T
      <4> QED BY <4>1, <1>2, <1>6
    <3>2. CASE ~Vote BY <3>2, <1>3
    <3> QED BY <3>1, <3>2
  <2> HIDE DEF T
  <2> QED BY <1>1, <1>2, <1>14, <1>15, <1>16, <2>1, <2>2, HandlingKnows DEF m, Order
<1> QED BY <1>11, <1>12, <1>18 DEF Order

LEMMA OrderInit == InitOnBus => Order
<1> SUFFICES ASSUME InitOnBus PROVE Order OBVIOUS
<1>1. log = [n \in Node |-> [s \in Numbers |-> NoEntry]] /\ sent = [n \in Node |-> {}]
      /\ inbox = [n \in Node |-> <<>>] /\ seq_num = 0 /\ Connected \subseteq Node
  BY DEF InitOnBus, Init, Numbers, Connected
<1>2. \A n \in Node : Len(inbox[n]) = 0 BY <1>1, EmptySeq
<1>3. \A n \in Connected : Heard(n) = {} BY <1>1 DEF Heard, Sayings
<1>4. Said = {} BY <1>1 DEF Said, Sayings
<1>5. \A n \in Connected : Known(n, 0) = {} BY <1>3 DEF Known, Coming
<1>6. AllTold BY <1>1, <1>2, <1>4, <1>5 DEF AllTold
<1>7. Causal
  <2> SUFFICES ASSUME NEW n \in Connected, NEW k \in 0..Len(inbox[n])
               PROVE  Closed(Known(n, k))
    BY DEF Causal
  <2>1. Len(inbox[n]) = 0 BY <1>1, <1>2
  <2>2. k = 0 BY <2>1
  <2> QED BY <1>5, <2>2 DEF Closed
<1>8. CutOff /\ OneDigest BY <1>1, <1>2 DEF CutOff, OneDigest
<1>9. Numbered /\ Acted BY <1>1 DEF Numbered, Acted, Numbers
<1> QED BY <1>6, <1>7, <1>8, <1>9 DEF Order

LEMMA OrderNext ==
  ASSUME IInv, OnBus, Order, RoomLeft, [NextOnBus]_onBusVars
  PROVE  Order'
<1>1. ASSUME NEW r \in Request, SubmitOnBus(r) PROVE Order' BY <1>1, SubmitOrders
<1>2. ASSUME NEW n \in Node, Dispatch(n) PROVE Order'
  BY <1>2, PrePrepareOrders, PrepareOrders, CommitOrders DEF Dispatch
<1>3. CASE UNCHANGED onBusVars
  <2>1. /\ log' = log /\ sent' = sent /\ seq_num' = seq_num /\ inbox' = inbox
        /\ Connected' = Connected
    BY <1>3 DEF onBusVars, vars, Connected
  <2>2. Said' = Said BY <2>1 DEF Said, Sayings
  <2>3. ASSUME NEW n, NEW k PROVE KnownNext(n, k) = Known(n, k)
    BY <2>1 DEF KnownNext, Known, Heard, Noted
  <2>4. AllTold'
    <3> SUFFICES ASSUME NEW n \in Connected PROVE KnownNext(n, Len(inbox'[n])) = Said'
      BY <2>1 DEF AllTold, Known, KnownNext
    <3> QED BY <2>1, <2>2, <2>3 DEF Order, AllTold
  <2>5. Causal'
    <3> SUFFICES ASSUME NEW n \in Connected, NEW k \in 0..Len(inbox'[n]),
                        NEW v \in KnownNext(n, k)
                 PROVE  Ready(KnownNext(n, k), v)
      BY <2>1 DEF Causal, Closed, Known, KnownNext, Ready, Prepared, PreparedBy, f
    <3> QED BY <2>1, <2>3 DEF Order, Causal, Closed
  <2>6. CutOff' /\ OneDigest' /\ Numbered' BY <2>1 DEF Order, CutOff, OneDigest, Numbered
  <2>7. Acted' BY <2>1 DEF Order, Acted, ActedOn, Prepared, Quorum, f
  <2> QED BY <2>4, <2>5, <2>6, <2>7 DEF Order
<1> QED BY <1>1, <1>2, <1>3 DEF NextOnBus

(* Who has another's vote of a quorum has it for the number before. *)
LEMMA InOrder ==
  ASSUME IInv, OnBus, Order
  PROVE  ExecutedInOrder
<1> SUFFICES ASSUME NEW n \in Connected, NEW s \in 2..MaxSeq, Executed(n, s)
             PROVE  Executed(n, s - 1)
  BY DEF ExecutedInOrder
<1> DEFINE d == log[n][s]
           before == log[n][s - 1]
<1>1. /\ s \in Numbers /\ s - 1 \in Numbers /\ s > 1 /\ n \in Node /\ n \in Correct
      /\ TypeOK /\ Primary \in Node
  BY PBFTAssumption DEF Numbers, Connected, OnBus, Correct, IInv
<1>2. d # NoEntry /\ d \in Entries /\ d.committed BY <1>1, EntryOf DEF Executed, CommittedAs
<1>3. d.commits \ {n} # {} /\ Quorum(d.commits)
  <2>1. ActedOn(n, d) BY <1>1, <1>2 DEF Order, Acted
  <2> QED BY <1>2, <2>1 DEF ActedOn
<1>4. Closed(Heard(n))
  <2>1. Known(n, 0) = Heard(n) BY DEF Known, Coming
  <2>2. 0 \in 0..Len(inbox[n]) BY <1>1, LenProperties DEF OnBus, ChannelOK
  <2> QED BY <2>1, <2>2 DEF Order, Causal
<1>5. ASSUME NEW p \in d.commits PROVE before # NoEntry /\ p \in before.commits
  <2>0. p \in Node BY <1>2 DEF Entries
  <2> DEFINE v == <<p, "COMMIT", s>>
  <2>1. v[1] = p /\ v[2] = "COMMIT" /\ v[3] = s OBVIOUS
  <2>2. v \in Heard(n) BY <1>1, <1>2, <2>0, HeardOf
  <2> HIDE DEF v
  <2>3. Ready(Heard(n), v) BY <1>4, <2>2 DEF Closed
  <2>4. <<p, "COMMIT", s - 1>> \in Heard(n) BY <1>1, <2>1, <2>3 DEF Ready
  <2> QED BY <1>1, <2>0, <2>4, HeardOf
<1>6. before # NoEntry /\ d.commits \subseteq before.commits BY <1>3, <1>5
<1>7. before \in Entries BY <1>1, <1>6, EntryOf
<1>8. Quorum(before.commits) /\ before.commits \ {n} # {}
  <2>1. d.commits \in SUBSET Node /\ before.commits \in SUBSET Node
    BY <1>2, <1>7 DEF Entries
  <2> QED BY <1>3, <1>6, <2>1, QuorumGrows
<1>9. before.committed
  <2>1. ActedOn(n, before) BY <1>1, <1>6 DEF Order, Acted
  <2> QED BY <1>8, <2>1 DEF ActedOn
<1>10. before.digest \in Request BY <1>7 DEF Entries
<1> QED BY <1>9, <1>10 DEF Executed, CommittedAs

(* As long as no channel is full, a connected node executes a request only *)
(* after all earlier ones, though _apply() does not look at the numbers.    *)
THEOREM InOrderWhileRoom == SpecOnBus /\ []RoomLeft => []ExecutedInOrder
<1>1. IInv /\ OnBus /\ Order /\ RoomLeft /\ [NextOnBus]_onBusVars
        => IInv' /\ OnBus' /\ Order'
  BY StepIsOfPBFT, NextKeeps, OrderNext
<1>2. IInv /\ OnBus /\ Order => ExecutedInOrder BY InOrder
<1> QED BY <1>1, <1>2, InitOnBusHolds, InitHolds, OrderInit, PTL DEF SpecOnBus
=============================================================================
