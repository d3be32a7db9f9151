-------------------------------- MODULE PBFT --------------------------------
(***************************************************************************)
(* The three phases of tugas-3/src/consensus/pbft.py.  The view is 0 for   *)
(* ever: no code changes it, so the primary is fixed.                      *)
(*                                                                         *)
(* A correct node follows the code.  A faulty one (algorithms.md:116: up   *)
(* to (n - 1) / 3 are tolerated) sends any message under its own name; the *)
(* primary of set_byzantine, which sends digests that match no request, is *)
(* a case of it.  A digest stands for its request, and a message is here   *)
(* received in any order, more than once or never, which is all that the   *)
(* bus can do to it and more.                                              *)
(***************************************************************************)
EXTENDS Naturals, FiniteSets

CONSTANTS
  Node,
  Primary,   \* all_nodes[view % n]
  Request,   \* requests, no two of one digest
  Faults,    \* bound: the sets of nodes that may be faulty
  MaxSeq     \* bound: sequence numbers

(* PBFTNode.f *)
f == (Cardinality(Node) - 1) \div 3

ASSUME PBFTAssumption ==
  /\ IsFiniteSet(Node) /\ Primary \in Node /\ MaxSeq \in Nat
  /\ "none" \notin Request
  /\ \A S \in Faults : S \subseteq Node /\ Cardinality(S) <= f

VARIABLES
  faulty,    \* the nodes that do not follow the code
  seq_num,   \* the primary's last sequence number
  log,       \* node -> sequence number -> entry, or NoEntry
  sent       \* node -> what it sent, if correct, to all its peers

vars == <<faulty, seq_num, log, sent>>

Entries == [digest : Request, prepares : SUBSET Node, commits : SUBSET Node, committed : BOOLEAN]
NoEntry == [digest |-> "none"]
NewEntry(r) == [digest |-> r, prepares |-> {}, commits |-> {}, committed |-> FALSE]

(* phase, sequence number, digest *)
Messages == {"PRE-PREPARE", "PREPARE", "COMMIT"} \X (1..MaxSeq) \X Request

Init ==
  /\ faulty \in Faults
  /\ seq_num = 0
  /\ log = [n \in Node |-> [s \in 1..MaxSeq |-> NoEntry]]
  /\ sent = [n \in Node |-> {}]

Correct == Node \ faulty

(* p's message may arrive at a peer. *)
Arrives(phase, p, s, r) == p \in faulty \/ <<phase, s, r>> \in sent[p]

Broadcast(n, phase, s, r) == sent' = [sent EXCEPT ![n] = @ \cup {<<phase, s, r>>}]

SetEntry(n, s, e) == log' = [log EXCEPT ![n][s] = e]

(* Faulty: counts after the broadcast. *)
Submit_CountsAfter(r) ==
  /\ Primary \in Correct
  /\ seq_num < MaxSeq /\ seq_num' = seq_num + 1
  /\ SetEntry(Primary, seq_num, NewEntry(r))
  /\ Broadcast(Primary, "PRE-PREPARE", seq_num, r)
  /\ UNCHANGED faulty

(* submit, and _broadcast_pre_prepare *)
Submit(r) ==
  /\ Primary \in Correct
  /\ seq_num < MaxSeq /\ seq_num' = seq_num + 1
  /\ SetEntry(Primary, seq_num + 1, NewEntry(r))
  /\ Broadcast(Primary, "PRE-PREPARE", seq_num + 1, r)
  /\ UNCHANGED faulty

(* Faulty: does not look at the sender. *)
MayPropose_Any(p) == TRUE

MayPropose(p) == p = Primary

(* _on_pre_prepare.  An entry that is there stays, and yet the PREPARE      *)
(* carries the digest of this message.                                      *)
OnPrePrepare(n, p, s, r) ==
  /\ MayPropose(p) /\ Arrives("PRE-PREPARE", p, s, r)
  /\ LET e == IF log[n][s] = NoEntry THEN NewEntry(r) ELSE log[n][s]
     IN SetEntry(n, s, [e EXCEPT !.prepares = @ \cup {n}])
  /\ Broadcast(n, "PREPARE", s, r)
  /\ UNCHANGED <<faulty, seq_num>>

Prepared(S) == Cardinality(S) >= 2 * f

CallsForCommit(e, p) == Prepared(e.prepares \cup {p}) /\ p \notin e.commits

(* _on_prepare: COMMIT is sent with every further PREPARE of a node that    *)
(* has not committed itself.                                                *)
OnPrepare(n, p, s, r) ==
  LET e == log[n][s]
      prepares == e.prepares \cup {p}
  IN /\ Arrives("PREPARE", p, s, r) /\ e.digest = r
     /\ IF CallsForCommit(e, p)
        THEN /\ SetEntry(n, s, [e EXCEPT !.prepares = prepares, !.commits = @ \cup {n}])
             /\ Broadcast(n, "COMMIT", s, r)
        ELSE SetEntry(n, s, [e EXCEPT !.prepares = prepares]) /\ UNCHANGED sent
     /\ UNCHANGED <<faulty, seq_num>>

(* Faulty: as many as for PREPARE. *)
Quorum_TooFew(S) == Cardinality(S) >= 2 * f

Quorum(S) == Cardinality(S) >= 2 * f + 1

(* _on_commit, and _apply, which comes once for every number. *)
OnCommit(n, p, s, r) ==
  LET e == log[n][s]
      commits == e.commits \cup {p}
  IN /\ Arrives("COMMIT", p, s, r) /\ e.digest = r
     /\ SetEntry(n, s, [e EXCEPT !.commits = commits, !.committed = @ \/ Quorum(commits)])
     /\ UNCHANGED <<faulty, seq_num, sent>>

(* The last conjunct only drops the steps that change nothing. *)
Next ==
  /\ \E r \in Request :
       \/ Submit(r)
       \/ \E n \in Correct, s \in 1..MaxSeq : \E p \in Node \ {n} :
            OnPrePrepare(n, p, s, r) \/ OnPrepare(n, p, s, r) \/ OnCommit(n, p, s, r)
  /\ vars' # vars

Spec == Init /\ [][Next]_vars

-----------------------------------------------------------------------------
(* Properties.                                                             *)

(* Every variable holds values of the kind the code gives it.                *)
TypeOK ==
  /\ faulty \subseteq Node
  /\ seq_num \in 0..MaxSeq
  /\ log \in [Node -> [1..MaxSeq -> Entries \cup {NoEntry}]]
  /\ sent \in [Node -> SUBSET Messages]

CommittedAs(n, s, r) == log[n][s].digest = r /\ log[n][s].committed

(* Correct nodes execute the same request at a number, also under a primary *)
(* that proposes several (algorithms.md:115-117).                           *)
Agreement ==
  \A m, n \in Correct, s \in 1..MaxSeq, q, r \in Request :
    CommittedAs(m, s, q) /\ CommittedAs(n, s, r) => q = r

(* What a correct node executes was prepared by 2f nodes as well as, where  *)
(* the primary is correct, proposed by it; no faulty replica, and no        *)
(* quorum's worth of late or repeated messages, makes it up.                *)
CommitIsBacked ==
  \A n \in Correct, s \in 1..MaxSeq, r \in Request :
    CommittedAs(n, s, r) =>
      /\ Prepared({p \in Node : Arrives("PREPARE", p, s, r)})
      /\ Primary \in Correct => <<"PRE-PREPARE", s, r>> \in sent[Primary]
=============================================================================
