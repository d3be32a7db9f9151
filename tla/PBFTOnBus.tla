----------------------------- MODULE PBFTOnBus ------------------------------
(***************************************************************************)
(* PBFT nodes that all follow the code, on the message bus: what is sent   *)
(* is received in the order it was sent in, a broadcast is one step and    *)
(* reaches all connected nodes or none.  Some nodes are cut off for good.   *)
(***************************************************************************)
EXTENDS PBFT, Sequences

CONSTANTS
  MaxInbox,  \* what a channel of the bus holds at most
  Cut        \* bound: the sets of nodes that may be cut off from the start

ASSUME PBFTOnBusAssumption ==
  /\ MaxInbox \in Nat \ {0}
  /\ {} \in Faults
  /\ \A S \in Cut : S \subseteq Node

VARIABLES inbox, partitions

Bus == INSTANCE MessageBus

onBusVars == <<vars, inbox, partitions>>

InitOnBus ==
  /\ Init /\ faulty = {}
  /\ inbox = [n \in Node |-> <<>>]
  /\ partitions \in Cut

Envelopes == [from : Node, phase : {"PRE-PREPARE", "PREPARE", "COMMIT"}, seq : 1..MaxSeq,
              digest : Request]

ToPeers(n, phase, s, r) ==
  [p \in Bus!Peers(n) |-> [from |-> n, phase |-> phase, seq |-> s, digest |-> r]]

SubmitOnBus(r) ==
  /\ Submit(r)
  /\ Bus!Send(Primary, ToPeers(Primary, "PRE-PREPARE", seq_num + 1, r))
  /\ UNCHANGED partitions

(* One turn of n's dispatch loop and _handle_pre_prepare. *)
Receives(n, phase) == inbox[n] # <<>> /\ Head(inbox[n]).phase = phase

(* A PREPARE or a COMMIT is dropped if there is no entry of its digest. *)
Matches(n, m) == log[n][m.seq].digest = m.digest

DispatchPrePrepare(n) ==
  /\ Receives(n, "PRE-PREPARE")
  /\ LET m == Head(inbox[n]) IN
       /\ OnPrePrepare(n, m.from, m.seq, m.digest)
       /\ Bus!HandleAndSend(n, ToPeers(n, "PREPARE", m.seq, m.digest))
  /\ UNCHANGED partitions

DispatchPrepare(n) ==
  /\ Receives(n, "PREPARE")
  /\ LET m == Head(inbox[n]) IN
       /\ IF Matches(n, m) THEN OnPrepare(n, m.from, m.seq, m.digest) ELSE UNCHANGED vars
       /\ IF Matches(n, m) /\ CallsForCommit(log[n][m.seq], m.from)
          THEN Bus!HandleAndSend(n, ToPeers(n, "COMMIT", m.seq, m.digest))
          ELSE Bus!Handle(n)
  /\ UNCHANGED partitions

DispatchCommit(n) ==
  /\ Receives(n, "COMMIT")
  /\ LET m == Head(inbox[n]) IN
       IF Matches(n, m) THEN OnCommit(n, m.from, m.seq, m.digest) ELSE UNCHANGED vars
  /\ Bus!Handle(n)
  /\ UNCHANGED partitions

Dispatch(n) == DispatchPrePrepare(n) \/ DispatchPrepare(n) \/ DispatchCommit(n)

NextOnBus ==
  \/ \E r \in Request : SubmitOnBus(r)
  \/ \E n \in Node : Dispatch(n)

SpecOnBus == InitOnBus /\ [][NextOnBus]_onBusVars

(* Each node's dispatch loop runs on. *)
FairSpecOnBus == SpecOnBus /\ \A n \in Node : WF_onBusVars(Dispatch(n))

-----------------------------------------------------------------------------
(* Properties.                                                             *)

TypeOKOnBus ==
  /\ TypeOK
  /\ faulty = {}
  /\ inbox \in [Node -> Seq(Envelopes)]
  /\ \A n \in Node : Len(inbox[n]) <= MaxInbox
  /\ partitions \in Cut

Connected == Node \ partitions

Executed(n, s) == \E r \in Request : CommittedAs(n, s, r)

(* _apply() does not look at the order of the numbers, and yet, where no   *)
(* node is reconnected between two requests, a connected one never         *)
(* executes a request before those submitted earlier.                      *)
ExecutedInOrder ==
  \A n \in Connected, s \in 2..MaxSeq : Executed(n, s) => Executed(n, s - 1)

(* A request that was broadcast is executed by every connected node, though *)
(* _on_prepare() does not look whether the node's own COMMIT is the one     *)
(* that completes the quorum.                                              *)
SubmittedIsExecuted ==
  \A s \in 1..MaxSeq :
    Primary \in Connected /\ s <= seq_num ~> \A n \in Connected : Executed(n, s)
=============================================================================
