----------------------------- MODULE RaftProofs -----------------------------
(***************************************************************************)
(* Theorems about Raft for any number of nodes, commands, terms and any    *)
(* channel size: type correctness, Election Safety, and then what its logs *)
(* promise.                                                                *)
(***************************************************************************)
EXTENDS Raft, FiniteSetTheorems, SequenceTheorems, TLAPS

(***************************************************************************)
(* Facts about numbers, sets and channels.                                 *)
(***************************************************************************)

(* Two majorities of the nodes share a node (raft.py:262,393).              *)
LEMMA MajoritiesMeet ==
  ASSUME NEW S \in SUBSET Node, NEW T \in SUBSET Node, IsMajority(S), IsMajority(T)
  PROVE  S \cap T # {}
<1>1. IsFiniteSet(Node) BY BusAssumption
<1>2. /\ IsFiniteSet(S) /\ IsFiniteSet(T) /\ IsFiniteSet(S \cup T)
      /\ Cardinality(S \cup T) <= Cardinality(Node)
  BY <1>1, FS_Subset
<1>3. /\ Cardinality(Node) \in Nat /\ Cardinality(S) \in Nat /\ Cardinality(T) \in Nat
      /\ Cardinality(S \cap T) \in Nat
  BY <1>1, <1>2, FS_CardinalityType, FS_Intersection
<1>4. Cardinality(S \cup T) = Cardinality(S) + Cardinality(T) - Cardinality(S \cap T)
  BY <1>2, FS_Union
<1>5. Cardinality(S \cap T) > 0
  BY <1>2, <1>3, <1>4 DEF IsMajority
<1> QED BY <1>5, FS_EmptySet

(* What is in a channel after a send was there before or is the message     *)
(* sent (message_passing.py:153-170).                                       *)
LEMMA SendDelivers ==
  ASSUME NEW M, NEW n \in Node, NEW out,
         inbox \in [Node -> Seq(M)], Send(n, out),
         \A r \in Node \cap DOMAIN out : out[r] \in M
  PROVE  /\ inbox' \in [Node -> Seq(M)]
         /\ \A r \in Node : \A i \in DOMAIN inbox'[r] :
              \/ \E j \in DOMAIN inbox[r] : inbox'[r][i] = inbox[r][j]
              \/ r \in DOMAIN out /\ inbox'[r][i] = out[r]
<1> SUFFICES ASSUME NEW r \in Node
             PROVE  /\ inbox'[r] \in Seq(M)
                    /\ \A i \in DOMAIN inbox'[r] :
                         \/ \E j \in DOMAIN inbox[r] : inbox'[r][i] = inbox[r][j]
                         \/ r \in DOMAIN out /\ inbox'[r][i] = out[r]
  BY DEF Send
<1>1. CASE r \in DOMAIN out /\ Accepts(n, r)
  <2>1. inbox'[r] = Append(inbox[r], out[r]) BY <1>1 DEF Send
  <2>2. out[r] \in M /\ inbox[r] \in Seq(M) BY <1>1
  <2> QED BY <1>1, <2>1, <2>2, AppendProperties, LenProperties
<1>2. CASE ~(r \in DOMAIN out /\ Accepts(n, r))
  BY <1>2 DEF Send
<1> QED BY <1>1, <1>2

(* The same of a handler: it also takes the oldest message off its channel. *)
LEMMA HandleDelivers ==
  ASSUME NEW M, NEW n \in Node, NEW out,
         inbox \in [Node -> Seq(M)], inbox[n] # <<>>, HandleAndSend(n, out),
         \A r \in Node \cap DOMAIN out : out[r] \in M
  PROVE  /\ inbox' \in [Node -> Seq(M)]
         /\ \A r \in Node : \A i \in DOMAIN inbox'[r] :
              \/ \E j \in DOMAIN inbox[r] : inbox'[r][i] = inbox[r][j]
              \/ r \in DOMAIN out /\ inbox'[r][i] = out[r]
<1> SUFFICES ASSUME NEW r \in Node
             PROVE  /\ inbox'[r] \in Seq(M)
                    /\ \A i \in DOMAIN inbox'[r] :
                         \/ \E j \in DOMAIN inbox[r] : inbox'[r][i] = inbox[r][j]
                         \/ r \in DOMAIN out /\ inbox'[r][i] = out[r]
  BY DEF HandleAndSend
<1>1. CASE r = n
  <2>1. inbox'[r] = Tail(inbox[r]) BY <1>1 DEF HandleAndSend
  <2>2. inbox[r] \in Seq(M) /\ inbox[r] # <<>> BY <1>1
  <2>3. /\ Tail(inbox[r]) \in Seq(M)
        /\ Len(Tail(inbox[r])) = Len(inbox[r]) - 1
        /\ \A i \in 1..Len(Tail(inbox[r])) : Tail(inbox[r])[i] = inbox[r][i + 1]
    BY <2>2, HeadTailProperties
  <2>4. \A i \in DOMAIN Tail(inbox[r]) : i + 1 \in DOMAIN inbox[r]
    BY <2>2, <2>3, LenProperties
  <2>5. DOMAIN Tail(inbox[r]) = 1..Len(Tail(inbox[r])) BY <2>3, LenProperties
  <2> QED BY <2>1, <2>3, <2>4, <2>5
<1>2. CASE r # n /\ r \in DOMAIN out /\ Accepts(n, r)
  <2>1. inbox'[r] = Append(inbox[r], out[r]) BY <1>2 DEF HandleAndSend
  <2>2. out[r] \in M /\ inbox[r] \in Seq(M) BY <1>2
  <2> QED BY <1>2, <2>1, <2>2, AppendProperties, LenProperties
<1>3. CASE r # n /\ ~(r \in DOMAIN out /\ Accepts(n, r))
  BY <1>3 DEF HandleAndSend
<1> QED BY <1>1, <1>2, <1>3

(***************************************************************************)
(* Type correctness.                                                       *)
(***************************************************************************)

LEMMA InitType == Init => TypeOK
<1> SUFFICES ASSUME Init PROVE TypeOK OBVIOUS
<1>1. inbox \in [Node -> Seq(Message)] BY EmptySeq DEF Init, BusInit
<1>2. /\ log \in [Node -> Seq(Entry)] /\ applied \in [Node -> Seq(Command)]
      /\ ledger \in [1..MaxTerm -> Seq(Entry)]
  BY EmptySeq DEF Init
<1> QED BY <1>1, <1>2 DEF Init, BusInit, TypeOK, Request

(* What a follower makes of its log is again a log (raft.py:327-348).       *)
LEMMA OverwrittenType ==
  ASSUME NEW lg \in Seq(Entry), NEW entries \in Seq(Entry),
         NEW prev \in Nat, prev <= Len(lg)
  PROVE  Overwritten(lg, prev, entries) \in Seq(Entry)
<1> DEFINE end == prev + Len(entries)
           conflicts == {i \in prev + 1 .. end : i <= Len(lg) /\ lg[i].term # entries[i - prev].term}
           kept(i) == i <= Len(lg) /\ \A j \in conflicts : i < j
           len == IF conflicts = {} /\ end < Len(lg) THEN Len(lg) ELSE end
           new(i) == IF kept(i) THEN lg[i] ELSE entries[i - prev]
<1>1. /\ Len(lg) \in Nat /\ Len(entries) \in Nat /\ len \in Nat
      /\ \A i \in 1..Len(lg) : lg[i] \in Entry
      /\ \A i \in 1..Len(entries) : entries[i] \in Entry
  BY LenProperties, ElementOfSeq
<1>2. \A i \in 1..len : new(i) \in Entry
  <2> SUFFICES ASSUME NEW i \in 1..len PROVE new(i) \in Entry OBVIOUS
  <2>1. CASE kept(i) BY <2>1, <1>1
  <2>2. CASE ~kept(i)
    <3>1. conflicts \subseteq prev + 1 .. end OBVIOUS
    <3>2. i >= prev + 1
      BY <2>2, <3>1, <1>1
    <3>3. i <= end
      BY <2>2, <1>1
    <3> QED BY <2>2, <3>2, <3>3, <1>1
  <2> QED BY <2>1, <2>2
<1>3. Overwritten(lg, prev, entries) = [i \in 1..len |-> new(i)]
  BY DEF Overwritten
<1> HIDE DEF new, len
<1>4. [i \in 1..len |-> new(i)] \in Seq(Entry) BY <1>1, <1>2, IsASeq
<1> QED BY <1>3, <1>4

(* A leader's AppendEntries message is one (raft.py:271-298).               *)
LEMMA AppendEntriesType ==
  ASSUME TypeOK, NEW n \in Node, NEW next \in Nat \ {0}, NEW lg \in Seq(Entry)
  PROVE  AppendEntries(n, next, lg) \in Message
<1> DEFINE last == IF next + MaxBatch - 1 < Len(lg) THEN next + MaxBatch - 1 ELSE Len(lg)
<1>1. /\ Len(lg) \in Nat /\ last \in Int /\ last <= Len(lg)
      /\ \A i \in 1..Len(lg) : lg[i] \in Entry
  BY LenProperties, ElementOfSeq, RaftAssumption
<1>2. SubSeq(lg, next, last) \in Seq(Entry)
  <2>1. \A i \in next..last : lg[i] \in Entry BY <1>1
  <2> QED BY <1>1, <2>1, SubSeqProperties
<1>3. next - 1 \in Nat OBVIOUS
<1>4. TermAt(lg, next - 1) \in Nat BY <1>1, <1>3 DEF TermAt, Entry
<1>5. current_term[n] \in Nat /\ commit_index[n] \in Nat BY DEF TypeOK
<1> HIDE DEF last
<1>6. AppendEntries(n, next, lg) =
        [type |-> "append_entries", from |-> n, term |-> current_term[n],
         prev_log_index |-> next - 1, prev_log_term |-> TermAt(lg, next - 1),
         entries |-> SubSeq(lg, next, last), leader_commit |-> commit_index[n]]
  BY DEF AppendEntries, last
<1> QED BY <1>2, <1>3, <1>4, <1>5, <1>6 DEF Message

(* Applying committed entries keeps the commit state's types                *)
(* (raft.py:399-415).                                                       *)
LEMMA ApplyType ==
  ASSUME TypeOK, NEW n \in Node, NEW lg \in Seq(Entry), NEW upto \in Nat,
         upto <= Len(lg), Apply(n, upto, lg)
  PROVE  /\ commit_index' \in [Node -> Nat]
         /\ applied' \in [Node -> Seq(Command)]
         /\ DOMAIN pending' = Node
         /\ \A p \in Node : /\ DOMAIN pending'[p] \subseteq Nat
                             /\ \A i \in DOMAIN pending'[p] : pending'[p][i] \in Command
         /\ request' \in [Command -> Request]
<1> DEFINE fresh == Len(applied[n]) + 1 .. upto
           served == DOMAIN pending[n] \cap fresh
           new(i) == IF i \in fresh THEN lg[i].command ELSE applied[n][i]
<1>1. /\ applied[n] \in Seq(Command) /\ Len(applied[n]) \in Nat /\ Len(lg) \in Nat
      /\ DOMAIN applied[n] = 1..Len(applied[n])
      /\ \A i \in 1..Len(applied[n]) : applied[n][i] \in Command
      /\ \A i \in 1..Len(lg) : lg[i] \in Entry
  BY LenProperties, ElementOfSeq DEF TypeOK
<1>2. \A i \in fresh : lg[i].command \in Command
  BY <1>1 DEF Entry
<1>3. applied' \in [Node -> Seq(Command)]
  <2>1. PICK k \in Nat : 1..Len(applied[n]) \cup fresh = 1..k
    <3>1. upto > Len(applied[n]) => 1..Len(applied[n]) \cup fresh = 1..upto BY <1>1
    <3>2. upto <= Len(applied[n]) => 1..Len(applied[n]) \cup fresh = 1..Len(applied[n])
      BY <1>1
    <3> QED BY <3>1, <3>2, <1>1
  <2>2. \A i \in 1..k : new(i) \in Command BY <1>1, <1>2, <2>1
  <2>3. applied' = [applied EXCEPT ![n] = [i \in 1..k |-> new(i)]]
    BY <2>1 DEF Apply
  <2> HIDE DEF new
  <2>4. [i \in 1..k |-> new(i)] \in Seq(Command) BY <2>2, IsASeq
  <2> QED BY <2>3, <2>4 DEF TypeOK
<1>4. commit_index' \in [Node -> Nat] BY DEF Apply, TypeOK
<1>5. /\ DOMAIN pending' = Node
      /\ \A p \in Node : /\ DOMAIN pending'[p] \subseteq Nat
                          /\ \A i \in DOMAIN pending'[p] : pending'[p][i] \in Command
  BY DEF Apply, TypeOK
<1>6. request' \in [Command -> Request]
  <2> SUFFICES ASSUME NEW c \in Command PROVE request'[c] \in Request
    BY DEF Apply
  <2>1. CASE \E i \in served : pending[n][i] = c
    <3>1. PICK i \in served : request'[c] = [status |-> "answered", result |-> lg[i].command]
      BY <2>1 DEF Apply
    <3> QED BY <3>1, <1>2 DEF Request
  <2>2. CASE ~\E i \in served : pending[n][i] = c
    BY <2>2 DEF Apply, TypeOK
  <2> QED BY <2>1, <2>2
<1> QED BY <1>3, <1>4, <1>5, <1>6

(* The oldest message of a channel is a message.                            *)
LEMMA HeadIsMessage ==
  ASSUME TypeOK, NEW n \in Node, inbox[n] # <<>>
  PROVE  Head(inbox[n]) \in Message /\ 1 \in DOMAIN inbox[n] /\ Head(inbox[n]) = inbox[n][1]
<1>1. inbox[n] \in Seq(Message) BY DEF TypeOK
<1> QED BY <1>1, HeadTailProperties, EmptySeq, LenProperties

(* A channel is untouched by a handler that sends nothing, but for the      *)
(* message it took.                                                         *)
LEMMA HandleType ==
  ASSUME TypeOK, NEW n \in Node, inbox[n] # <<>>, Handle(n)
  PROVE  /\ inbox' \in [Node -> Seq(Message)]
         /\ \A r \in Node : \A i \in DOMAIN inbox'[r] :
              \E j \in DOMAIN inbox[r] : inbox'[r][i] = inbox[r][j]
<1>1. DOMAIN NoMessage = {} BY DEF NoMessage
<1>2. HandleAndSend(n, NoMessage) BY DEF Handle
<1>3. inbox \in [Node -> Seq(Message)] BY DEF TypeOK
<1>4. \A r \in Node \cap DOMAIN NoMessage : NoMessage[r] \in Message BY <1>1
<1>5. /\ inbox' \in [Node -> Seq(Message)]
      /\ \A r \in Node : \A i \in DOMAIN inbox'[r] :
           \/ \E j \in DOMAIN inbox[r] : inbox'[r][i] = inbox[r][j]
           \/ r \in DOMAIN NoMessage /\ inbox'[r][i] = NoMessage[r]
  BY <1>2, <1>3, <1>4, HandleDelivers
<1> QED BY <1>1, <1>5

(* A handler that answers its message's sender adds that answer at most.    *)
LEMMA ReplyType ==
  ASSUME TypeOK, NEW n \in Node, inbox[n] # <<>>, NEW to \in Node,
         NEW r \in Message, Reply(n, to, r)
  PROVE  /\ inbox' \in [Node -> Seq(Message)]
         /\ \A p \in Node : \A i \in DOMAIN inbox'[p] :
              \/ \E j \in DOMAIN inbox[p] : inbox'[p][i] = inbox[p][j]
              \/ p = to /\ inbox'[p][i] = r
<1> DEFINE out == [x \in {to} |-> r]
<1>1. DOMAIN out = {to} /\ out[to] = r OBVIOUS
<1>2. HandleAndSend(n, out) BY DEF Reply
<1>3. inbox \in [Node -> Seq(Message)] BY DEF TypeOK
<1>4. \A p \in Node \cap DOMAIN out : out[p] \in Message BY <1>1
<1> HIDE DEF out
<1>5. /\ inbox' \in [Node -> Seq(Message)]
      /\ \A p \in Node : \A i \in DOMAIN inbox'[p] :
           \/ \E j \in DOMAIN inbox[p] : inbox'[p][i] = inbox[p][j]
           \/ p \in DOMAIN out /\ inbox'[p][i] = out[p]
  BY <1>2, <1>3, <1>4, HandleDelivers
<1> QED BY <1>1, <1>5

(* A heartbeat round sends AppendEntries messages only.                     *)
LEMMA BroadcastType ==
  ASSUME TypeOK, NEW n \in Node, NEW next \in [Node -> Nat \ {0}], NEW lg \in Seq(Entry)
  PROVE  /\ DOMAIN Broadcast(n, next, lg) \subseteq Node
         /\ \A p \in DOMAIN Broadcast(n, next, lg) :
              /\ Broadcast(n, next, lg)[p] \in Message
              /\ Broadcast(n, next, lg)[p].type = "append_entries"
<1>1. \A p \in Peers(n) : AppendEntries(n, next[p], lg) \in Message
  BY AppendEntriesType DEF Peers
<1>2. \A p \in Peers(n) : AppendEntries(n, next[p], lg).type = "append_entries"
  BY DEF AppendEntries
<1> QED BY <1>1, <1>2 DEF Broadcast, Peers

(* What the answer is makes no difference to where it lands. *)
LEMMA ReplyDelivers ==
  ASSUME TypeOK, NEW n \in Node, inbox[n] # <<>>, NEW to \in Node,
         NEW r, Reply(n, to, r)
  PROVE  \A p \in Node : \A i \in DOMAIN inbox'[p] :
           \/ \E j \in DOMAIN inbox[p] : inbox'[p][i] = inbox[p][j]
           \/ p = to /\ inbox'[p][i] = r
<1> DEFINE out == [x \in {to} |-> r]
           M == Message \cup {r}
<1>1. DOMAIN out = {to} /\ out[to] = r OBVIOUS
<1>2. HandleAndSend(n, out) BY DEF Reply
<1>3. inbox \in [Node -> Seq(M)]
  <2>1. inbox \in [Node -> Seq(Message)] BY DEF TypeOK
  <2>2. \A p \in Node : inbox[p] \in Seq(M) BY <2>1, SeqMonotonic
  <2> HIDE DEF M
  <2> QED BY <2>1, <2>2
<1>4. \A p \in Node \cap DOMAIN out : out[p] \in M BY <1>1
<1> HIDE DEF out, M
<1>5. \A p \in Node : \A i \in DOMAIN inbox'[p] :
        \/ \E j \in DOMAIN inbox[p] : inbox'[p][i] = inbox[p][j]
        \/ p \in DOMAIN out /\ inbox'[p][i] = out[p]
  BY <1>2, <1>3, <1>4, HandleDelivers
<1> QED BY <1>1, <1>5

(***************************************************************************)
(* TypeOK, action by action.  "state", "current_term" and so on are set by *)
(* EXCEPT; what needs an argument is the channels, the logs and Apply.     *)
(***************************************************************************)

LEMMA ElectionTimeoutType ==
  ASSUME TypeOK, NEW n \in Node, ElectionTimeout(n)
  PROVE  TypeOK'
<1> DEFINE req == [type |-> "request_vote", from |-> n, term |-> current_term[n] + 1,
                   last_log_index |-> Len(log[n]), last_log_term |-> LastTerm(log[n])]
           out == [p \in Peers(n) |-> req]
<1>0. current_term[n] + 1 \in Nat
  <2>1. current_term[n] \in Nat BY DEF TypeOK
  <2> QED BY <2>1
<1>1. log[n] \in Seq(Entry) /\ Len(log[n]) \in Nat /\ (log[n] # <<>> => Len(log[n]) # 0)
  BY EmptySeq, LenProperties DEF TypeOK
<1>2. LastTerm(log[n]) \in Nat
  <2>1. CASE log[n] = <<>> BY <2>1 DEF LastTerm
  <2>2. CASE log[n] # <<>>
    <3>1. log[n][Len(log[n])] \in Entry BY <1>1, <2>2, ElementOfSeq
    <3> QED BY <3>1, <2>2 DEF LastTerm, Entry
  <2> QED BY <2>1, <2>2
<1>3. req \in Message
  <2> QED BY <1>0, <1>1, <1>2 DEF Message
<1>4. \A r \in Node \cap DOMAIN out : out[r] \in Message BY <1>3
<1>5. Send(n, out) /\ inbox \in [Node -> Seq(Message)] BY DEF ElectionTimeout, StartElection, TypeOK
<1> HIDE DEF out
<1>6. inbox' \in [Node -> Seq(Message)] BY <1>4, <1>5, SendDelivers
<1>7. ballots' \subseteq Nat \X Node \X Node
  <2>1. ballots \subseteq Nat \X Node \X Node BY DEF TypeOK
  <2>2. ballots' = ballots \cup {<<current_term[n] + 1, n, n>>} BY DEF ElectionTimeout, BecomeCandidate
  <2> QED BY <1>0, <2>1, <2>2
<1>8. /\ current_term' \in [Node -> Nat]
      /\ state' \in [Node -> {"follower", "candidate", "leader"}]
      /\ voted_for' \in [Node -> Node \cup {None}]
      /\ votes_received' \in [Node -> SUBSET Node]
  <2>1. /\ current_term' = [current_term EXCEPT ![n] = current_term[n] + 1]
        /\ state' = [state EXCEPT ![n] = "candidate"]
        /\ voted_for' = [voted_for EXCEPT ![n] = n]
        /\ votes_received' = [votes_received EXCEPT ![n] = {n}]
    BY DEF ElectionTimeout, BecomeCandidate
  <2> QED BY <1>0, <2>1 DEF TypeOK
<1>9. UNCHANGED <<partitions, elected, logVars, leaderVars, commitVars>> BY DEF ElectionTimeout
<1> QED BY <1>6, <1>7, <1>8, <1>9 DEF TypeOK, logVars, leaderVars, commitVars

LEMMA HandleRequestVoteType ==
  ASSUME TypeOK, NEW n \in Node, inbox[n] # <<>>, NEW m \in Message, HandleRequestVote(n, m)
  PROVE  TypeOK'
<1> DEFINE newer == m.term > current_term[n]
           vote == IF newer THEN None ELSE voted_for[n]
           granted == /\ m.term >= current_term[n]
                      /\ LogIsUpToDate(n, m)
                      /\ vote \in {None, m.from}
           term == IF newer THEN m.term ELSE current_term[n]
           r == [type |-> "vote_response", from |-> n, term |-> term, vote_granted |-> granted]
<1>1. m.from \in Node /\ m.term \in Nat BY DEF Message
<1>2. term \in Nat /\ granted \in BOOLEAN BY <1>1 DEF TypeOK
<1>3. r \in Message BY <1>2 DEF Message
<1>4. Reply(n, m.from, r) BY DEF HandleRequestVote, AlreadyVoted
<1> HIDE DEF r
<1>5. inbox' \in [Node -> Seq(Message)] BY <1>1, <1>3, <1>4, ReplyType
<1>6. ballots' \subseteq Nat \X Node \X Node
  <2>1. ballots \subseteq Nat \X Node \X Node BY DEF TypeOK
  <2>2. ballots' = IF granted THEN ballots \cup {<<term, n, m.from>>} ELSE ballots
    BY DEF HandleRequestVote, AlreadyVoted
  <2> HIDE DEF granted, term
  <2> QED BY <1>1, <1>2, <2>1, <2>2
<1>7. /\ current_term' \in [Node -> Nat]
      /\ state' \in [Node -> {"follower", "candidate", "leader"}]
      /\ voted_for' \in [Node -> Node \cup {None}]
  BY <1>1 DEF HandleRequestVote, TypeOK
<1>8. UNCHANGED <<partitions, votes_received, elected, logVars, leaderVars, commitVars>>
  BY DEF HandleRequestVote
<1> QED BY <1>5, <1>6, <1>7, <1>8 DEF TypeOK, logVars, leaderVars, commitVars

LEMMA StepDownType ==
  ASSUME TypeOK, NEW n \in Node, inbox[n] # <<>>, NEW m \in Message, StepDown(n, m)
  PROVE  TypeOK'
<1>1. m.term \in Nat BY DEF Message
<1>2. inbox' \in [Node -> Seq(Message)] BY HandleType DEF StepDown
<1> QED BY <1>1, <1>2 DEF StepDown, TypeOK, logVars, leaderVars, commitVars

LEMMA IgnoreType ==
  ASSUME TypeOK, NEW n \in Node, inbox[n] # <<>>, Ignore(n)
  PROVE  TypeOK'
<1>1. inbox' \in [Node -> Seq(Message)] BY HandleType DEF Ignore
<1> QED BY <1>1 DEF Ignore, TypeOK, raftVars, electionVars, logVars, leaderVars, commitVars

LEMMA CountVoteType ==
  ASSUME TypeOK, NEW n \in Node, inbox[n] # <<>>, NEW m \in Message, CountVote(n, m)
  PROVE  TypeOK'
<1> DEFINE votes == votes_received[n] \cup {m.from}
           next == [p \in Node |-> IF p = n THEN next_index[n][p] ELSE Len(log[n]) + 1]
<1>1. m.from \in Node BY DEF Message
<1>2. log[n] \in Seq(Entry) /\ Len(log[n]) \in Nat BY LenProperties DEF TypeOK
<1>3. next \in [Node -> Nat \ {0}]
  <2>1. next_index[n] \in [Node -> Nat \ {0}] BY DEF TypeOK
  <2> QED BY <1>2, <2>1
<1>4. CASE IsMajority(votes)
  <2> DEFINE out == Broadcast(n, next, log[n])
  <2>1. HandleAndSend(n, out) BY <1>4 DEF CountVote
  <2>2. \A r \in Node \cap DOMAIN out : out[r] \in Message BY <1>2, <1>3, BroadcastType
  <2>3. inbox \in [Node -> Seq(Message)] BY DEF TypeOK
  <2> HIDE DEF out
  <2>4. inbox' \in [Node -> Seq(Message)] BY <2>1, <2>2, <2>3, HandleDelivers
  <2>5. next_index' \in [Node -> [Node -> Nat \ {0}]]
    <3>1. next_index' = [next_index EXCEPT ![n] = next] BY <1>4 DEF CountVote
    <3> HIDE DEF next
    <3> QED BY <3>1, <1>3 DEF TypeOK
  <2>6. match_index' \in [Node -> [Node -> Nat]]
    <3> DEFINE reset == [p \in Node |-> IF p = n THEN match_index[n][p] ELSE 0]
    <3>1. match_index[n] \in [Node -> Nat] BY DEF TypeOK
    <3>2. reset \in [Node -> Nat] BY <3>1
    <3>3. match_index' = [match_index EXCEPT ![n] = reset] BY <1>4 DEF CountVote
    <3> HIDE DEF reset
    <3> QED BY <3>2, <3>3 DEF TypeOK
  <2>7. /\ state' \in [Node -> {"follower", "candidate", "leader"}]
        /\ votes_received' \in [Node -> SUBSET Node]
        /\ elected' \subseteq Nat \X Node
    <3>1. /\ state' = [state EXCEPT ![n] = "leader"]
          /\ votes_received' = [votes_received EXCEPT ![n] = votes]
          /\ elected' = elected \cup {<<current_term[n], n>>}
      BY <1>4 DEF CountVote
    <3>2. votes \subseteq Node BY <1>1 DEF TypeOK
    <3> HIDE DEF votes, next
    <3>3. state' \in [Node -> {"follower", "candidate", "leader"}] BY <3>1 DEF TypeOK
    <3>4. votes_received' \in [Node -> SUBSET Node] BY <3>1, <3>2 DEF TypeOK
    <3>5. elected' \subseteq Nat \X Node
      <4>1. current_term[n] \in Nat /\ elected \subseteq Nat \X Node BY DEF TypeOK
      <4> QED BY <3>1, <4>1
    <3> QED BY <3>3, <3>4, <3>5
  <2>8. UNCHANGED <<partitions, current_term, voted_for, ballots, log, acks, commitVars>>
    BY DEF CountVote
  <2>9. ledger' \in [1..MaxTerm -> Seq(Entry)]
    <3>1. ledger' = [ledger EXCEPT ![current_term[n]] = log[n]] BY <1>4 DEF CountVote
    <3> QED BY <1>2, <3>1 DEF TypeOK
  <2> QED BY <2>4, <2>5, <2>6, <2>7, <2>8, <2>9 DEF TypeOK, commitVars
<1>5. CASE ~IsMajority(votes)
  <2>1. inbox' \in [Node -> Seq(Message)] BY <1>5, HandleType DEF CountVote
  <2> QED BY <1>1, <1>5, <2>1 DEF CountVote, TypeOK, leaderVars, commitVars
<1> QED BY <1>4, <1>5

LEMMA HandleAppendEntriesType ==
  ASSUME TypeOK, NEW n \in Node, inbox[n] # <<>>, NEW m \in Message, HandleAppendEntries(n, m)
  PROVE  TypeOK'
<1> DEFINE current == m.term >= current_term[n]
           newer == m.term > current_term[n]
           success == /\ current
                      /\ \/ m.prev_log_index = 0
                         \/ /\ m.prev_log_index <= Len(log[n])
                            /\ log[n][m.prev_log_index].term = m.prev_log_term
           matched == m.prev_log_index + Len(m.entries)
           lg == IF success THEN Overwritten(log[n], m.prev_log_index, m.entries) ELSE log[n]
           upto == IF m.leader_commit < Len(lg) THEN m.leader_commit ELSE Len(lg)
           r == [type |-> "append_response", from |-> n, term |-> current_term'[n],
                 success |-> success, match_index |-> IF success THEN matched ELSE 0]
<1>1. /\ m.type = "append_entries" /\ m.from \in Node /\ m.term \in Nat
      /\ m.prev_log_index \in Nat /\ m.entries \in Seq(Entry) /\ m.leader_commit \in Nat
  BY DEF HandleAppendEntries, Message
<1>2. log[n] \in Seq(Entry) /\ Len(log[n]) \in Nat /\ Len(m.entries) \in Nat
  BY <1>1, LenProperties DEF TypeOK
<1>3. lg \in Seq(Entry)
  <2>1. CASE success
    <3>1. m.prev_log_index <= Len(log[n]) BY <2>1, <1>1, <1>2
    <3> QED BY <2>1, <3>1, <1>1, <1>2, OverwrittenType
  <2>2. CASE ~success BY <2>2, <1>2
  <2> QED BY <2>1, <2>2
<1>4. log' = [log EXCEPT ![n] = lg] BY DEF HandleAppendEntries
<1>5. log' \in [Node -> Seq(Entry)] BY <1>3, <1>4 DEF TypeOK
<1>6. current_term' \in [Node -> Nat] /\ current_term'[n] \in Nat
  BY <1>1 DEF HandleAppendEntries, TypeOK
<1>7. inbox' \in [Node -> Seq(Message)]
  <2>1. success \in BOOLEAN /\ matched \in Nat BY <1>1, <1>2
  <2> HIDE DEF success, matched
  <2>2. r \in Message BY <2>1, <1>6 DEF Message
  <2>3. Reply(n, m.from, r) BY DEF HandleAppendEntries, success, matched
  <2> HIDE DEF r
  <2> QED BY <1>1, <2>2, <2>3, ReplyType
<1>8. /\ commit_index' \in [Node -> Nat]
      /\ applied' \in [Node -> Seq(Command)]
      /\ DOMAIN pending' = Node
      /\ \A p \in Node : /\ DOMAIN pending'[p] \subseteq Nat
                          /\ \A i \in DOMAIN pending'[p] : pending'[p][i] \in Command
      /\ request' \in [Command -> Request]
      /\ tainted' \subseteq {"stale ack", "unmatched tail"}
  <2>1. Len(lg) \in Nat BY <1>3, LenProperties
  <2>2. upto \in Nat /\ upto <= Len(lg) BY <2>1, <1>1
  <2>3. CASE success /\ m.leader_commit > commit_index[n]
    <3>1. /\ Apply(n, upto, lg)
          /\ tainted' = tainted \cup (IF upto > matched THEN {"unmatched tail"} ELSE {})
      BY <2>3 DEF HandleAppendEntries
    <3> HIDE DEF upto, lg
    <3> QED BY <3>1, <2>2, <1>3, ApplyType DEF TypeOK
  <2>4. CASE ~(success /\ m.leader_commit > commit_index[n])
    <3>1. UNCHANGED commitVars BY <2>4 DEF HandleAppendEntries
    <3> QED BY <3>1 DEF TypeOK, commitVars
  <2> QED BY <2>3, <2>4
<1>11. acks' \subseteq Nat \X Node \X Nat
  <2>1. acks' = acks \cup (IF success THEN Acknowledged(n, m.term, lg, matched) ELSE {})
    BY DEF HandleAppendEntries
  <2> HIDE DEF success, lg
  <2>2. matched \in Nat BY <1>1, <1>2
  <2> HIDE DEF matched
  <2>3. Acknowledged(n, m.term, lg, matched) \subseteq Nat \X Node \X Nat
    BY <1>1, <2>2 DEF Acknowledged
  <2> QED BY <2>1, <2>3 DEF TypeOK
<1> HIDE DEF current, newer, success, matched, lg, upto, r
<1>9. /\ partitions' \subseteq Node
      /\ state' \in [Node -> {"follower", "candidate", "leader"}]
      /\ voted_for' \in [Node -> Node \cup {None}]
  BY DEF HandleAppendEntries, TypeOK
<1>10. UNCHANGED <<votes_received, ballots, elected, ledger, leaderVars>> BY DEF HandleAppendEntries
<1> QED BY <1>5, <1>6, <1>7, <1>8, <1>9, <1>10, <1>11 DEF TypeOK, leaderVars

LEMMA HandleAppendResponseType ==
  ASSUME TypeOK, NEW n \in Node, inbox[n] # <<>>, NEW m \in Message, HandleAppendResponse(n, m)
  PROVE  TypeOK'
<1>1. m.type = "append_response" BY DEF HandleAppendResponse
<1>2. m.from \in Node /\ m.match_index \in Nat BY <1>1 DEF Message
<1>3. CASE state[n] # "leader" \/ StepDown(n, m)
  BY <1>3, StepDownType, IgnoreType DEF HandleAppendResponse
<1>4. ASSUME state[n] = "leader", m.term <= current_term[n], m.success,
             ~StepDown(n, m)
      PROVE  TypeOK'
  <2> DEFINE match == [match_index[n] EXCEPT ![m.from] = m.match_index]
             ready == Committable(n, match)
  <2>1. /\ match_index' = [match_index EXCEPT ![n] = match]
        /\ next_index' = [next_index EXCEPT ![n][m.from] = m.match_index + 1]
        /\ IF ready # {}
             THEN \E i \in ready : (\A j \in ready : j <= i) /\ Apply(n, i, log[n])
             ELSE UNCHANGED <<commit_index, applied, pending, request>>
        /\ tainted' = tainted \cup (IF /\ m.term < current_term[n]
                                        /\ m.match_index > match_index[n][m.from]
                                     THEN {"stale ack"} ELSE {})
        /\ Handle(n)
        /\ UNCHANGED <<partitions, electionVars, logVars>>
    BY <1>4 DEF HandleAppendResponse
  <2>2. match_index' \in [Node -> [Node -> Nat]] /\ next_index' \in [Node -> [Node -> Nat \ {0}]]
    <3>1. match \in [Node -> Nat] BY <1>2 DEF TypeOK
    <3>2. m.match_index + 1 \in Nat \ {0} BY <1>2
    <3> HIDE DEF match
    <3>3. match_index' \in [Node -> [Node -> Nat]] BY <2>1, <3>1 DEF TypeOK
    <3>4. next_index' \in [Node -> [Node -> Nat \ {0}]] BY <2>1, <3>2, <1>2 DEF TypeOK
    <3> QED BY <3>3, <3>4
  <2>3. inbox' \in [Node -> Seq(Message)] BY <2>1, HandleType
  <2> HIDE DEF match
  <2>4. /\ commit_index' \in [Node -> Nat]
        /\ applied' \in [Node -> Seq(Command)]
        /\ DOMAIN pending' = Node
        /\ \A p \in Node : /\ DOMAIN pending'[p] \subseteq Nat
                            /\ \A i \in DOMAIN pending'[p] : pending'[p][i] \in Command
        /\ request' \in [Command -> Request]
        /\ tainted' \subseteq {"stale ack", "unmatched tail"}
    <3>0. tainted' \subseteq {"stale ack", "unmatched tail"} BY <2>1 DEF TypeOK
    <3>1. CASE ready # {}
      <4>1. PICK i \in ready : Apply(n, i, log[n]) BY <2>1, <3>1
      <4>2. log[n] \in Seq(Entry) /\ commit_index[n] \in Nat /\ Len(log[n]) \in Nat
        BY LenProperties DEF TypeOK
      <4>3. i \in Nat /\ i <= Len(log[n]) BY <4>2 DEF Committable
      <4> QED BY <3>0, <4>1, <4>2, <4>3, ApplyType
    <3>2. CASE ready = {}
      <4>1. UNCHANGED <<commit_index, applied, pending, request>> BY <2>1, <3>2
      <4> QED BY <3>0, <4>1 DEF TypeOK
    <3> QED BY <3>1, <3>2
  <2>5. UNCHANGED <<partitions, electionVars, logVars>> BY <2>1
  <2> QED BY <2>2, <2>3, <2>4, <2>5 DEF TypeOK, electionVars, logVars
<1>5. ASSUME state[n] = "leader", m.term <= current_term[n], ~m.success,
             ~StepDown(n, m)
      PROVE  TypeOK'
  <2>1. /\ next_index' = [next_index EXCEPT ![n][m.from] =
                           IF next_index[n][m.from] > 1 THEN next_index[n][m.from] - 1 ELSE 1]
        /\ Handle(n)
        /\ UNCHANGED <<partitions, electionVars, logVars, match_index, commitVars>>
    BY <1>5 DEF HandleAppendResponse
  <2>2. next_index' \in [Node -> [Node -> Nat \ {0}]]
    <3>1. next_index[n][m.from] \in Nat \ {0}
      <4>1. next_index[n] \in [Node -> Nat \ {0}] BY DEF TypeOK
      <4> QED BY <1>2, <4>1
    <3>2. (IF next_index[n][m.from] > 1 THEN next_index[n][m.from] - 1 ELSE 1) \in Nat \ {0}
      BY <3>1
    <3> QED BY <1>2, <2>1, <3>2 DEF TypeOK
  <2>3. inbox' \in [Node -> Seq(Message)] BY <2>1, HandleType
  <2> QED BY <2>1, <2>2, <2>3 DEF TypeOK, electionVars, logVars, commitVars
<1> QED BY <1>3, <1>4, <1>5 DEF HandleAppendResponse

LEMMA LeaderTickType ==
  ASSUME TypeOK, NEW n \in Node, LeaderTick(n)
  PROVE  TypeOK'
<1> DEFINE out == Broadcast(n, next_index[n], log[n])
<1>1. next_index[n] \in [Node -> Nat \ {0}] /\ log[n] \in Seq(Entry) BY DEF TypeOK
<1>2. \A r \in Node \cap DOMAIN out : out[r] \in Message BY <1>1, BroadcastType
<1>3. Send(n, out) /\ inbox \in [Node -> Seq(Message)] BY DEF LeaderTick, TypeOK
<1> HIDE DEF out
<1>4. inbox' \in [Node -> Seq(Message)] BY <1>2, <1>3, SendDelivers
<1> QED BY <1>4 DEF LeaderTick, TypeOK, raftVars, electionVars, logVars, leaderVars, commitVars

LEMMA SubmitType ==
  ASSUME TypeOK, NEW n \in Node, NEW c \in Command, Submit(n, c)
  PROVE  TypeOK'
<1> DEFINE entry == [term |-> current_term[n], command |-> c]
           lg == Append(log[n], entry)
           out == Broadcast(n, next_index[n], lg)
<1>1. entry \in Entry /\ log[n] \in Seq(Entry) /\ next_index[n] \in [Node -> Nat \ {0}]
  BY DEF TypeOK, Entry
<1>2. lg \in Seq(Entry) /\ Len(lg) \in Nat BY <1>1, AppendProperties, LenProperties
<1>3. /\ log' = [log EXCEPT ![n] = lg]
      /\ ledger' = [ledger EXCEPT ![current_term[n]] = lg]
      /\ acks' = acks \cup {<<current_term[n], n, Len(lg)>>}
      /\ pending' = [pending EXCEPT ![n] = [i \in DOMAIN pending[n] \cup {Len(lg)} |->
                        IF i = Len(lg) THEN c ELSE pending[n][i]]]
      /\ request' = [request EXCEPT ![c] = [status |-> "waiting", node |-> n, index |-> Len(lg)]]
      /\ Send(n, out)
      /\ UNCHANGED <<partitions, electionVars, leaderVars, commit_index, applied, tainted>>
  BY DEF Submit
<1> HIDE DEF lg
<1>4. \A r \in Node \cap DOMAIN out : out[r] \in Message BY <1>1, <1>2, BroadcastType
<1> HIDE DEF out
<1>5. inbox' \in [Node -> Seq(Message)] BY <1>3, <1>4, SendDelivers DEF TypeOK
<1>6. log' \in [Node -> Seq(Entry)] BY <1>2, <1>3 DEF TypeOK
<1>7. request' \in [Command -> Request] BY <1>2, <1>3 DEF TypeOK, Request
<1>8. /\ DOMAIN pending' = Node
      /\ \A p \in Node : /\ DOMAIN pending'[p] \subseteq Nat
                          /\ \A i \in DOMAIN pending'[p] : pending'[p][i] \in Command
  BY <1>2, <1>3 DEF TypeOK
<1>9. ledger' \in [1..MaxTerm -> Seq(Entry)] BY <1>2, <1>3 DEF TypeOK
<1>10. acks' \subseteq Nat \X Node \X Nat
  <2>1. acks \subseteq Nat \X Node \X Nat /\ current_term[n] \in Nat BY DEF TypeOK
  <2> QED BY <1>2, <1>3, <2>1
<1> QED BY <1>3, <1>5, <1>6, <1>7, <1>8, <1>9, <1>10 DEF TypeOK, electionVars, leaderVars

LEMMA SubmitTimeoutType ==
  ASSUME TypeOK, NEW c \in Command, SubmitTimeout(c)
  PROVE  TypeOK'
<1>1. request' \in [Command -> Request] BY DEF SubmitTimeout, TypeOK, Request
<1>2. /\ DOMAIN pending' = Node
      /\ \A p \in Node : /\ DOMAIN pending'[p] \subseteq Nat
                          /\ \A i \in DOMAIN pending'[p] : pending'[p][i] \in Command
  BY DEF SubmitTimeout, TypeOK
<1> QED BY <1>1, <1>2 DEF SubmitTimeout, TypeOK, busVars, electionVars, logVars, leaderVars

LEMMA NextType == TypeOK /\ [Next]_vars => TypeOK'
<1> SUFFICES ASSUME TypeOK, [Next]_vars PROVE TypeOK' OBVIOUS
<1>1. ASSUME NEW n \in Node, ElectionTimeout(n) PROVE TypeOK'
  BY <1>1, ElectionTimeoutType
<1>2. ASSUME NEW n \in Node, LeaderTick(n) PROVE TypeOK'
  BY <1>2, LeaderTickType
<1>3. ASSUME NEW n \in Node, Dispatch(n) PROVE TypeOK'
  <2> DEFINE m == Head(inbox[n])
  <2>1. inbox[n] # <<>> BY <1>3 DEF Dispatch
  <2>2. m \in Message BY <2>1, HeadIsMessage
  <2>3. CASE HandleRequestVote(n, m) BY <2>1, <2>2, <2>3, HandleRequestVoteType
  <2>4. CASE HandleVoteResponse(n, m)
    BY <2>1, <2>2, <2>4, StepDownType, CountVoteType, IgnoreType DEF HandleVoteResponse
  <2>5. CASE HandleAppendEntries(n, m) BY <2>1, <2>2, <2>5, HandleAppendEntriesType
  <2>6. CASE HandleAppendResponse(n, m) BY <2>1, <2>2, <2>6, HandleAppendResponseType
  <2> QED BY <1>3, <2>3, <2>4, <2>5, <2>6 DEF Dispatch
<1>4. ASSUME NEW n \in Node, NEW c \in Command, Submit(n, c) PROVE TypeOK'
  BY <1>4, SubmitType
<1>5. ASSUME NEW c \in Command, SubmitTimeout(c) PROVE TypeOK'
  BY <1>5, SubmitTimeoutType
<1>6. ASSUME NEW S \in SUBSET Node, Cut(S) PROVE TypeOK'
  BY <1>6 DEF Cut, PartitionNodes, TypeOK, raftVars, electionVars, logVars, leaderVars, commitVars
<1>7. CASE Heal
  BY <1>7 DEF Heal, HealPartition, TypeOK, raftVars, electionVars, logVars, leaderVars, commitVars
<1>8. CASE UNCHANGED vars
  BY <1>8 DEF vars, busVars, TypeOK, raftVars, electionVars, logVars, leaderVars, commitVars
<1> QED BY <1>1, <1>2, <1>3, <1>4, <1>5, <1>6, <1>7, <1>8 DEF Next

(* Raft's variables keep the types the code gives them.                     *)
THEOREM TypeCorrect == Spec => []TypeOK
<1>1. Init => TypeOK BY InitType
<1>2. TypeOK /\ [Next]_vars => TypeOK' BY NextType
<1> QED BY <1>1, <1>2, PTL DEF Spec

(***************************************************************************)
(* Election Safety.  A victory rests on a majority of votes; it is unique  *)
(* because a voter casts one vote per term.  The inductive invariant ties  *)
(* every place where a vote shows (voted_for, a response under way, the    *)
(* candidate's count, a past victory) to the votes cast.                   *)
(***************************************************************************)

(* A node votes in no term it has not reached, and voted_for is its vote in *)
(* its current term.                                                        *)
VotesAreRemembered ==
  \A b \in ballots : /\ b[1] <= current_term[b[2]]
                     /\ b[1] = current_term[b[2]] => voted_for[b[2]] = b[3]

OneVotePerTerm ==
  \A b, c \in ballots : b[1] = c[1] /\ b[2] = c[2] => b[3] = c[3]

(* A granted vote under way to n was cast for n. *)
GrantsAreVotes ==
  \A n \in Node : \A i \in DOMAIN inbox[n] :
    inbox[n][i].type = "vote_response" /\ inbox[n][i].vote_granted
      => <<inbox[n][i].term, inbox[n][i].from, n>> \in ballots

CountsAreVotes ==
  \A n \in Node : state[n] = "candidate" =>
    \A v \in votes_received[n] : <<current_term[n], v, n>> \in ballots

VictoriesHaveMajorities ==
  \A e \in elected : \E Q \in SUBSET Node :
    IsMajority(Q) /\ \A v \in Q : <<e[1], v, e[2]>> \in ballots

ElectionInv ==
  /\ TypeOK
  /\ VotesAreRemembered
  /\ OneVotePerTerm
  /\ GrantsAreVotes
  /\ CountsAreVotes
  /\ VictoriesHaveMajorities

LEMMA ElectionInvInit == Init => ElectionInv
<1> SUFFICES ASSUME Init PROVE ElectionInv OBVIOUS
<1>1. TypeOK BY InitType
<1>2. GrantsAreVotes BY DEF Init, BusInit, GrantsAreVotes
<1> QED BY <1>1, <1>2 DEF Init, ElectionInv, VotesAreRemembered, OneVotePerTerm,
              CountsAreVotes, VictoriesHaveMajorities

LEMMA ElectionInvImpliesSafety == ElectionInv => ElectionSafety
<1> SUFFICES ASSUME ElectionInv, NEW e \in elected, NEW f \in elected, e[1] = f[1]
             PROVE  e[2] = f[2]
  BY DEF ElectionSafety
<1>1. PICK Q \in SUBSET Node : IsMajority(Q) /\ \A v \in Q : <<e[1], v, e[2]>> \in ballots
  BY DEF ElectionInv, VictoriesHaveMajorities
<1>2. PICK R \in SUBSET Node : IsMajority(R) /\ \A v \in R : <<f[1], v, f[2]>> \in ballots
  BY DEF ElectionInv, VictoriesHaveMajorities
<1>3. PICK v : v \in Q \cap R BY <1>1, <1>2, MajoritiesMeet
<1>4. <<e[1], v, e[2]>> \in ballots /\ <<e[1], v, f[2]>> \in ballots BY <1>1, <1>2, <1>3
<1> QED BY <1>4 DEF ElectionInv, OneVotePerTerm

(* A step that casts no vote and counts none keeps the invariant, whatever  *)
(* it does to the logs, as long as a node that enters a later term stops    *)
(* being a candidate.                                                       *)
LEMMA NoVoteStep ==
  ASSUME ElectionInv, TypeOK',
         UNCHANGED <<ballots, elected, votes_received>>,
         \A p \in Node :
           /\ current_term'[p] >= current_term[p]
           /\ current_term'[p] = current_term[p] => voted_for'[p] = voted_for[p]
           /\ state'[p] = "candidate" =>
                state[p] = "candidate" /\ current_term'[p] = current_term[p],
         \A p \in Node : \A i \in DOMAIN inbox'[p] :
           \/ \E j \in DOMAIN inbox[p] : inbox'[p][i] = inbox[p][j]
           \/ inbox'[p][i].type # "vote_response"
  PROVE  ElectionInv'
<1>1. ballots \subseteq Nat \X Node \X Node /\ current_term \in [Node -> Nat]
      /\ current_term' \in [Node -> Nat]
  BY DEF ElectionInv, TypeOK
<1>2. VotesAreRemembered'
  BY <1>1 DEF ElectionInv, VotesAreRemembered
<1>3. OneVotePerTerm' /\ VictoriesHaveMajorities'
  BY DEF ElectionInv, OneVotePerTerm, VictoriesHaveMajorities
<1>4. GrantsAreVotes'
  BY DEF ElectionInv, GrantsAreVotes
<1>5. CountsAreVotes'
  BY DEF ElectionInv, CountsAreVotes
<1> QED BY <1>2, <1>3, <1>4, <1>5 DEF ElectionInv

(* Starting an election is a vote for oneself in a term nobody voted in     *)
(* before as this voter.                                                    *)
LEMMA ElectionTimeoutInv ==
  ASSUME ElectionInv, NEW n \in Node, ElectionTimeout(n)
  PROVE  ElectionInv'
<1> DEFINE own == <<current_term[n] + 1, n, n>>
           req == [type |-> "request_vote", from |-> n, term |-> current_term[n] + 1,
                   last_log_index |-> Len(log[n]), last_log_term |-> LastTerm(log[n])]
           out == [p \in Peers(n) |-> req]
<1>1. TypeOK /\ TypeOK' BY ElectionTimeoutType DEF ElectionInv
<1>2. ballots \subseteq Nat \X Node \X Node /\ current_term \in [Node -> Nat]
      /\ voted_for \in [Node -> Node \cup {None}]
  BY <1>1 DEF TypeOK
<1>3. /\ current_term' = [current_term EXCEPT ![n] = current_term[n] + 1]
      /\ voted_for' = [voted_for EXCEPT ![n] = n]
      /\ ballots' = ballots \cup {own}
      /\ state' = [state EXCEPT ![n] = "candidate"]
      /\ votes_received' = [votes_received EXCEPT ![n] = {n}]
      /\ Send(n, out)
      /\ elected' = elected
  BY DEF ElectionTimeout, BecomeCandidate, StartElection
<1>4. \A b \in ballots : b[2] = n => b[1] # current_term[n] + 1
  BY <1>2 DEF ElectionInv, VotesAreRemembered
<1>5. VotesAreRemembered'
  BY <1>2, <1>3, <1>4 DEF ElectionInv, VotesAreRemembered
<1>6. OneVotePerTerm'
  BY <1>2, <1>3, <1>4 DEF ElectionInv, OneVotePerTerm
<1>7. GrantsAreVotes'
  <2>1. \A r \in Node \cap DOMAIN out : out[r] \in {req} OBVIOUS
  <2>2. req.type = "request_vote" OBVIOUS
  <2>3. \A r \in Node : \A i \in DOMAIN inbox'[r] :
          \/ \E j \in DOMAIN inbox[r] : inbox'[r][i] = inbox[r][j]
          \/ r \in DOMAIN out /\ inbox'[r][i] = out[r]
    <3>1. \A r \in Node \cap DOMAIN out : out[r] \in Message \cup {req} BY <2>1
    <3>2. inbox \in [Node -> Seq(Message \cup {req})]
      <4>1. inbox \in [Node -> Seq(Message)] BY <1>1 DEF TypeOK
      <4>2. \A r \in Node : inbox[r] \in Seq(Message \cup {req}) BY <4>1, SeqMonotonic
      <4> QED BY <4>1, <4>2
    <3> HIDE DEF out, req
    <3> QED BY <1>3, <3>1, <3>2, SendDelivers
  <2>4. \A r \in Node : \A i \in DOMAIN inbox'[r] :
          \/ \E j \in DOMAIN inbox[r] : inbox'[r][i] = inbox[r][j]
          \/ inbox'[r][i].type = "request_vote"
    BY <2>1, <2>2, <2>3
  <2> QED BY <1>3, <2>4 DEF ElectionInv, GrantsAreVotes
<1>8. CountsAreVotes'
  BY <1>1, <1>3 DEF ElectionInv, CountsAreVotes, TypeOK
<1>9. VictoriesHaveMajorities'
  BY <1>3 DEF ElectionInv, VictoriesHaveMajorities
<1> QED BY <1>1, <1>5, <1>6, <1>7, <1>8, <1>9 DEF ElectionInv

(* A vote is granted only when none was cast in the term, or again to the   *)
(* same candidate.                                                          *)
LEMMA HandleRequestVoteInv ==
  ASSUME ElectionInv, NEW n \in Node, inbox[n] # <<>>, NEW m \in Message,
         HandleRequestVote(n, m)
  PROVE  ElectionInv'
<1> DEFINE newer == m.term > current_term[n]
           vote == IF newer THEN None ELSE voted_for[n]
           granted == /\ m.term >= current_term[n]
                      /\ LogIsUpToDate(n, m)
                      /\ vote \in {None, m.from}
           term == IF newer THEN m.term ELSE current_term[n]
           r == [type |-> "vote_response", from |-> n, term |-> term, vote_granted |-> granted]
           ballot == <<term, n, m.from>>
<1>1. TypeOK /\ TypeOK' BY HandleRequestVoteType DEF ElectionInv
<1>2. m.from \in Node /\ m.term \in Nat /\ m.from # None BY RaftAssumption DEF Message
<1>3. /\ current_term' = [current_term EXCEPT ![n] = term]
      /\ state' = [state EXCEPT ![n] = IF newer THEN "follower" ELSE state[n]]
      /\ voted_for' = [voted_for EXCEPT ![n] = IF granted THEN m.from ELSE vote]
      /\ ballots' = IF granted THEN ballots \cup {ballot} ELSE ballots
      /\ Reply(n, m.from, r)
      /\ UNCHANGED <<votes_received, elected>>
  BY DEF HandleRequestVote, AlreadyVoted
<1>4. ballots \subseteq Nat \X Node \X Node /\ current_term \in [Node -> Nat]
      /\ voted_for \in [Node -> Node \cup {None}] /\ None \notin Node
  BY <1>1, RaftAssumption DEF TypeOK
<1>5. term \in Nat /\ term >= current_term[n] /\ granted \in BOOLEAN
  BY <1>2, <1>4
<1>6. \A b \in ballots : b[2] = n /\ b[1] = term => b[1] = current_term[n] /\ ~newer
  BY <1>2, <1>4 DEF ElectionInv, VotesAreRemembered
<1>7. \A b \in ballots : b[2] = n /\ b[1] = term => b[3] = voted_for[n] /\ b[3] = vote
  BY <1>6 DEF ElectionInv, VotesAreRemembered
<1>8. \A b \in ballots : b[2] = n /\ b[1] = term /\ granted => b[3] = m.from
  <2> SUFFICES ASSUME NEW b \in ballots, b[2] = n, b[1] = term, granted PROVE b[3] = m.from
    OBVIOUS
  <2>1. b[3] \in Node /\ b[3] = vote BY <1>4, <1>7
  <2>2. vote \in {None, m.from} OBVIOUS
  <2> QED BY <2>1, <2>2, <1>4
<1> HIDE DEF granted
<1>9. VotesAreRemembered'
  <2> SUFFICES ASSUME NEW b \in ballots'
               PROVE  /\ b[1] <= current_term'[b[2]]
                      /\ b[1] = current_term'[b[2]] => voted_for'[b[2]] = b[3]
    BY DEF VotesAreRemembered
  <2>1. CASE b \in ballots
    <3>1. b[1] \in Nat /\ b[2] \in Node /\ b[1] <= current_term[b[2]]
          /\ (b[1] = current_term[b[2]] => voted_for[b[2]] = b[3])
      BY <2>1, <1>4 DEF ElectionInv, VotesAreRemembered
    <3>2. CASE b[2] # n BY <3>1, <3>2, <1>3
    <3>3. CASE b[2] = n
      BY <2>1, <3>1, <3>3, <1>3, <1>4, <1>5, <1>7, <1>8
    <3> QED BY <3>2, <3>3
  <2>2. CASE b \notin ballots
    <3>1. granted /\ b = ballot BY <2>2, <1>3
    <3> QED BY <3>1, <1>3, <1>4, <1>5
  <2> QED BY <2>1, <2>2
<1>10. OneVotePerTerm'
  BY <1>3, <1>8 DEF ElectionInv, OneVotePerTerm
<1>11. GrantsAreVotes'
  <2>1. r \in Message BY <1>5 DEF Message
  <2> HIDE DEF r
  <2>2. \A p \in Node : \A i \in DOMAIN inbox'[p] :
          \/ \E j \in DOMAIN inbox[p] : inbox'[p][i] = inbox[p][j]
          \/ p = m.from /\ inbox'[p][i] = r
    BY <1>1, <1>2, <1>3, <2>1, ReplyType
  <2>3. r.vote_granted = granted /\ r.term = term /\ r.from = n BY DEF r
  <2>4. ballots \subseteq ballots' /\ (granted => ballot \in ballots') BY <1>3
  <2> HIDE DEF term
  <2> SUFFICES ASSUME NEW p \in Node, NEW i \in DOMAIN inbox'[p],
                      inbox'[p][i].type = "vote_response", inbox'[p][i].vote_granted
               PROVE  <<inbox'[p][i].term, inbox'[p][i].from, p>> \in ballots'
    BY DEF GrantsAreVotes
  <2>5. CASE \E j \in DOMAIN inbox[p] : inbox'[p][i] = inbox[p][j]
    BY <2>4, <2>5 DEF ElectionInv, GrantsAreVotes
  <2>6. CASE p = m.from /\ inbox'[p][i] = r
    BY <2>3, <2>4, <2>6
  <2> QED BY <2>2, <2>5, <2>6
<1>12. CountsAreVotes'
  <2> SUFFICES ASSUME NEW p \in Node, state'[p] = "candidate", NEW v \in votes_received[p]
               PROVE  <<current_term'[p], v, p>> \in ballots'
    BY <1>3 DEF CountsAreVotes
  <2>1. state[p] = "candidate" /\ current_term'[p] = current_term[p]
    BY <1>1, <1>3, <1>4 DEF TypeOK
  <2>2. <<current_term[p], v, p>> \in ballots
    BY <2>1 DEF ElectionInv, CountsAreVotes
  <2> QED BY <2>1, <2>2, <1>3
<1>13. VictoriesHaveMajorities'
  <2>1. ballots \subseteq ballots' BY <1>3
  <2> QED BY <1>3, <2>1 DEF ElectionInv, VictoriesHaveMajorities
<1> QED BY <1>1, <1>9, <1>10, <1>11, <1>12, <1>13 DEF ElectionInv

(* A counted vote is a vote cast, so a winner's count is a majority of      *)
(* votes cast.                                                              *)
LEMMA CountVoteInv ==
  ASSUME ElectionInv, NEW n \in Node, inbox[n] # <<>>, state[n] = "candidate",
         Head(inbox[n]).type = "vote_response", CountVote(n, Head(inbox[n]))
  PROVE  ElectionInv'
<1> DEFINE m == Head(inbox[n])
           votes == votes_received[n] \cup {m.from}
           next == [p \in Node |-> IF p = n THEN next_index[n][p] ELSE Len(log[n]) + 1]
<1>1. TypeOK BY DEF ElectionInv
<1>2. m \in Message /\ 1 \in DOMAIN inbox[n] /\ m = inbox[n][1] BY <1>1, HeadIsMessage
<1> HIDE DEF m
<1>3. TypeOK' BY <1>1, <1>2, CountVoteType DEF m
<1>4. m.from \in Node BY <1>2 DEF Message
<1>5. /\ m.term = current_term[n] /\ m.vote_granted
      /\ votes_received' = [votes_received EXCEPT ![n] = votes]
      /\ UNCHANGED <<current_term, voted_for, ballots>>
  BY DEF CountVote, m
<1>6. \A v \in votes : <<current_term[n], v, n>> \in ballots
  <2>1. <<current_term[n], m.from, n>> \in ballots
    <3>1. <<inbox[n][1].term, inbox[n][1].from, n>> \in ballots
      BY <1>2, <1>5 DEF ElectionInv, GrantsAreVotes, m
    <3> QED BY <3>1, <1>2, <1>5
  <2>2. \A v \in votes_received[n] : <<current_term[n], v, n>> \in ballots
    BY DEF ElectionInv, CountsAreVotes
  <2> QED BY <2>1, <2>2
<1>7. VotesAreRemembered' /\ OneVotePerTerm'
  BY <1>5 DEF ElectionInv, VotesAreRemembered, OneVotePerTerm
<1>8. votes \in SUBSET Node BY <1>1, <1>4 DEF TypeOK
<1>9. CASE IsMajority(votes)
  <2> DEFINE out == Broadcast(n, next, log[n])
  <2>1. /\ state' = [state EXCEPT ![n] = "leader"]
        /\ elected' = elected \cup {<<current_term[n], n>>}
        /\ HandleAndSend(n, out)
    BY <1>9 DEF CountVote, m
  <2>2. log[n] \in Seq(Entry) /\ next \in [Node -> Nat \ {0}]
    <3>1. /\ log[n] \in Seq(Entry) /\ Len(log[n]) \in Nat
          /\ next_index[n] \in [Node -> Nat \ {0}]
      BY <1>1, LenProperties DEF TypeOK
    <3> QED BY <3>1
  <2>3. \A r \in Node \cap DOMAIN out : out[r] \in Message /\ out[r].type = "append_entries"
    BY <1>1, <2>2, BroadcastType
  <2> HIDE DEF out, next
  <2>4. \A p \in Node : \A i \in DOMAIN inbox'[p] :
          \/ \E j \in DOMAIN inbox[p] : inbox'[p][i] = inbox[p][j]
          \/ p \in DOMAIN out /\ inbox'[p][i] = out[p]
    <3>1. \A r \in Node \cap DOMAIN out : out[r] \in Message BY <2>3
    <3>2. inbox \in [Node -> Seq(Message)] BY <1>1 DEF TypeOK
    <3>3. /\ inbox' \in [Node -> Seq(Message)]
          /\ \A p \in Node : \A i \in DOMAIN inbox'[p] :
               \/ \E j \in DOMAIN inbox[p] : inbox'[p][i] = inbox[p][j]
               \/ p \in DOMAIN out /\ inbox'[p][i] = out[p]
      BY <2>1, <3>1, <3>2, HandleDelivers
    <3> QED BY <3>3
  <2>5. \A p \in Node : \A i \in DOMAIN inbox'[p] :
          \/ \E j \in DOMAIN inbox[p] : inbox'[p][i] = inbox[p][j]
          \/ inbox'[p][i].type = "append_entries"
    BY <2>3, <2>4
  <2>6. GrantsAreVotes' BY <1>5, <2>5 DEF ElectionInv, GrantsAreVotes
  <2>7. CountsAreVotes' BY <1>1, <1>5, <2>1 DEF ElectionInv, CountsAreVotes, TypeOK
  <2>8. VictoriesHaveMajorities'
    <3> SUFFICES ASSUME NEW e \in elected'
                 PROVE  \E Q \in SUBSET Node :
                          IsMajority(Q) /\ \A v \in Q : <<e[1], v, e[2]>> \in ballots
      BY <1>5 DEF VictoriesHaveMajorities
    <3>1. CASE e \in elected BY <3>1 DEF ElectionInv, VictoriesHaveMajorities
    <3>2. CASE e = <<current_term[n], n>> BY <3>2, <1>6, <1>8, <1>9
    <3> QED BY <3>1, <3>2, <2>1
  <2> QED BY <1>3, <1>7, <2>6, <2>7, <2>8 DEF ElectionInv
<1>10. CASE ~IsMajority(votes)
  <2>1. Handle(n) /\ UNCHANGED <<state, elected>> BY <1>10 DEF CountVote, m
  <2>2. GrantsAreVotes'
    <3>1. \A p \in Node : \A i \in DOMAIN inbox'[p] :
            \E j \in DOMAIN inbox[p] : inbox'[p][i] = inbox[p][j]
      BY <1>1, <2>1, HandleType
    <3> QED BY <1>5, <3>1 DEF ElectionInv, GrantsAreVotes
  <2>3. CountsAreVotes'
    BY <1>1, <1>5, <1>6, <2>1 DEF ElectionInv, CountsAreVotes, TypeOK
  <2>4. VictoriesHaveMajorities' BY <1>5, <2>1 DEF ElectionInv, VictoriesHaveMajorities
  <2> QED BY <1>3, <1>7, <2>2, <2>3, <2>4 DEF ElectionInv
<1> QED BY <1>9, <1>10

(* Stepping down enters a later term as a follower without a vote. *)
LEMMA StepDownInv ==
  ASSUME ElectionInv, NEW n \in Node, inbox[n] # <<>>, NEW m \in Message, StepDown(n, m)
  PROVE  ElectionInv'
<1>1. TypeOK /\ TypeOK' BY StepDownType DEF ElectionInv
<1>2. m.term \in Nat BY DEF Message
<1>3. \A p \in Node :
        /\ current_term'[p] >= current_term[p]
        /\ current_term'[p] = current_term[p] => voted_for'[p] = voted_for[p]
        /\ state'[p] = "candidate" => state[p] = "candidate" /\ current_term'[p] = current_term[p]
  <2>1. /\ current_term \in [Node -> Nat] /\ voted_for \in [Node -> Node \cup {None}]
        /\ state \in [Node -> {"follower", "candidate", "leader"}]
    BY <1>1 DEF TypeOK
  <2>2. /\ m.term > current_term[n]
        /\ current_term' = [current_term EXCEPT ![n] = m.term]
        /\ voted_for' = [voted_for EXCEPT ![n] = None]
        /\ state' = [state EXCEPT ![n] = "follower"]
    BY DEF StepDown
  <2> QED BY <1>2, <2>1, <2>2
<1>4. \A p \in Node : \A i \in DOMAIN inbox'[p] :
        \E j \in DOMAIN inbox[p] : inbox'[p][i] = inbox[p][j]
  BY <1>1, HandleType DEF StepDown
<1>5. UNCHANGED <<ballots, elected, votes_received>> BY DEF StepDown
<1> QED BY <1>1, <1>3, <1>4, <1>5, NoVoteStep

(* A step that leaves the election alone keeps the invariant, whatever else *)
(* it does and sends, as long as it sends no votes.                         *)
LEMMA ElectionUntouched ==
  ASSUME ElectionInv, TypeOK', UNCHANGED electionVars,
         \A p \in Node : \A i \in DOMAIN inbox'[p] :
           \/ \E j \in DOMAIN inbox[p] : inbox'[p][i] = inbox[p][j]
           \/ inbox'[p][i].type # "vote_response"
  PROVE  ElectionInv'
<1>1. UNCHANGED <<ballots, elected, votes_received>> BY DEF electionVars
<1>2. \A p \in Node :
        /\ current_term'[p] >= current_term[p]
        /\ current_term'[p] = current_term[p] => voted_for'[p] = voted_for[p]
        /\ state'[p] = "candidate" => state[p] = "candidate" /\ current_term'[p] = current_term[p]
  <2>1. current_term \in [Node -> Nat] BY DEF ElectionInv, TypeOK
  <2>2. UNCHANGED <<current_term, voted_for, state>> BY DEF electionVars
  <2> QED BY <2>1, <2>2
<1> QED BY <1>1, <1>2, NoVoteStep

LEMMA HandleAppendEntriesInv ==
  ASSUME ElectionInv, NEW n \in Node, inbox[n] # <<>>, NEW m \in Message,
         HandleAppendEntries(n, m)
  PROVE  ElectionInv'
<1>1. TypeOK /\ TypeOK' BY HandleAppendEntriesType DEF ElectionInv
<1>2. m.term \in Nat /\ m.from \in Node BY DEF Message
<1>3. \A p \in Node :
        /\ current_term'[p] >= current_term[p]
        /\ current_term'[p] = current_term[p] => voted_for'[p] = voted_for[p]
        /\ state'[p] = "candidate" => state[p] = "candidate" /\ current_term'[p] = current_term[p]
  <2>1. /\ current_term \in [Node -> Nat] /\ voted_for \in [Node -> Node \cup {None}]
        /\ state \in [Node -> {"follower", "candidate", "leader"}]
    BY <1>1 DEF TypeOK
  <2>2. /\ current_term' = [current_term EXCEPT ![n] = IF m.term > current_term[n]
                                                     THEN m.term ELSE current_term[n]]
        /\ voted_for' = [voted_for EXCEPT ![n] = IF m.term > current_term[n]
                                               THEN None ELSE voted_for[n]]
        /\ state' = [state EXCEPT ![n] = IF m.term >= current_term[n]
                                       THEN "follower" ELSE state[n]]
    BY DEF HandleAppendEntries
  <2> QED BY <1>2, <2>1, <2>2
<1>4. UNCHANGED <<ballots, elected, votes_received>> BY DEF HandleAppendEntries
<1>5. PICK success, match :
        Reply(n, m.from, [type |-> "append_response", from |-> n, term |-> current_term'[n],
                          success |-> success, match_index |-> match])
  BY DEF HandleAppendEntries
<1> DEFINE r == [type |-> "append_response", from |-> n, term |-> current_term'[n],
                 success |-> success, match_index |-> match]
<1>6. r.type = "append_response" OBVIOUS
<1> HIDE DEF r
<1>7. \A p \in Node : \A i \in DOMAIN inbox'[p] :
        \/ \E j \in DOMAIN inbox[p] : inbox'[p][i] = inbox[p][j]
        \/ inbox'[p][i] = r
  BY <1>1, <1>2, <1>5, ReplyDelivers DEF r
<1> QED BY <1>1, <1>3, <1>4, <1>6, <1>7, NoVoteStep

LEMMA HandleAppendResponseInv ==
  ASSUME ElectionInv, NEW n \in Node, inbox[n] # <<>>, NEW m \in Message,
         HandleAppendResponse(n, m)
  PROVE  ElectionInv'
<1>1. TypeOK /\ TypeOK' BY HandleAppendResponseType DEF ElectionInv
<1>2. CASE state[n] = "leader" /\ StepDown(n, m) BY <1>2, StepDownInv
<1>3. CASE ~(state[n] = "leader" /\ StepDown(n, m))
  <2>1. Handle(n) /\ UNCHANGED electionVars
    BY <1>3 DEF HandleAppendResponse, Ignore, raftVars
  <2>2. \A p \in Node : \A i \in DOMAIN inbox'[p] :
          \E j \in DOMAIN inbox[p] : inbox'[p][i] = inbox[p][j]
    BY <1>1, <2>1, HandleType
  <2> QED BY <1>1, <2>1, <2>2, ElectionUntouched
<1> QED BY <1>2, <1>3

LEMMA IgnoreInv ==
  ASSUME ElectionInv, NEW n \in Node, inbox[n] # <<>>, Ignore(n)
  PROVE  ElectionInv'
<1>1. TypeOK /\ TypeOK' BY IgnoreType DEF ElectionInv
<1>2. \A p \in Node : \A i \in DOMAIN inbox'[p] :
        \E j \in DOMAIN inbox[p] : inbox'[p][i] = inbox[p][j]
  BY <1>1, HandleType DEF Ignore
<1>3. UNCHANGED electionVars BY DEF Ignore, raftVars
<1> QED BY <1>1, <1>2, <1>3, ElectionUntouched

(* A round of AppendEntries changes no vote. *)
LEMMA BroadcastInv ==
  ASSUME ElectionInv, TypeOK', NEW n \in Node, NEW next \in [Node -> Nat \ {0}],
         NEW lg \in Seq(Entry), Send(n, Broadcast(n, next, lg)), UNCHANGED electionVars
  PROVE  ElectionInv'
<1> DEFINE out == Broadcast(n, next, lg)
<1>1. TypeOK BY DEF ElectionInv
<1>2. \A r \in Node \cap DOMAIN out : out[r] \in Message /\ out[r].type = "append_entries"
  BY <1>1, BroadcastType
<1>3. Send(n, out) /\ inbox \in [Node -> Seq(Message)] BY <1>1 DEF TypeOK
<1> HIDE DEF out
<1>4. \A p \in Node : \A i \in DOMAIN inbox'[p] :
        \/ \E j \in DOMAIN inbox[p] : inbox'[p][i] = inbox[p][j]
        \/ p \in DOMAIN out /\ inbox'[p][i] = out[p]
  <2>1. \A r \in Node \cap DOMAIN out : out[r] \in Message BY <1>2
  <2>2. /\ inbox' \in [Node -> Seq(Message)]
        /\ \A p \in Node : \A i \in DOMAIN inbox'[p] :
             \/ \E j \in DOMAIN inbox[p] : inbox'[p][i] = inbox[p][j]
             \/ p \in DOMAIN out /\ inbox'[p][i] = out[p]
    BY <1>3, <2>1, SendDelivers
  <2> QED BY <2>2
<1>5. \A p \in Node : \A i \in DOMAIN inbox'[p] :
        \/ \E j \in DOMAIN inbox[p] : inbox'[p][i] = inbox[p][j]
        \/ inbox'[p][i].type # "vote_response"
  BY <1>2, <1>4
<1> QED BY <1>5, ElectionUntouched

LEMMA ElectionInvNext == ElectionInv /\ [Next]_vars => ElectionInv'
<1> SUFFICES ASSUME ElectionInv, [Next]_vars PROVE ElectionInv' OBVIOUS
<1>1. TypeOK /\ TypeOK' BY NextType DEF ElectionInv
<1>2. ASSUME NEW n \in Node, ElectionTimeout(n) PROVE ElectionInv'
  BY <1>2, ElectionTimeoutInv
<1>3. ASSUME NEW n \in Node, LeaderTick(n) PROVE ElectionInv'
  <2>1. next_index[n] \in [Node -> Nat \ {0}] /\ log[n] \in Seq(Entry) BY <1>1 DEF TypeOK
  <2>2. Send(n, Broadcast(n, next_index[n], log[n])) /\ UNCHANGED electionVars
    BY <1>3 DEF LeaderTick, raftVars
  <2> QED BY <1>1, <2>1, <2>2, BroadcastInv
<1>4. ASSUME NEW n \in Node, Dispatch(n) PROVE ElectionInv'
  <2> DEFINE m == Head(inbox[n])
  <2>1. inbox[n] # <<>> BY <1>4 DEF Dispatch
  <2>2. m \in Message BY <1>1, <2>1, HeadIsMessage
  <2>3. CASE HandleRequestVote(n, m) BY <2>1, <2>2, <2>3, HandleRequestVoteInv
  <2>4. CASE HandleVoteResponse(n, m)
    BY <2>1, <2>2, <2>4, StepDownInv, CountVoteInv, IgnoreInv DEF HandleVoteResponse
  <2>5. CASE HandleAppendEntries(n, m) BY <2>1, <2>2, <2>5, HandleAppendEntriesInv
  <2>6. CASE HandleAppendResponse(n, m) BY <2>1, <2>2, <2>6, HandleAppendResponseInv
  <2> QED BY <1>4, <2>3, <2>4, <2>5, <2>6 DEF Dispatch
<1>5. ASSUME NEW n \in Node, NEW c \in Command, Submit(n, c) PROVE ElectionInv'
  <2> DEFINE lg == Append(log[n], [term |-> current_term[n], command |-> c])
  <2>1. next_index[n] \in [Node -> Nat \ {0}] /\ lg \in Seq(Entry)
    BY <1>1, AppendProperties DEF TypeOK, Entry
  <2>2. Send(n, Broadcast(n, next_index[n], lg)) /\ UNCHANGED electionVars
    BY <1>5 DEF Submit
  <2> HIDE DEF lg
  <2> QED BY <1>1, <2>1, <2>2, BroadcastInv
<1>6. ASSUME UNCHANGED <<inbox, electionVars>> PROVE ElectionInv'
  BY <1>1, <1>6, ElectionUntouched
<1>7. ASSUME NEW c \in Command, SubmitTimeout(c) PROVE ElectionInv'
  BY <1>6, <1>7 DEF SubmitTimeout, busVars
<1>8. ASSUME NEW S \in SUBSET Node, Cut(S) PROVE ElectionInv'
  BY <1>6, <1>8 DEF Cut, PartitionNodes, raftVars
<1>9. CASE Heal
  BY <1>6, <1>9 DEF Heal, HealPartition, raftVars
<1>10. CASE UNCHANGED vars
  BY <1>6, <1>10 DEF vars, busVars, raftVars
<1> QED BY <1>2, <1>3, <1>4, <1>5, <1>7, <1>8, <1>9, <1>10 DEF Next

(* No term is ever won by two nodes (raft.py:125-144, 212-265).             *)
THEOREM ElectionSafe == Spec => []ElectionSafety
<1>1. Init => ElectionInv BY ElectionInvInit
<1>2. ElectionInv /\ [Next]_vars => ElectionInv' BY ElectionInvNext
<1>3. ElectionInv => ElectionSafety BY ElectionInvImpliesSafety
<1> QED BY <1>1, <1>2, <1>3, PTL DEF Spec

(***************************************************************************)
(* Votes are final: an action property of the same actions.                *)
(***************************************************************************)

VoteKept ==
  \A n \in Node :
    /\ current_term'[n] >= current_term[n]
    /\ voted_for[n] # None /\ current_term'[n] = current_term[n] =>
         voted_for'[n] = voted_for[n]

LEMMA NextKeepsVotes == TypeOK /\ [Next]_vars => VoteKept
<1> SUFFICES ASSUME TypeOK, [Next]_vars PROVE VoteKept OBVIOUS
<1>1. current_term \in [Node -> Nat] /\ voted_for \in [Node -> Node \cup {None}]
  BY DEF TypeOK
<1>2. ASSUME UNCHANGED <<current_term, voted_for>> PROVE VoteKept
  BY <1>1, <1>2 DEF VoteKept
<1>3. ASSUME NEW n \in Node, ElectionTimeout(n) PROVE VoteKept
  <2>1. /\ current_term' = [current_term EXCEPT ![n] = current_term[n] + 1]
        /\ voted_for' = [voted_for EXCEPT ![n] = n]
    BY <1>3 DEF ElectionTimeout, BecomeCandidate
  <2> QED BY <1>1, <2>1 DEF VoteKept
<1>4. ASSUME NEW n \in Node, NEW m, m.term \in Nat, m.term > current_term[n],
             current_term' = [current_term EXCEPT ![n] = m.term],
             \A p \in Node \ {n} : voted_for'[p] = voted_for[p]
      PROVE  VoteKept
  BY <1>1, <1>4 DEF VoteKept
<1>5. ASSUME NEW n \in Node, Dispatch(n) PROVE VoteKept
  <2> DEFINE m == Head(inbox[n])
  <2>1. inbox[n] # <<>> BY <1>5 DEF Dispatch
  <2>2. m \in Message /\ m.term \in Nat BY <2>1, HeadIsMessage DEF Message
  <2> HIDE DEF m
  <2>3. CASE StepDown(n, m)
    <3>1. /\ m.term > current_term[n]
          /\ current_term' = [current_term EXCEPT ![n] = m.term]
          /\ voted_for' = [voted_for EXCEPT ![n] = None]
      BY <2>3 DEF StepDown
    <3> QED BY <1>1, <1>4, <2>2, <3>1
  <2>4. CASE HandleRequestVote(n, m)
    <3> DEFINE newer == m.term > current_term[n]
               vote == IF newer THEN None ELSE voted_for[n]
               granted == /\ m.term >= current_term[n]
                          /\ LogIsUpToDate(n, m)
                          /\ vote \in {None, m.from}
    <3>1. /\ current_term' = [current_term EXCEPT ![n] = IF newer THEN m.term ELSE current_term[n]]
          /\ voted_for' = [voted_for EXCEPT ![n] = IF granted THEN m.from ELSE vote]
      BY <2>4 DEF HandleRequestVote, AlreadyVoted
    <3>2. CASE newer BY <1>1, <1>4, <2>2, <3>1, <3>2
    <3>3. CASE ~newer
      <4>1. current_term' = current_term BY <1>1, <3>1, <3>3
      <4>2. voted_for[n] # None => voted_for'[n] = voted_for[n] BY <1>1, <3>1, <3>3
      <4>3. \A p \in Node \ {n} : voted_for'[p] = voted_for[p] BY <1>1, <3>1
      <4> QED BY <1>1, <4>1, <4>2, <4>3 DEF VoteKept
    <3> QED BY <3>2, <3>3
  <2>5. CASE HandleAppendEntries(n, m)
    <3>1. /\ current_term' = [current_term EXCEPT ![n] = IF m.term > current_term[n]
                                                       THEN m.term ELSE current_term[n]]
          /\ voted_for' = [voted_for EXCEPT ![n] = IF m.term > current_term[n]
                                                 THEN None ELSE voted_for[n]]
      BY <2>5 DEF HandleAppendEntries
    <3> QED BY <1>1, <1>4, <2>2, <3>1 DEF VoteKept
  <2>6. CASE HandleVoteResponse(n, m)
    BY <1>2, <2>3, <2>6 DEF HandleVoteResponse, CountVote, Ignore, raftVars, electionVars
  <2>7. CASE HandleAppendResponse(n, m)
    BY <1>2, <2>3, <2>7 DEF HandleAppendResponse, Ignore, raftVars, electionVars
  <2> QED BY <1>5, <2>4, <2>5, <2>6, <2>7 DEF Dispatch, m
<1> QED BY <1>2, <1>3, <1>5 DEF Next, LeaderTick, Submit, SubmitTimeout, Cut, Heal,
                                vars, raftVars, electionVars

(* A vote is never taken back and a term never decreases (raft.py:117-131,  *)
(* 212-241).                                                                *)
THEOREM VotesFinal == Spec => VotesAreFinal
<1>1. Init => TypeOK BY InitType
<1>2. TypeOK /\ [Next]_vars => TypeOK' BY NextType
<1>3. TypeOK /\ [Next]_vars => VoteKept BY NextKeepsVotes
<1> QED BY <1>1, <1>2, <1>3, PTL DEF Spec, VotesAreFinal, VoteKept

-----------------------------------------------------------------------------
(***************************************************************************)
(* Raft's logs: Log Matching, State Machine Safety until a step is tainted, *)
(* the answers of submit(), and candidates that have won.                  *)
(*                                                                         *)
(* The argument looks at the history.  Whatever a node holds up to an entry *)
(* of term t is what the leader of t held there (the ledger of t).  A node *)
(* that acknowledged the entry keeps it, and so does everyone who is       *)
(* elected later, unless a majority has gone on to a later term without    *)
(* acknowledging it: then no majority ever will.  What is committed a      *)
(* majority has acknowledged.                                              *)
(***************************************************************************)

(***************************************************************************)
(* Steps.  What the actions do to votes, logs and commits, of which there   *)
(* are seven kinds, and what they send.                                    *)
(***************************************************************************)

Stands(n) ==
  /\ current_term[n] < MaxTerm
  /\ current_term' = [current_term EXCEPT ![n] = @ + 1]
  /\ state' = [state EXCEPT ![n] = "candidate"]
  /\ ballots' = ballots \cup {<<current_term[n] + 1, n, n>>}
  /\ UNCHANGED <<elected, logVars>>

Grants(n, m) ==
  /\ m.type = "request_vote" /\ m.term >= current_term[n] /\ LogIsUpToDate(n, m)
  /\ current_term' = [current_term EXCEPT ![n] = m.term]
  /\ state' = [state EXCEPT ![n] = IF m.term > current_term[n] THEN "follower" ELSE @]
  /\ ballots' = ballots \cup {<<m.term, n, m.from>>}
  /\ UNCHANGED <<elected, logVars>>

Wins(n) ==
  /\ state[n] = "candidate"
  /\ state' = [state EXCEPT ![n] = "leader"]
  /\ elected' = elected \cup {<<current_term[n], n>>}
  /\ ledger' = [ledger EXCEPT ![current_term[n]] = log[n]]
  /\ match_index' = [match_index EXCEPT ![n] = [p \in Node |-> IF p = n THEN @[p] ELSE 0]]
  /\ UNCHANGED <<current_term, ballots, log, acks, commit_index, applied, tainted>>

Writes(n) ==
  /\ state[n] = "leader"
  /\ \E c \in Command :
       LET lg == Append(log[n], [term |-> current_term[n], command |-> c])
       IN /\ log' = [log EXCEPT ![n] = lg]
          /\ ledger' = [ledger EXCEPT ![current_term[n]] = lg]
          /\ acks' = acks \cup {<<current_term[n], n, Len(lg)>>}
  /\ UNCHANGED electionVars

Matched(m) == m.prev_log_index + Len(m.entries)

Stores(n, m) ==
  /\ m.type = "append_entries" /\ m.term >= current_term[n]
  /\ \/ m.prev_log_index = 0
     \/ m.prev_log_index <= Len(log[n]) /\ log[n][m.prev_log_index].term = m.prev_log_term
  /\ current_term' = [current_term EXCEPT ![n] = m.term]
  /\ state' = [state EXCEPT ![n] = "follower"]
  /\ log' = [log EXCEPT ![n] = Overwritten(@, m.prev_log_index, m.entries)]
  /\ acks' = acks \cup Acknowledged(n, m.term, log'[n], Matched(m))
  /\ \/ UNCHANGED <<commit_index, applied, tainted>>
     \/ \E upto \in 0..Len(log'[n]) :
          /\ m.leader_commit > commit_index[n] /\ upto <= m.leader_commit
          /\ Apply(n, upto, log'[n])
          /\ tainted' = tainted \cup (IF upto > Matched(m) THEN {"unmatched tail"} ELSE {})
  /\ UNCHANGED <<ballots, elected, ledger, match_index>>

Counts(n, m) ==
  /\ state[n] = "leader"
  /\ m.type = "append_response" /\ m.term <= current_term[n] /\ m.success
  /\ match_index' = [match_index EXCEPT ![n][m.from] = m.match_index]
  /\ \/ \E i \in Committable(n, match_index'[n]) : Apply(n, i, log[n])
     \/ UNCHANGED <<commit_index, applied>>
  /\ tainted' = tainted \cup (IF m.term < current_term[n] /\ m.match_index > match_index[n][m.from]
                                THEN {"stale ack"} ELSE {})
  /\ UNCHANGED <<electionVars, logVars>>

(* Anything else at most moves a node to the later term of a message.       *)
Moves ==
  /\ \A p \in Node :
       /\ current_term'[p] >= current_term[p]
       /\ \/ current_term'[p] = current_term[p]
          \/ \E i \in DOMAIN inbox[p] : current_term'[p] = inbox[p][i].term
       /\ state'[p] # "follower" => state'[p] = state[p] /\ current_term'[p] = current_term[p]
  /\ UNCHANGED <<ballots, elected, logVars>>

Silent == UNCHANGED <<match_index, commit_index, applied, tainted>>

Step ==
  \/ Silent /\ Moves
  \/ Silent /\ \E n \in Node : Stands(n) \/ Writes(n)
  \/ Silent /\ \E n \in Node : \E i \in DOMAIN inbox[n] : Grants(n, inbox[n][i])
  \/ \E n \in Node : Wins(n)
  \/ \E n \in Node : \E i \in DOMAIN inbox[n] : Stores(n, inbox[n][i]) \/ Counts(n, inbox[n][i])

(* What n may send to p, besides granting a vote: its answer to the entries *)
(* of p, a request for votes, its log if it is leader.                     *)
SentTo(p, n, m) ==
  /\ m.from = n /\ m.term = current_term'[n]
  /\ \/ m.type = "vote_response"
     \/ /\ m.type = "append_response"
        /\ m.success => \E i \in DOMAIN inbox[n] : /\ Stores(n, inbox[n][i])
                                                   /\ m.term = inbox[n][i].term
                                                   /\ m.match_index = Matched(inbox[n][i])
     \/ /\ m.type = "request_vote" /\ log' = log
        /\ m.last_log_index = Len(log[n]) /\ m.last_log_term = LastTerm(log[n])
     \/ /\ m.type = "append_entries" /\ p # n
        /\ state'[n] = "leader" /\ current_term'[n] = current_term[n]
        /\ \E next \in Nat \ {0} : m = AppendEntries(n, next, log'[n])

Sends ==
  \A p \in Node : \A i \in DOMAIN inbox'[p] :
    \/ \E j \in DOMAIN inbox[p] : inbox'[p][i] = inbox[p][j]
    \/ \E n \in Node : SentTo(p, n, inbox'[p][i])

LEMMA StaysPut ==
  ASSUME TypeOK, UNCHANGED <<current_term, ballots, elected, logVars>>,
         \A p \in Node : state'[p] # "follower" => state'[p] = state[p]
  PROVE  Moves
<1>1. current_term \in [Node -> Nat] BY DEF TypeOK
<1> QED BY <1>1 DEF Moves

LEMMA GoesOn ==
  ASSUME TypeOK, NEW n \in Node, NEW i \in DOMAIN inbox[n], NEW t \in Nat,
         t = inbox[n][i].term, t > current_term[n],
         current_term' = [current_term EXCEPT ![n] = t],
         state' = [state EXCEPT ![n] = "follower"], UNCHANGED <<ballots, elected, logVars>>
  PROVE  Moves
<1>1. current_term \in [Node -> Nat] /\ state \in [Node -> {"follower", "candidate", "leader"}]
  BY DEF TypeOK
<1> QED BY <1>1 DEF Moves

LEMMA BroadcastDelivers ==
  ASSUME TypeOK, NEW n \in Node, NEW next \in [Node -> Nat \ {0}], NEW lg \in Seq(Entry),
         \/ Send(n, Broadcast(n, next, lg))
         \/ inbox[n] # <<>> /\ HandleAndSend(n, Broadcast(n, next, lg))
  PROVE  \A p \in Node : \A i \in DOMAIN inbox'[p] :
           \/ \E j \in DOMAIN inbox[p] : inbox'[p][i] = inbox[p][j]
           \/ p # n /\ inbox'[p][i] = AppendEntries(n, next[p], lg)
<1> DEFINE out == Broadcast(n, next, lg)
<1>1. \A r \in Node \cap DOMAIN out : out[r] \in Message BY BroadcastType
<1>2. \A p \in DOMAIN out : p # n /\ out[p] = AppendEntries(n, next[p], lg)
  BY DEF Broadcast, Peers
<1>3. inbox \in [Node -> Seq(Message)] BY DEF TypeOK
<1>4. Send(n, out) \/ (inbox[n] # <<>> /\ HandleAndSend(n, out)) OBVIOUS
<1> HIDE DEF out
<1>5. \A p \in Node : \A i \in DOMAIN inbox'[p] :
        \/ \E j \in DOMAIN inbox[p] : inbox'[p][i] = inbox[p][j]
        \/ p \in DOMAIN out /\ inbox'[p][i] = out[p]
  <2>1. CASE Send(n, out)
    <3>1. /\ inbox' \in [Node -> Seq(Message)]
          /\ \A p \in Node : \A i \in DOMAIN inbox'[p] :
               \/ \E j \in DOMAIN inbox[p] : inbox'[p][i] = inbox[p][j]
               \/ p \in DOMAIN out /\ inbox'[p][i] = out[p]
      BY <2>1, <1>1, <1>3, SendDelivers
    <3> QED BY <3>1
  <2>2. CASE inbox[n] # <<>> /\ HandleAndSend(n, out)
    <3>1. /\ inbox' \in [Node -> Seq(Message)]
          /\ \A p \in Node : \A i \in DOMAIN inbox'[p] :
               \/ \E j \in DOMAIN inbox[p] : inbox'[p][i] = inbox[p][j]
               \/ p \in DOMAIN out /\ inbox'[p][i] = out[p]
      BY <2>2, <1>1, <1>3, HandleDelivers
    <3> QED BY <3>1
  <2> QED BY <1>4, <2>1, <2>2
<1> QED BY <1>2, <1>5

LEMMA BroadcastSends ==
  ASSUME TypeOK, NEW n \in Node, NEW next \in [Node -> Nat \ {0}], log'[n] \in Seq(Entry),
         state'[n] = "leader", current_term'[n] = current_term[n],
         \/ Send(n, Broadcast(n, next, log'[n]))
         \/ inbox[n] # <<>> /\ HandleAndSend(n, Broadcast(n, next, log'[n]))
  PROVE  Sends
<1>1. \A p \in Node : \A i \in DOMAIN inbox'[p] :
        \/ \E j \in DOMAIN inbox[p] : inbox'[p][i] = inbox[p][j]
        \/ p # n /\ inbox'[p][i] = AppendEntries(n, next[p], log'[n])
  <2> DEFINE lg == log'[n]
  <2>1. lg \in Seq(Entry) /\ (\/ Send(n, Broadcast(n, next, lg))
                              \/ inbox[n] # <<>> /\ HandleAndSend(n, Broadcast(n, next, lg)))
    OBVIOUS
  <2> HIDE DEF lg
  <2>2. \A p \in Node : \A i \in DOMAIN inbox'[p] :
          \/ \E j \in DOMAIN inbox[p] : inbox'[p][i] = inbox[p][j]
          \/ p # n /\ inbox'[p][i] = AppendEntries(n, next[p], lg)
    BY <2>1, BroadcastDelivers
  <2> QED BY <2>2 DEF lg
<1>2. ASSUME NEW p \in Node, NEW x, p # n, x = AppendEntries(n, next[p], log'[n])
      PROVE  SentTo(p, n, x)
  <2>1. next[p] \in Nat \ {0} OBVIOUS
  <2>2. x.from = n /\ x.term = current_term'[n] /\ x.type = "append_entries"
    BY <1>2 DEF AppendEntries
  <2> QED BY <1>2, <2>1, <2>2 DEF SentTo
<1> QED BY <1>1, <1>2 DEF Sends

LEMMA SilentSends ==
  ASSUME \A p \in Node : \A i \in DOMAIN inbox'[p] :
           \E j \in DOMAIN inbox[p] : inbox'[p][i] = inbox[p][j]
  PROVE  Sends
BY DEF Sends

(* _become_candidate (raft.py:125-135, 194-210). *)
LEMMA ElectionTimeoutStep ==
  ASSUME TypeOK, NEW n \in Node, ElectionTimeout(n)
  PROVE  Step /\ Sends
<1>1. Silent /\ Stands(n)
  <2>1. /\ current_term' = [current_term EXCEPT ![n] = current_term[n] + 1]
        /\ state' = [state EXCEPT ![n] = "candidate"]
        /\ ballots' = ballots \cup {<<current_term[n] + 1, n, n>>}
        /\ current_term[n] < MaxTerm
        /\ UNCHANGED <<elected, logVars, leaderVars, commitVars>>
    BY DEF ElectionTimeout, BecomeCandidate
  <2> QED BY <2>1 DEF Stands, Silent, leaderVars, commitVars
<1>2. Sends
  <2> DEFINE req == [type |-> "request_vote", from |-> n, term |-> current_term[n] + 1,
                     last_log_index |-> Len(log[n]), last_log_term |-> LastTerm(log[n])]
             out == [p \in Peers(n) |-> req]
             M == Message \cup {req}
  <2>1. Send(n, out) BY DEF ElectionTimeout, StartElection
  <2>2. inbox \in [Node -> Seq(M)]
    <3>1. inbox \in [Node -> Seq(Message)] BY DEF TypeOK
    <3>2. \A r \in Node : inbox[r] \in Seq(M) BY <3>1, SeqMonotonic
    <3> HIDE DEF M
    <3> QED BY <3>1, <3>2
  <2>3. \A r \in Node \cap DOMAIN out : out[r] \in M OBVIOUS
  <2>4. \A p \in Node : SentTo(p, n, req)
    <3>1. current_term'[n] = current_term[n] + 1 /\ log' = log
      BY DEF ElectionTimeout, BecomeCandidate, TypeOK, logVars
    <3> QED BY <3>1 DEF SentTo
  <2>5. \A r \in DOMAIN out : out[r] = req OBVIOUS
  <2> HIDE DEF M, out, req
  <2>6. /\ inbox' \in [Node -> Seq(M)]
        /\ \A r \in Node : \A i \in DOMAIN inbox'[r] :
             \/ \E j \in DOMAIN inbox[r] : inbox'[r][i] = inbox[r][j]
             \/ r \in DOMAIN out /\ inbox'[r][i] = out[r]
    BY <2>1, <2>2, <2>3, SendDelivers
  <2> QED BY <2>4, <2>5, <2>6 DEF Sends
<1> QED BY <1>1, <1>2 DEF Step

LEMMA ReplySends ==
  ASSUME TypeOK, NEW n \in Node, inbox[n] # <<>>, NEW to \in Node, NEW r, Reply(n, to, r),
         \A p \in Node : SentTo(p, n, r)
  PROVE  Sends
<1>1. \A p \in Node : \A i \in DOMAIN inbox'[p] :
        \/ \E j \in DOMAIN inbox[p] : inbox'[p][i] = inbox[p][j]
        \/ p = to /\ inbox'[p][i] = r
  BY ReplyDelivers
<1> QED BY <1>1 DEF Sends

(* _handle_request_vote (raft.py:212-250). *)
LEMMA RequestVoteStep ==
  ASSUME TypeOK, NEW n \in Node, inbox[n] # <<>>, HandleRequestVote(n, Head(inbox[n]))
  PROVE  Step /\ Sends
<1> DEFINE m == Head(inbox[n])
<1>1. m \in Message /\ m.from \in Node /\ m.term \in Nat /\ 1 \in DOMAIN inbox[n] /\ m = inbox[n][1]
  BY HeadIsMessage DEF Message
<1> HIDE DEF m
<1> DEFINE newer == m.term > current_term[n]
           vote == IF newer THEN None ELSE voted_for[n]
           granted == /\ m.term >= current_term[n]
                      /\ LogIsUpToDate(n, m)
                      /\ ~AlreadyVoted(vote, m.from)
           term == IF newer THEN m.term ELSE current_term[n]
           r == [type |-> "vote_response", from |-> n, term |-> term, vote_granted |-> granted]
<1>2. /\ m.type = "request_vote"
      /\ current_term' = [current_term EXCEPT ![n] = term]
      /\ state' = [state EXCEPT ![n] = IF newer THEN "follower" ELSE @]
      /\ ballots' = IF granted THEN ballots \cup {<<term, n, m.from>>} ELSE ballots
      /\ Reply(n, m.from, r)
      /\ UNCHANGED <<elected, logVars, leaderVars, commitVars>>
  BY DEF HandleRequestVote, m
<1>3. /\ current_term \in [Node -> Nat] /\ state \in [Node -> {"follower", "candidate", "leader"}]
  BY DEF TypeOK
<1>4. Sends
  <2>1. \A p \in Node : SentTo(p, n, r)
    <3>1. r.type = "vote_response" /\ r.from = n /\ r.term = term OBVIOUS
    <3>2. term = current_term'[n] BY <1>2, <1>3
    <3> HIDE DEF r, term
    <3> QED BY <3>1, <3>2 DEF SentTo
  <2> HIDE DEF r
  <2> QED BY <1>1, <1>2, <2>1, ReplySends
<1>5. Silent BY <1>2 DEF Silent, leaderVars, commitVars
<1>6. CASE granted
  <2>1. term = m.term /\ LogIsUpToDate(n, m) /\ m.term >= current_term[n] BY <1>1, <1>3, <1>6
  <2>2. Grants(n, m) BY <1>2, <1>6, <2>1 DEF Grants
  <2> QED BY <1>1, <1>4, <1>5, <2>2 DEF Step
<1>7. CASE ~granted
  <2>1. ballots' = ballots BY <1>2, <1>7
  <2>2. CASE newer
    <3>1. /\ current_term' = [current_term EXCEPT ![n] = m.term]
          /\ state' = [state EXCEPT ![n] = "follower"]
      BY <1>2, <2>2
    <3>2. Moves BY <1>1, <1>2, <2>1, <2>2, <3>1, GoesOn
    <3> QED BY <1>4, <1>5, <3>2 DEF Step
  <2>3. CASE ~newer
    <3>1. current_term' = current_term /\ state' = state BY <1>2, <1>3, <2>3
    <3>2. Moves BY <1>2, <2>1, <3>1, StaysPut
    <3> QED BY <1>4, <1>5, <3>2 DEF Step
  <2> QED BY <2>2, <2>3
<1> QED BY <1>6, <1>7

(* _become_follower and messages that change nothing (raft.py:117-123). *)
LEMMA StepDownStep ==
  ASSUME TypeOK, NEW n \in Node, inbox[n] # <<>>, StepDown(n, Head(inbox[n])) \/ Ignore(n)
  PROVE  Step /\ Sends
<1> DEFINE m == Head(inbox[n])
<1>1. m \in Message /\ m.term \in Nat /\ 1 \in DOMAIN inbox[n] /\ m = inbox[n][1]
  BY HeadIsMessage DEF Message
<1>2. Handle(n) BY DEF StepDown, Ignore
<1>3. Sends
  <2>1. \A p \in Node : \A i \in DOMAIN inbox'[p] :
          \E j \in DOMAIN inbox[p] : inbox'[p][i] = inbox[p][j]
    BY <1>2, HandleType
  <2> QED BY <2>1, SilentSends
<1>4. CASE StepDown(n, m)
  <2>1. /\ m.term > current_term[n]
        /\ current_term' = [current_term EXCEPT ![n] = m.term]
        /\ state' = [state EXCEPT ![n] = "follower"]
        /\ UNCHANGED <<ballots, elected, logVars, leaderVars, commitVars>>
    BY <1>4 DEF StepDown
  <2>2. Moves BY <1>1, <2>1, GoesOn
  <2> QED BY <1>3, <2>1, <2>2 DEF Step, Silent, leaderVars, commitVars
<1>5. CASE Ignore(n)
  <2>1. UNCHANGED raftVars BY <1>5 DEF Ignore
  <2>2. UNCHANGED <<state, current_term, ballots, elected, logVars>>
    BY <2>1 DEF raftVars, electionVars
  <2>3. Moves BY <2>2, StaysPut
  <2> QED BY <1>3, <2>1, <2>3 DEF Step, Silent, raftVars, leaderVars, commitVars
<1> QED BY <1>4, <1>5

(* _handle_vote_response with a vote to count (raft.py:252-265). *)
LEMMA CountVoteStep ==
  ASSUME TypeOK, TypeOK', NEW n \in Node, inbox[n] # <<>>, state[n] = "candidate",
         CountVote(n, Head(inbox[n]))
  PROVE  Step /\ Sends
<1> DEFINE votes == votes_received[n] \cup {Head(inbox[n]).from}
           next == [p \in Node |-> IF p = n THEN next_index[n][p] ELSE Len(log[n]) + 1]
<1>1. UNCHANGED <<current_term, ballots, log, acks, commitVars>> BY DEF CountVote
<1>2. /\ log[n] \in Seq(Entry) /\ log'[n] = log[n] /\ next \in [Node -> Nat \ {0}]
      /\ state \in [Node -> {"follower", "candidate", "leader"}]
  <2>1. /\ log[n] \in Seq(Entry) /\ next_index[n] \in [Node -> Nat \ {0}]
        /\ state \in [Node -> {"follower", "candidate", "leader"}]
    BY DEF TypeOK
  <2>2. Len(log[n]) + 1 \in Nat \ {0} BY <2>1, LenProperties
  <2> QED BY <1>1, <2>1, <2>2
<1>3. CASE IsMajority(votes)
  <2>1. /\ state' = [state EXCEPT ![n] = "leader"]
        /\ elected' = elected \cup {<<current_term[n], n>>}
        /\ match_index' = [match_index EXCEPT ![n] = [p \in Node |-> IF p = n THEN @[p] ELSE 0]]
        /\ ledger' = [ledger EXCEPT ![current_term[n]] = log[n]]
        /\ HandleAndSend(n, Broadcast(n, next, log[n]))
    BY <1>3 DEF CountVote
  <2> HIDE DEF next, votes
  <2>2. Wins(n) BY <1>1, <2>1 DEF Wins, commitVars
  <2>3. state'[n] = "leader" /\ current_term'[n] = current_term[n] BY <1>1, <1>2, <2>1
  <2>4. HandleAndSend(n, Broadcast(n, next, log'[n])) BY <1>2, <2>1
  <2>5. Sends BY <1>2, <2>3, <2>4, BroadcastSends
  <2> QED BY <2>2, <2>5 DEF Step
<1>4. CASE ~IsMajority(votes)
  <2>1. Handle(n) /\ UNCHANGED <<state, elected, ledger, leaderVars>> BY <1>4 DEF CountVote
  <2>2. Sends BY <2>1, HandleType, SilentSends
  <2>3. Moves BY <1>1, <2>1, StaysPut DEF logVars
  <2> QED BY <1>1, <2>1, <2>2, <2>3 DEF Step, Silent, leaderVars, commitVars
<1> QED BY <1>3, <1>4

(* _handle_append_entries (raft.py:300-366). *)
LEMMA AppendEntriesStep ==
  ASSUME TypeOK, TypeOK', NEW n \in Node, inbox[n] # <<>>, HandleAppendEntries(n, Head(inbox[n]))
  PROVE  Step /\ Sends
<1> DEFINE m == Head(inbox[n])
<1>1. m \in Message /\ 1 \in DOMAIN inbox[n] /\ m = inbox[n][1] BY HeadIsMessage
<1> HIDE DEF m
<1> DEFINE current == m.term >= current_term[n]
           newer == m.term > current_term[n]
           success == /\ current
                      /\ \/ m.prev_log_index = 0
                         \/ /\ m.prev_log_index <= Len(log[n])
                            /\ log[n][m.prev_log_index].term = m.prev_log_term
           matched == m.prev_log_index + Len(m.entries)
           lg == IF success THEN Overwritten(log[n], m.prev_log_index, m.entries) ELSE log[n]
           upto == IF m.leader_commit < Len(lg) THEN m.leader_commit ELSE Len(lg)
           r == [type |-> "append_response", from |-> n, term |-> current_term'[n],
                 success |-> success, match_index |-> IF success THEN matched ELSE 0]
<1>2. /\ m.type = "append_entries"
      /\ current_term' = [current_term EXCEPT ![n] = IF newer THEN m.term ELSE @]
      /\ state' = [state EXCEPT ![n] = IF current THEN "follower" ELSE @]
      /\ log' = [log EXCEPT ![n] = lg]
      /\ acks' = acks \cup (IF success THEN Acknowledged(n, m.term, lg, matched) ELSE {})
      /\ IF success /\ m.leader_commit > commit_index[n]
         THEN /\ Apply(n, upto, lg)
              /\ tainted' = tainted \cup (IF upto > matched THEN {"unmatched tail"} ELSE {})
         ELSE UNCHANGED commitVars
      /\ Reply(n, m.from, r)
      /\ UNCHANGED <<ballots, elected, ledger, leaderVars>>
  BY DEF HandleAppendEntries, m
<1>3. /\ current_term \in [Node -> Nat] /\ state \in [Node -> {"follower", "candidate", "leader"}]
      /\ log \in [Node -> Seq(Entry)] /\ log'[n] \in Seq(Entry)
      /\ m.term \in Nat /\ m.from \in Node /\ m.leader_commit \in Nat
  BY <1>1, <1>2 DEF TypeOK, Message
<1>4. /\ log'[n] = lg /\ Len(lg) \in Nat /\ current_term'[n] = (IF newer THEN m.term ELSE current_term[n])
  <2>1. log'[n] = lg /\ current_term'[n] = (IF newer THEN m.term ELSE current_term[n])
    BY <1>2, <1>3
  <2> HIDE DEF lg
  <2> QED BY <1>3, <2>1, LenProperties
<1>5. CASE success
  <2>1. lg = Overwritten(log[n], m.prev_log_index, m.entries) /\ current BY <1>5
  <2>2. /\ current_term' = [current_term EXCEPT ![n] = m.term] /\ current_term'[n] = m.term
        /\ state' = [state EXCEPT ![n] = "follower"]
        /\ log' = [log EXCEPT ![n] = Overwritten(@, m.prev_log_index, m.entries)]
        /\ acks' = acks \cup Acknowledged(n, m.term, log'[n], matched)
    <3>1. (IF newer THEN m.term ELSE current_term[n]) = m.term BY <1>3, <2>1
    <3>2. acks' = acks \cup Acknowledged(n, m.term, lg, matched) BY <1>2, <1>5
    <3> HIDE DEF lg, newer, success
    <3> QED BY <1>2, <1>4, <2>1, <3>1, <3>2
  <2>3. \/ UNCHANGED <<commit_index, applied, tainted>>
        \/ \E u \in 0..Len(log'[n]) :
             /\ m.leader_commit > commit_index[n] /\ u <= m.leader_commit
             /\ Apply(n, u, log'[n])
             /\ tainted' = tainted \cup (IF u > matched THEN {"unmatched tail"} ELSE {})
    <3>1. CASE m.leader_commit > commit_index[n]
      <4>1. upto \in 0..Len(lg) /\ upto <= m.leader_commit BY <1>3, <1>4
      <4>2. /\ Apply(n, upto, lg)
            /\ tainted' = tainted \cup (IF upto > matched THEN {"unmatched tail"} ELSE {})
        BY <1>2, <1>5, <3>1
      <4> HIDE DEF upto, lg
      <4> QED BY <1>4, <3>1, <4>1, <4>2
    <3>2. CASE ~(m.leader_commit > commit_index[n]) BY <1>2, <3>2 DEF commitVars
    <3> QED BY <3>1, <3>2
  <2>4. /\ \/ m.prev_log_index = 0
           \/ m.prev_log_index <= Len(log[n]) /\ log[n][m.prev_log_index].term = m.prev_log_term
        /\ current
    BY <1>5
  <2> HIDE DEF lg, upto, success, r
  <2>5. UNCHANGED <<ballots, elected, ledger, match_index>> BY <1>2 DEF leaderVars
  <2>6. Stores(n, m) BY <1>2, <2>2, <2>3, <2>4, <2>5 DEF Stores, Matched
  <2>7. \A p \in Node : SentTo(p, n, r)
    <3>1. /\ r.from = n /\ r.term = current_term'[n] /\ r.type = "append_response"
          /\ r.match_index = Matched(m)
      BY <1>5 DEF r, Matched
    <3>2. \E i \in DOMAIN inbox[n] : /\ Stores(n, inbox[n][i]) /\ r.term = inbox[n][i].term
                                     /\ r.match_index = Matched(inbox[n][i])
      BY <1>1, <2>2, <2>6, <3>1
    <3> QED BY <3>1, <3>2 DEF SentTo
  <2>8. Sends BY <1>2, <1>3, <2>7, ReplySends
  <2> QED BY <1>1, <2>6, <2>8 DEF Step
<1>6. CASE ~success
  <2>1. /\ log' = log /\ acks' = acks /\ UNCHANGED commitVars BY <1>2, <1>3, <1>6
  <2>2. \A p \in Node : SentTo(p, n, r)
    <3>1. r.from = n /\ r.term = current_term'[n] /\ r.type = "append_response" /\ ~r.success
      BY <1>6
    <3> HIDE DEF r
    <3> QED BY <3>1 DEF SentTo
  <2> HIDE DEF r, lg, upto, success
  <2>3. Sends BY <1>2, <1>3, <2>2, ReplySends
  <2>4. Moves
    <3>1. CASE newer
      <4>1. /\ current_term' = [current_term EXCEPT ![n] = m.term]
            /\ state' = [state EXCEPT ![n] = "follower"]
        <5>1. current BY <1>3, <3>1
        <5> HIDE DEF current, newer
        <5> QED BY <1>2, <3>1, <5>1
      <4> QED BY <1>1, <1>2, <1>3, <2>1, <3>1, <4>1, GoesOn DEF logVars
    <3>2. CASE ~newer
      <4>1. /\ current_term' = current_term
            /\ \A p \in Node : state'[p] # "follower" => state'[p] = state[p]
        BY <1>2, <1>3, <3>2
      <4> QED BY <1>2, <2>1, <4>1, StaysPut DEF logVars
    <3> QED BY <3>1, <3>2
  <2> QED BY <1>2, <2>1, <2>3, <2>4 DEF Step, Silent, leaderVars, commitVars
<1> QED BY <1>5, <1>6

(* _handle_append_response (raft.py:368-397). *)
LEMMA AppendResponseStep ==
  ASSUME TypeOK, NEW n \in Node, inbox[n] # <<>>, HandleAppendResponse(n, Head(inbox[n]))
  PROVE  Step /\ Sends
<1> DEFINE m == Head(inbox[n])
<1>1. m \in Message /\ 1 \in DOMAIN inbox[n] /\ m = inbox[n][1] BY HeadIsMessage
<1>2. m.type = "append_response" BY DEF HandleAppendResponse
<1> HIDE DEF m
<1>3. CASE StepDown(n, m) \/ Ignore(n) BY <1>3, StepDownStep DEF m
<1>4. CASE ~(StepDown(n, m) \/ Ignore(n))
  <2>1. state[n] = "leader" /\ m.term <= current_term[n] /\ Handle(n)
    BY <1>4 DEF HandleAppendResponse, m
  <2>2. Sends BY <2>1, HandleType, SilentSends
  <2>3. CASE m.success
    <3> DEFINE match == [match_index[n] EXCEPT ![m.from] = m.match_index]
    <3>1. /\ match_index' = [match_index EXCEPT ![n] = match]
          /\ \/ \E i \in Committable(n, match) : Apply(n, i, log[n])
             \/ UNCHANGED <<commit_index, applied>>
          /\ tainted' = tainted \cup (IF /\ m.term < current_term[n]
                                          /\ m.match_index > match_index[n][m.from]
                                       THEN {"stale ack"} ELSE {})
          /\ UNCHANGED <<electionVars, logVars>>
      BY <1>4, <2>3 DEF HandleAppendResponse, m
    <3>2. match_index'[n] = match BY <3>1 DEF TypeOK
    <3>3. match_index' = [match_index EXCEPT ![n][m.from] = m.match_index] BY <3>1
    <3> HIDE DEF match
    <3>4. Counts(n, m) BY <1>2, <2>1, <2>3, <3>1, <3>2, <3>3 DEF Counts
    <3> QED BY <1>1, <2>2, <3>4 DEF Step
  <2>4. CASE ~m.success
    <3>1. UNCHANGED <<electionVars, logVars, match_index, commitVars>>
      BY <1>4, <2>4 DEF HandleAppendResponse, m
    <3>2. Moves BY <3>1, StaysPut DEF electionVars
    <3> QED BY <2>2, <3>1, <3>2 DEF Step, Silent, commitVars
  <2> QED BY <2>3, <2>4
<1> QED BY <1>3, <1>4

LEMMA SubmitStep ==
  ASSUME TypeOK, TypeOK', NEW n \in Node, NEW c \in Command, Submit(n, c)
  PROVE  Step /\ Sends
<1> DEFINE lg == Append(log[n], [term |-> current_term[n], command |-> c])
<1>1. /\ state[n] = "leader" /\ UNCHANGED <<electionVars, leaderVars, commit_index, applied, tainted>>
      /\ log' = [log EXCEPT ![n] = lg]
      /\ ledger' = [ledger EXCEPT ![current_term[n]] = lg]
      /\ acks' = acks \cup {<<current_term[n], n, Len(lg)>>}
      /\ Send(n, Broadcast(n, next_index[n], lg))
  BY DEF Submit
<1>2. Silent /\ Writes(n) BY <1>1 DEF Silent, Writes, leaderVars
<1>3. /\ next_index[n] \in [Node -> Nat \ {0}] /\ log'[n] \in Seq(Entry)
      /\ state'[n] = "leader" /\ current_term'[n] = current_term[n] /\ n \in DOMAIN log
  BY <1>1 DEF TypeOK, electionVars
<1> HIDE DEF lg
<1>4. Send(n, Broadcast(n, next_index[n], log'[n])) BY <1>1, <1>3
<1>5. Sends BY <1>3, <1>4, BroadcastSends
<1> QED BY <1>2, <1>5 DEF Step

LEMMA NextStep == TypeOK /\ [Next]_vars => Step /\ Sends
<1> SUFFICES ASSUME TypeOK, [Next]_vars PROVE Step /\ Sends OBVIOUS
<1>1. TypeOK' BY NextType
<1>2. ASSUME NEW n \in Node, Dispatch(n) PROVE Step /\ Sends
  <2> DEFINE m == Head(inbox[n])
  <2>1. inbox[n] # <<>> BY <1>2 DEF Dispatch
  <2>2. CASE HandleRequestVote(n, m) BY <2>1, <2>2, RequestVoteStep
  <2>3. CASE HandleVoteResponse(n, m)
    <3>1. StepDown(n, m) \/ Ignore(n) \/ (state[n] = "candidate" /\ CountVote(n, m))
      BY <2>3 DEF HandleVoteResponse
    <3> QED BY <1>1, <2>1, <3>1, StepDownStep, CountVoteStep
  <2>4. CASE HandleAppendEntries(n, m) BY <1>1, <2>1, <2>4, AppendEntriesStep
  <2>5. CASE HandleAppendResponse(n, m) BY <2>1, <2>5, AppendResponseStep
  <2> QED BY <1>2, <2>2, <2>3, <2>4, <2>5 DEF Dispatch
<1>3. ASSUME NEW n \in Node, LeaderTick(n) PROVE Step /\ Sends
  <2>1. UNCHANGED raftVars /\ state[n] = "leader" /\ Send(n, Broadcast(n, next_index[n], log[n]))
    BY <1>3 DEF LeaderTick
  <2>2. UNCHANGED <<state, current_term, ballots, elected, logVars, log>>
    BY <2>1 DEF raftVars, electionVars, logVars
  <2>3. Moves BY <2>2, StaysPut
  <2>4. next_index[n] \in [Node -> Nat \ {0}] /\ log'[n] \in Seq(Entry) BY <1>1 DEF TypeOK
  <2>5. Sends BY <2>1, <2>2, <2>4, BroadcastSends
  <2> QED BY <2>1, <2>3, <2>5 DEF Step, Silent, raftVars, leaderVars, commitVars
<1>4. ASSUME UNCHANGED <<inbox, electionVars, logVars, leaderVars, commit_index, applied, tainted>>
      PROVE  Step /\ Sends
  <2>1. Sends BY <1>4, SilentSends
  <2>2. Moves BY <1>4, StaysPut DEF electionVars
  <2> QED BY <1>4, <2>1, <2>2 DEF Step, Silent, leaderVars
<1>5. ASSUME NEW c \in Command, SubmitTimeout(c) PROVE Step /\ Sends
  BY <1>4, <1>5 DEF SubmitTimeout, busVars
<1>6. ASSUME UNCHANGED <<inbox, raftVars>> PROVE Step /\ Sends
  BY <1>4, <1>6 DEF raftVars, commitVars
<1>7. ASSUME NEW S \in SUBSET Node, Cut(S) PROVE Step /\ Sends
  BY <1>6, <1>7 DEF Cut, PartitionNodes
<1>8. CASE Heal BY <1>6, <1>8 DEF Heal, HealPartition
<1>9. CASE UNCHANGED vars BY <1>6, <1>9 DEF vars, busVars
<1> QED BY <1>1, <1>2, <1>3, <1>5, <1>7, <1>8, <1>9, ElectionTimeoutStep, SubmitStep DEF Next

(***************************************************************************)
(* Offices: who stands, who has won, and in which terms.                   *)
(***************************************************************************)

Won(t) == \E e \in elected : e[1] = t

VictoriesAreReached == \A e \in elected : e[1] > 0 /\ e[1] <= current_term[e[2]]
LeadersHaveWon == \A n \in Node : state[n] = "leader" => <<current_term[n], n>> \in elected
CandidatesHaveNot ==
  \A n \in Node : state[n] = "candidate" =>
    current_term[n] > 0 /\ <<current_term[n], n>> \notin elected
AppendsAreLeaders ==
  \A n \in Node : \A i \in DOMAIN inbox[n] : inbox[n][i].type = "append_entries" =>
    inbox[n][i].from # n /\ <<inbox[n][i].term, inbox[n][i].from>> \in elected

(* Nobody is sent or given a vote in a term its sender or candidate has not *)
(* reached, and no term is beyond the bound.                               *)
TermsAreBounded == \A n \in Node : current_term[n] <= MaxTerm
MessagesAreSent ==
  \A n \in Node : \A i \in DOMAIN inbox[n] : inbox[n][i].term <= current_term[inbox[n][i].from]
VotesFollow == \A b \in ballots : b[1] <= current_term[b[3]]

OfficeInv ==
  /\ VictoriesAreReached /\ LeadersHaveWon /\ CandidatesHaveNot /\ AppendsAreLeaders
  /\ TermsAreBounded /\ MessagesAreSent /\ VotesFollow

(* A node is elected out of a candidacy that has not been successful before. *)
OfficeStep ==
  /\ \A p \in Node :
       /\ current_term'[p] >= current_term[p]
       /\ state'[p] = "leader" =>
            /\ current_term'[p] = current_term[p]
            /\ \/ state[p] = "leader"
               \/ state[p] = "candidate" /\ <<current_term[p], p>> \in elected'
       /\ state'[p] = "candidate" =>
            \/ /\ current_term'[p] = current_term[p] + 1
               /\ ballots' = ballots \cup {<<current_term'[p], p, p>>}
            \/ state[p] = "candidate" /\ current_term'[p] = current_term[p] /\ log'[p] = log[p]
  /\ \/ elected' = elected
     \/ \E n \in Node :
          /\ state[n] = "candidate" /\ state'[n] = "leader"
          /\ elected' = elected \cup {<<current_term[n], n>>}

LEMMA MessageFacts ==
  ASSUME TypeOK, NEW n \in Node, NEW i \in DOMAIN inbox[n]
  PROVE  /\ inbox[n][i] \in Message
         /\ inbox[n][i].from \in Node /\ inbox[n][i].term \in Nat
<1>1. inbox[n] \in Seq(Message) BY DEF TypeOK
<1>2. inbox[n][i] \in Message BY <1>1, ElementOfSeq, LenProperties
<1> QED BY <1>2 DEF Message

LEMMA StepOffices == TypeOK /\ Step => OfficeStep
<1> SUFFICES ASSUME TypeOK, Step PROVE OfficeStep OBVIOUS
<1>1. /\ current_term \in [Node -> Nat] /\ state \in [Node -> {"follower", "candidate", "leader"}]
      /\ log \in [Node -> Seq(Entry)]
  BY DEF TypeOK
<1>2. CASE Moves
  <2>1. log' = log /\ elected' = elected BY <1>2 DEF Moves, logVars
  <2> QED BY <1>1, <1>2, <2>1 DEF OfficeStep, Moves
<1>3. ASSUME NEW n \in Node, Stands(n) PROVE OfficeStep
  <2>1. /\ current_term' = [current_term EXCEPT ![n] = current_term[n] + 1]
        /\ state' = [state EXCEPT ![n] = "candidate"] /\ elected' = elected /\ log' = log
        /\ ballots' = ballots \cup {<<current_term[n] + 1, n, n>>}
    BY <1>3 DEF Stands, logVars
  <2> QED BY <1>1, <2>1 DEF OfficeStep
<1>4. ASSUME NEW n \in Node, Writes(n) PROVE OfficeStep
  <2>1. /\ UNCHANGED <<state, current_term, elected>> /\ state[n] = "leader"
        /\ \A p \in Node \ {n} : log'[p] = log[p]
    BY <1>1, <1>4 DEF Writes, electionVars
  <2> QED BY <1>1, <2>1 DEF OfficeStep
<1>5. ASSUME NEW n \in Node, NEW i \in DOMAIN inbox[n], Grants(n, inbox[n][i]) PROVE OfficeStep
  <2> DEFINE m == inbox[n][i]
  <2>1. /\ m.term >= current_term[n]
        /\ current_term' = [current_term EXCEPT ![n] = m.term]
        /\ state' = [state EXCEPT ![n] = IF m.term > current_term[n] THEN "follower" ELSE @]
        /\ UNCHANGED <<elected, log>>
    BY <1>5 DEF Grants, logVars
  <2>2. m.term \in Nat BY MessageFacts
  <2> HIDE DEF m
  <2> QED BY <1>1, <2>1, <2>2 DEF OfficeStep
<1>6. ASSUME NEW n \in Node, Wins(n) PROVE OfficeStep
  <2>1. /\ state[n] = "candidate" /\ state' = [state EXCEPT ![n] = "leader"]
        /\ elected' = elected \cup {<<current_term[n], n>>}
        /\ UNCHANGED <<current_term, log>>
    BY <1>6 DEF Wins
  <2>2. /\ \A p \in Node \ {n} : state'[p] = state[p]
        /\ state'[n] = "leader" /\ <<current_term[n], n>> \in elected'
    BY <1>1, <2>1
  <2>3. ASSUME NEW p \in Node PROVE current_term'[p] >= current_term[p] BY <1>1, <2>1
  <2> QED BY <2>1, <2>2, <2>3 DEF OfficeStep
<1>7. ASSUME NEW n \in Node, NEW i \in DOMAIN inbox[n], Stores(n, inbox[n][i]) PROVE OfficeStep
  <2> DEFINE m == inbox[n][i]
  <2>1. /\ m.term >= current_term[n]
        /\ current_term' = [current_term EXCEPT ![n] = m.term]
        /\ state' = [state EXCEPT ![n] = "follower"]
        /\ elected' = elected /\ \A p \in Node \ {n} : log'[p] = log[p]
    BY <1>1, <1>7 DEF Stores
  <2>2. m.term \in Nat BY MessageFacts
  <2> HIDE DEF m
  <2> QED BY <1>1, <2>1, <2>2 DEF OfficeStep
<1>8. ASSUME NEW n \in Node, NEW i \in DOMAIN inbox[n], Counts(n, inbox[n][i]) PROVE OfficeStep
  <2>1. UNCHANGED <<state, current_term, elected, log>>
    BY <1>8 DEF Counts, electionVars, logVars
  <2> QED BY <1>1, <2>1 DEF OfficeStep
<1> QED BY <1>2, <1>3, <1>4, <1>5, <1>6, <1>7, <1>8 DEF Step

(* The terms of messages, votes and nodes.                                  *)
LEMMA TermsNext ==
  ASSUME ElectionInv, OfficeInv, TypeOK', Step, Sends, OfficeStep
  PROVE  (TermsAreBounded /\ MessagesAreSent /\ VotesFollow)'
<1>0. TypeOK BY DEF ElectionInv
<1>1. TypeOK /\ current_term \in [Node -> Nat] /\ current_term' \in [Node -> Nat]
      /\ ballots \subseteq Nat \X Node \X Node /\ MaxTerm \in Nat
      /\ \A p \in Node : current_term'[p] >= current_term[p]
  <2>1. current_term \in [Node -> Nat] /\ current_term' \in [Node -> Nat]
        /\ ballots \subseteq Nat \X Node \X Node
    BY <1>0 DEF TypeOK
  <2> QED BY <1>0, <2>1, RaftAssumption DEF OfficeStep
<1>2. \A n \in Node : \A i \in DOMAIN inbox[n] :
        inbox[n][i].term <= MaxTerm /\ inbox[n][i].term \in Nat
  <2> SUFFICES ASSUME NEW n \in Node, NEW i \in DOMAIN inbox[n]
               PROVE  inbox[n][i].term <= MaxTerm /\ inbox[n][i].term \in Nat
    OBVIOUS
  <2>1. inbox[n][i].from \in Node /\ inbox[n][i].term \in Nat BY <1>1, MessageFacts
  <2>2. inbox[n][i].term <= current_term[inbox[n][i].from] BY DEF OfficeInv, MessagesAreSent
  <2>3. current_term[inbox[n][i].from] <= MaxTerm /\ current_term[inbox[n][i].from] \in Nat
    BY <1>1, <2>1 DEF OfficeInv, TermsAreBounded
  <2> QED BY <1>1, <2>1, <2>2, <2>3
<1>3. TermsAreBounded'
  <2> SUFFICES ASSUME NEW p \in Node PROVE current_term'[p] <= MaxTerm BY DEF TermsAreBounded
  <2>1. current_term[p] <= MaxTerm BY DEF OfficeInv, TermsAreBounded
  <2>2. CASE current_term'[p] = current_term[p] BY <2>1, <2>2
  <2>3. CASE \E i \in DOMAIN inbox[p] : current_term'[p] = inbox[p][i].term BY <1>2, <2>3
  <2>4. CASE Stands(p) BY <1>1, <2>4 DEF Stands
  <2>5. ASSUME Moves PROVE current_term'[p] <= MaxTerm BY <2>2, <2>3, <2>5 DEF Moves
  <2>6. ASSUME NEW n \in Node, Stands(n) PROVE current_term'[p] <= MaxTerm
    BY <1>1, <2>1, <2>4, <2>6 DEF Stands
  <2>7. ASSUME NEW n \in Node, NEW i \in DOMAIN inbox[n],
               Grants(n, inbox[n][i]) \/ Stores(n, inbox[n][i])
        PROVE  current_term'[p] <= MaxTerm
    <3>1. current_term' = [current_term EXCEPT ![n] = inbox[n][i].term]
      BY <2>7 DEF Grants, Stores
    <3> QED BY <1>1, <1>2, <2>1, <3>1
  <2>8. ASSUME NEW n \in Node, Writes(n) \/ Wins(n) PROVE current_term'[p] <= MaxTerm
    BY <2>2, <2>8 DEF Writes, Wins, electionVars
  <2>9. ASSUME NEW n \in Node, NEW i \in DOMAIN inbox[n], Counts(n, inbox[n][i])
        PROVE  current_term'[p] <= MaxTerm
    BY <2>2, <2>9 DEF Counts, electionVars
  <2> QED BY <2>5, <2>6, <2>7, <2>8, <2>9 DEF Step
<1>4. MessagesAreSent'
  <2> SUFFICES ASSUME NEW p \in Node, NEW i \in DOMAIN inbox'[p]
               PROVE  inbox'[p][i].term <= current_term'[inbox'[p][i].from]
    BY DEF MessagesAreSent
  <2>1. CASE \E j \in DOMAIN inbox[p] : inbox'[p][i] = inbox[p][j]
    <3>1. PICK j \in DOMAIN inbox[p] : inbox'[p][i] = inbox[p][j] BY <2>1
    <3>2. inbox[p][j].from \in Node /\ inbox[p][j].term \in Nat BY <1>1, MessageFacts
    <3>3. inbox[p][j].term <= current_term[inbox[p][j].from] BY DEF OfficeInv, MessagesAreSent
    <3>4. /\ current_term'[inbox[p][j].from] >= current_term[inbox[p][j].from]
          /\ current_term'[inbox[p][j].from] \in Nat /\ current_term[inbox[p][j].from] \in Nat
      BY <1>1, <3>2
    <3> QED BY <3>1, <3>2, <3>3, <3>4
  <2>2. CASE \E n \in Node : SentTo(p, n, inbox'[p][i])
    <3>1. PICK n \in Node : inbox'[p][i].from = n /\ inbox'[p][i].term = current_term'[n]
      BY <2>2 DEF SentTo
    <3>2. current_term'[n] \in Nat BY <1>1
    <3> QED BY <3>1, <3>2
  <2> QED BY <2>1, <2>2 DEF Sends
<1>5. VotesFollow'
  <2> SUFFICES ASSUME NEW b \in ballots' PROVE b[1] <= current_term'[b[3]] BY DEF VotesFollow
  <2>1. CASE b \in ballots
    <3>1. b[1] \in Nat /\ b[3] \in Node /\ b[1] <= current_term[b[3]]
      BY <1>1, <2>1 DEF OfficeInv, VotesFollow
    <3>2. /\ current_term'[b[3]] >= current_term[b[3]]
          /\ current_term'[b[3]] \in Nat /\ current_term[b[3]] \in Nat
      BY <1>1, <3>1
    <3> QED BY <3>1, <3>2
  <2>2. ASSUME NEW n \in Node, Stands(n), b \notin ballots PROVE b[1] <= current_term'[b[3]]
    <3>1. b = <<current_term[n] + 1, n, n>> /\ current_term'[n] = current_term[n] + 1
      BY <1>1, <2>2 DEF Stands
    <3> QED BY <1>1, <3>1
  <2>3. ASSUME NEW n \in Node, NEW i \in DOMAIN inbox[n], Grants(n, inbox[n][i]), b \notin ballots
        PROVE  b[1] <= current_term'[b[3]]
    <3> DEFINE m == inbox[n][i]
    <3>1. b = <<m.term, n, m.from>> BY <2>3 DEF Grants
    <3>2. m.term \in Nat /\ m.from \in Node /\ m.term <= current_term[m.from]
      BY <1>1, MessageFacts DEF OfficeInv, MessagesAreSent
    <3> HIDE DEF m
    <3>3. /\ current_term'[m.from] >= current_term[m.from]
          /\ current_term'[m.from] \in Nat /\ current_term[m.from] \in Nat
      BY <1>1, <3>2
    <3> QED BY <3>1, <3>2, <3>3
  <2>4. CASE Moves BY <2>1, <2>4 DEF Moves
  <2>5. ASSUME NEW n \in Node, Writes(n) \/ Wins(n) PROVE b[1] <= current_term'[b[3]]
    BY <2>1, <2>5 DEF Writes, Wins, electionVars
  <2>6. ASSUME NEW n \in Node, NEW i \in DOMAIN inbox[n],
               Stores(n, inbox[n][i]) \/ Counts(n, inbox[n][i])
        PROVE  b[1] <= current_term'[b[3]]
    <3>1. ballots' = ballots BY <2>6 DEF Stores, Counts, electionVars
    <3> QED BY <2>1, <3>1
  <2> QED BY <2>1, <2>2, <2>3, <2>4, <2>5, <2>6 DEF Step
<1> QED BY <1>3, <1>4, <1>5

LEMMA OfficeInvNext ==
  ASSUME ElectionInv, OfficeInv, TypeOK', Step, Sends, OfficeStep
  PROVE  OfficeInv'
<1>1. TypeOK /\ current_term \in [Node -> Nat] /\ elected \subseteq Nat \X Node
      /\ current_term' \in [Node -> Nat]
  BY DEF ElectionInv, TypeOK
<1>2. elected \subseteq elected' BY DEF OfficeStep
<1>3. \A p \in Node :
        /\ current_term'[p] >= current_term[p]
        /\ state'[p] = "leader" =>
             /\ current_term'[p] = current_term[p]
             /\ \/ state[p] = "leader"
                \/ state[p] = "candidate" /\ <<current_term[p], p>> \in elected'
        /\ state'[p] = "candidate" =>
             \/ current_term'[p] = current_term[p] + 1
             \/ state[p] = "candidate" /\ current_term'[p] = current_term[p]
  BY DEF OfficeStep
<1>4. LeadersHaveWon' BY <1>2, <1>3 DEF OfficeInv, LeadersHaveWon
<1>5. VictoriesAreReached'
  <2> SUFFICES ASSUME NEW e \in elected' PROVE e[1] > 0 /\ e[1] <= current_term'[e[2]]
    BY DEF VictoriesAreReached
  <2>1. CASE e \in elected
    <3>1. e[1] \in Nat /\ e[2] \in Node /\ e[1] > 0 /\ e[1] <= current_term[e[2]]
      BY <1>1, <2>1 DEF OfficeInv, VictoriesAreReached
    <3>2. /\ current_term[e[2]] \in Nat /\ current_term'[e[2]] \in Nat
          /\ current_term'[e[2]] >= current_term[e[2]]
      BY <1>1, <1>3, <3>1
    <3> QED BY <3>1, <3>2
  <2>2. CASE e \notin elected
    <3>1. PICK n \in Node : state[n] = "candidate" /\ e = <<current_term[n], n>>
      BY <2>2 DEF OfficeStep
    <3>2. current_term[n] > 0 BY <3>1 DEF OfficeInv, CandidatesHaveNot
    <3> QED BY <1>1, <1>3, <3>1, <3>2
  <2> QED BY <2>1, <2>2
<1>6. CandidatesHaveNot'
  <2> SUFFICES ASSUME NEW p \in Node, state'[p] = "candidate"
               PROVE  current_term'[p] > 0 /\ <<current_term'[p], p>> \notin elected'
    BY DEF CandidatesHaveNot
  <2>1. \A e \in elected' : e \in elected \/ e[2] # p
    BY DEF OfficeStep
  <2>2. CASE current_term'[p] = current_term[p] + 1
    <3>1. \A e \in elected : e[2] = p => e[1] <= current_term[p] /\ e[1] \in Nat
      BY <1>1 DEF OfficeInv, VictoriesAreReached
    <3> QED BY <1>1, <2>1, <2>2, <3>1
  <2>3. CASE state[p] = "candidate" /\ current_term'[p] = current_term[p]
    BY <2>1, <2>3 DEF OfficeInv, CandidatesHaveNot
  <2> QED BY <1>3, <2>2, <2>3
<1>7. AppendsAreLeaders'
  <2> SUFFICES ASSUME NEW p \in Node, NEW i \in DOMAIN inbox'[p],
                      inbox'[p][i].type = "append_entries"
               PROVE  inbox'[p][i].from # p
                      /\ <<inbox'[p][i].term, inbox'[p][i].from>> \in elected'
    BY DEF AppendsAreLeaders
  <2>1. CASE \E j \in DOMAIN inbox[p] : inbox'[p][i] = inbox[p][j]
    BY <1>2, <2>1 DEF OfficeInv, AppendsAreLeaders
  <2>2. CASE \E n \in Node : SentTo(p, n, inbox'[p][i])
    <3>1. PICK n \in Node : /\ inbox'[p][i].from = n /\ inbox'[p][i].term = current_term'[n]
                            /\ p # n /\ state'[n] = "leader"
      BY <2>2 DEF SentTo
    <3> QED BY <1>4, <3>1 DEF LeadersHaveWon
  <2> QED BY <2>1, <2>2 DEF Sends
<1>8. (TermsAreBounded /\ MessagesAreSent /\ VotesFollow)' BY TermsNext
<1> QED BY <1>4, <1>5, <1>6, <1>7, <1>8 DEF OfficeInv

LEMMA OfficeInvInit == Init => OfficeInv
<1> SUFFICES ASSUME Init PROVE OfficeInv OBVIOUS
<1>1. /\ elected = {} /\ ballots = {} /\ state = [n \in Node |-> "follower"]
      /\ current_term = [n \in Node |-> 0] /\ \A n \in Node : inbox[n] = <<>>
  BY DEF Init, BusInit
<1>2. AppendsAreLeaders /\ MessagesAreSent BY <1>1 DEF AppendsAreLeaders, MessagesAreSent
<1>3. TermsAreBounded BY <1>1, RaftAssumption DEF TermsAreBounded
<1> QED BY <1>1, <1>2, <1>3
     DEF OfficeInv, VictoriesAreReached, LeadersHaveWon, CandidatesHaveNot, VotesFollow

(***************************************************************************)
(* The ledger.  Up to an entry of term t, every log and every ledger is     *)
(* what the ledger of t is: a log is rooted in the ledger.                  *)
(***************************************************************************)

Ledgers == [1..MaxTerm -> Seq(Entry)]

Rooted(lg, L) ==
  \A i \in 1..Len(lg) :
    /\ lg[i].term \in 1..MaxTerm
    /\ i <= Len(L[lg[i].term])
    /\ \A j \in 1..i : lg[j] = L[lg[i].term][j]

Grown(L, K) ==
  \A t \in 1..MaxTerm : Len(L[t]) <= Len(K[t]) /\ \A i \in 1..Len(L[t]) : K[t][i] = L[t][i]

(* A message that carries a piece of the log of its term's leader, and one  *)
(* that carries nothing because next_index points past that log: no log     *)
(* holds an entry of term 0, so nobody takes the second.                    *)
Excerpt(m, lg) ==
  /\ Matched(m) <= Len(lg)
  /\ m.prev_log_term = TermAt(lg, m.prev_log_index)
  /\ \A k \in 1..Len(m.entries) : m.entries[k] = lg[m.prev_log_index + k]
Nothing(m) == m.prev_log_index > 0 /\ m.prev_log_term = 0

(* Two rooted logs with an entry of one term at one position agree up to it. *)
LEMMA RootedAgree ==
  ASSUME NEW L, NEW lg, NEW lh, Rooted(lg, L), Rooted(lh, L),
         NEW i \in 1..Len(lg), i \in 1..Len(lh), lg[i].term = lh[i].term
  PROVE  \A j \in 1..i : lg[j] = lh[j]
BY DEF Rooted

LEMMA RootedGrows ==
  ASSUME NEW L \in Ledgers, NEW K \in Ledgers, Grown(L, K), NEW lg \in Seq(Entry), Rooted(lg, L)
  PROVE  Rooted(lg, K)
<1> SUFFICES ASSUME NEW i \in 1..Len(lg)
             PROVE  /\ lg[i].term \in 1..MaxTerm /\ i <= Len(K[lg[i].term])
                    /\ \A j \in 1..i : lg[j] = K[lg[i].term][j]
  BY DEF Rooted
<1>1. PICK t \in 1..MaxTerm : t = lg[i].term /\ i <= Len(L[t]) /\ \A j \in 1..i : lg[j] = L[t][j]
  BY DEF Rooted
<1>2. L[t] \in Seq(Entry) /\ K[t] \in Seq(Entry) BY DEF Ledgers
<1>3. Len(L[t]) \in Nat /\ Len(K[t]) \in Nat /\ Len(lg) \in Nat BY <1>2, LenProperties
<1>4. Len(L[t]) <= Len(K[t]) /\ \A j \in 1..Len(L[t]) : K[t][j] = L[t][j] BY DEF Grown
<1> QED BY <1>1, <1>3, <1>4

(* A log that is the beginning of a rooted one.                             *)
LEMMA BeginningRooted ==
  ASSUME NEW L, NEW lg \in Seq(Entry), NEW lh \in Seq(Entry), Rooted(lh, L),
         Len(lg) <= Len(lh), \A i \in 1..Len(lg) : lg[i] = lh[i]
  PROVE  Rooted(lg, L)
<1>1. Len(lg) \in Nat /\ Len(lh) \in Nat BY LenProperties
<1> QED BY <1>1 DEF Rooted

LEMMA ExcerptGrows ==
  ASSUME NEW lg \in Seq(Entry), NEW lh \in Seq(Entry), NEW m \in Message,
         m.type = "append_entries", Excerpt(m, lg),
         Len(lg) <= Len(lh), \A i \in 1..Len(lg) : lh[i] = lg[i]
  PROVE  Excerpt(m, lh)
<1>1. m.prev_log_index \in Nat /\ m.entries \in Seq(Entry) BY DEF Message
<1>2. Len(m.entries) \in Nat /\ Len(lg) \in Nat /\ Len(lh) \in Nat BY <1>1, LenProperties
<1> DEFINE p == m.prev_log_index
           l == Len(m.entries)
<1>3. p \in Nat /\ l \in Nat /\ p + l <= Len(lg) BY <1>1, <1>2 DEF Excerpt, Matched
<1>4. ASSUME NEW k \in 1..l PROVE m.entries[k] = lh[p + k]
  <2>1. p + k \in 1..Len(lg) BY <1>2, <1>3
  <2>2. m.entries[k] = lg[p + k] BY DEF Excerpt
  <2> QED BY <2>1, <2>2
<1>5. m.prev_log_term = TermAt(lh, p) BY <1>2, <1>3 DEF Excerpt, TermAt
<1>6. p + l <= Len(lh) BY <1>2, <1>3
<1> QED BY <1>4, <1>5, <1>6 DEF Excerpt, Matched

(* What a leader sends (_send_append_entries) is an excerpt or nothing.     *)
LEMMA AppendEntriesExcerpt ==
  ASSUME TypeOK, NEW n \in Node, NEW next \in Nat \ {0}, NEW lg \in Seq(Entry)
  PROVE  \/ Excerpt(AppendEntries(n, next, lg), lg)
         \/ Nothing(AppendEntries(n, next, lg))
<1> DEFINE m == AppendEntries(n, next, lg)
           last == IF next + MaxBatch - 1 < Len(lg) THEN next + MaxBatch - 1 ELSE Len(lg)
<1>1. Len(lg) \in Nat /\ MaxBatch \in Nat \ {0} BY LenProperties, RaftAssumption
<1>2. /\ m.prev_log_index = next - 1 /\ m.prev_log_term = TermAt(lg, next - 1)
      /\ m.entries = SubSeq(lg, next, last)
  BY DEF AppendEntries
<1>3. last \in Nat /\ last <= Len(lg) BY <1>1
<1>4. CASE next - 1 > Len(lg)
  <2>1. m.prev_log_term = 0 BY <1>1, <1>2, <1>4 DEF TermAt
  <2> QED BY <1>1, <1>2, <1>4, <2>1 DEF Nothing
<1>5. CASE next - 1 <= Len(lg)
  <2> HIDE DEF m, last
  <2>1. \A k \in next..last : lg[k] \in Entry BY <1>1, <1>3, ElementOfSeq
  <2>2. /\ Len(SubSeq(lg, next, last)) = IF next <= last THEN last - next + 1 ELSE 0
        /\ \A k \in 1..Len(SubSeq(lg, next, last)) : SubSeq(lg, next, last)[k] = lg[next + k - 1]
    <3>1. \A k \in next..last : k \in 1..Len(lg) BY <1>1, <1>3
    <3> QED BY <1>1, <1>3, <3>1, SubSeqProperties
  <2>3. \A k \in 1..Len(m.entries) : m.entries[k] = lg[m.prev_log_index + k]
    <3>1. \A k \in 1..Len(m.entries) : (next - 1) + k = next + k - 1 BY <1>1
    <3> QED BY <1>2, <2>2, <3>1
  <2>4. m.prev_log_index + Len(m.entries) <= Len(lg) BY <1>1, <1>2, <1>3, <1>5, <2>2
  <2>5. Excerpt(m, lg) BY <1>2, <2>3, <2>4 DEF Excerpt, Matched
  <2> QED BY <2>5 DEF m
<1> QED BY <1>1, <1>4, <1>5

(* Entries fit a log that holds the one before them.                        *)
Fits(lg, m) ==
  \/ m.prev_log_index = 0
  \/ m.prev_log_index <= Len(lg) /\ lg[m.prev_log_index].term = m.prev_log_term

(* ng, which was lg, holds what lh holds up to k, and has lost nothing of it. *)
Follows(ng, lg, k, lh) ==
  /\ ng \in Seq(Entry) /\ k <= Len(ng) /\ \A j \in 1..k : ng[j] = lh[j]
  /\ \/ ng = lg
     \/ /\ Len(ng) = k
        /\ \A i \in 1..Len(lg) : i <= Len(lh) /\ lg[i].term = lh[i].term => i <= k

(* A follower that takes an excerpt of the leader's log then holds what the *)
(* leader holds up to where the message ends.  It held more of that log     *)
(* before only if it now holds all it held (_handle_append_entries).        *)
LEMMA OverwrittenFollows ==
  ASSUME NEW L \in Ledgers, NEW lg \in Seq(Entry), Rooted(lg, L),
         NEW t \in 1..MaxTerm, Rooted(L[t], L),
         NEW m \in Message, m.type = "append_entries", Fits(lg, m), Excerpt(m, L[t])
  PROVE  Follows(Overwritten(lg, m.prev_log_index, m.entries), lg, Matched(m), L[t])
         /\ Rooted(Overwritten(lg, m.prev_log_index, m.entries), L)
<1> DEFINE prev == m.prev_log_index
           entries == m.entries
           k == Matched(m)
           ng == Overwritten(lg, prev, entries)
<1>m. m.prev_log_index \in Nat /\ m.entries \in Seq(Entry) BY DEF Message
<1>a. prev \in Nat /\ entries \in Seq(Entry) /\ k = prev + Len(entries) BY <1>m DEF Matched
<1>b. Len(entries) \in Nat /\ Len(L[t]) \in Nat /\ k \in Nat BY <1>a, LenProperties DEF Ledgers
<1>c. k <= Len(L[t]) /\ \A j \in 1..Len(entries) : entries[j] = L[t][prev + j] BY DEF Excerpt
<1>d. prev = 0 \/ (prev <= Len(lg) /\ lg[prev].term = L[t][prev].term)
  <2> SUFFICES ASSUME prev # 0 PROVE prev <= Len(lg) /\ lg[prev].term = L[t][prev].term
    OBVIOUS
  <2>1. prev \in 1..Len(L[t]) BY <1>a, <1>b, <1>c
  <2>2. m.prev_log_term = L[t][prev].term BY <2>1 DEF Excerpt, TermAt
  <2> QED BY <2>2 DEF Fits
<1>e. ng = Overwritten(lg, prev, entries) OBVIOUS
<1> SUFFICES /\ ng \in Seq(Entry) /\ k <= Len(ng) /\ \A j \in 1..k : ng[j] = L[t][j]
             /\ \/ ng = lg
                \/ /\ Len(ng) = k
                   /\ \A i \in 1..Len(lg) : i <= Len(L[t]) /\ lg[i].term = L[t][i].term => i <= k
             /\ Rooted(ng, L)
  BY DEF Follows
<1> HIDE DEF ng, k, prev, entries
<1> prev \in Nat /\ entries \in Seq(Entry) /\ k \in Nat /\ k = prev + Len(entries)
  BY <1>a, <1>b
<1> prev = 0 \/ (prev <= Len(lg) /\ lg[prev].term = L[t][prev].term)
  BY <1>d
<1> ng = Overwritten(lg, prev, entries) /\ k <= Len(L[t]) BY <1>c, <1>e
<1> DEFINE conflicts == {i \in prev + 1 .. k : i <= Len(lg) /\ lg[i].term # entries[i - prev].term}
           kept(i) == i <= Len(lg) /\ \A j \in conflicts : i < j
           len == IF conflicts = {} /\ k < Len(lg) THEN Len(lg) ELSE k
<1>1. /\ Len(lg) \in Nat /\ Len(entries) \in Nat /\ L[t] \in Seq(Entry) /\ Len(L[t]) \in Nat
      /\ prev \in Nat /\ k \in Nat /\ k = prev + Len(entries) /\ k <= Len(L[t])
  BY <1>a, <1>b, <1>c, LenProperties DEF Ledgers
<1>2. ng = [i \in 1..len |-> IF kept(i) THEN lg[i] ELSE entries[i - prev]]
  BY <1>1, <1>e DEF Overwritten
<1>3. prev <= Len(lg) BY <1>1, <1>d
<1>4. ng \in Seq(Entry) BY <1>3, <1>a, <1>e, OverwrittenType
<1>5. \A c \in conflicts : c \in Nat /\ c > prev /\ c <= k /\ c <= Len(lg)
  BY <1>1
<1>6. \A j \in prev + 1 .. k : j - prev \in 1..Len(entries) /\ entries[j - prev] = L[t][j]
  <2> SUFFICES ASSUME NEW j \in prev + 1 .. k
               PROVE  j - prev \in 1..Len(entries) /\ entries[j - prev] = L[t][j]
    OBVIOUS
  <2>1. j - prev \in 1..Len(entries) /\ prev + (j - prev) = j BY <1>1
  <2> QED BY <1>c, <2>1
<1>7. \A j \in 1..prev : lg[j] = L[t][j]
  <2>1. CASE prev = 0 BY <2>1
  <2>2. CASE prev # 0
    <3>1. prev \in 1..Len(lg) /\ prev \in 1..Len(L[t]) /\ lg[prev].term = L[t][prev].term
      BY <1>1, <1>3, <1>d, <2>2
    <3> QED BY <3>1, RootedAgree
  <2> QED BY <2>1, <2>2
<1>8. \A c \in conflicts : lg[c].term # L[t][c].term BY <1>6
<1>9. len \in Nat /\ k <= len BY <1>1
<1> HIDE DEF kept, len, conflicts
<1>10. Len(ng) = len /\ \A j \in 1..len : ng[j] = IF kept(j) THEN lg[j] ELSE entries[j - prev]
  BY <1>2, <1>4, <1>9, LenProperties
<1>11. ASSUME NEW j \in 1..k PROVE ng[j] = L[t][j]
  <2>1. j \in 1..len BY <1>9
  <2>2. CASE kept(j)
    <3>1. j <= Len(lg) /\ j \notin conflicts BY <2>2 DEF kept
    <3>2. CASE j <= prev
      <4>1. j \in 1..prev BY <3>2
      <4> QED BY <1>7, <1>10, <2>1, <2>2, <4>1
    <3>3. CASE j > prev
      <4>1. j \in prev + 1 .. k BY <3>3
      <4>2. lg[j].term = entries[j - prev].term BY <3>1, <4>1 DEF conflicts
      <4>3. lg[j].term = L[t][j].term BY <1>6, <4>1, <4>2
      <4>4. j \in 1..Len(lg) /\ j \in 1..Len(L[t]) BY <1>1, <3>1
      <4>5. lg[j] = L[t][j] BY <4>3, <4>4, RootedAgree
      <4> QED BY <1>10, <2>1, <2>2, <4>5
    <3> QED BY <3>2, <3>3
  <2>3. CASE ~kept(j)
    <3>1. j > prev BY <1>1, <1>3, <1>5, <2>3 DEF kept
    <3>2. j \in prev + 1 .. k BY <3>1
    <3> QED BY <1>6, <1>10, <2>1, <2>3, <3>2
  <2> QED BY <2>2, <2>3
<1>12. CASE conflicts = {} /\ k < Len(lg)
  <2>0. len = Len(lg) BY <1>12 DEF len
  <2>1. len = Len(lg) /\ \A j \in 1..len : kept(j) BY <1>1, <1>12, <2>0 DEF kept
  <2>2. \A j \in 1..Len(lg) : ng[j] = lg[j] BY <1>10, <2>1
  <2>3. ng = lg BY <1>4, <1>10, <2>1, <2>2, SeqEqual
  <2> QED BY <1>4, <1>9, <1>10, <1>11, <2>3
<1>13. CASE ~(conflicts = {} /\ k < Len(lg))
  <2>1. Len(ng) = k BY <1>10, <1>13 DEF len
  <2>2. ASSUME NEW i \in 1..Len(lg), i <= Len(L[t]), lg[i].term = L[t][i].term, i > k
        PROVE  FALSE
    <3>1. PICK c \in conflicts : TRUE BY <1>1, <1>13, <2>2
    <3>2. c \in 1..i BY <1>5, <2>2, <3>1
    <3>3. i \in 1..Len(L[t]) BY <1>1, <2>2
    <3>4. \A j \in 1..i : lg[j] = L[t][j] BY <2>2, <3>3 DEF Rooted
    <3> QED BY <1>8, <3>1, <3>2, <3>4
  <2>3. Rooted(ng, L) BY <1>1, <1>4, <1>11, <2>1, BeginningRooted
  <2>4. \A i \in 1..Len(lg) : i <= Len(L[t]) /\ lg[i].term = L[t][i].term => i <= k
    BY <1>1, <2>2
  <2> QED BY <1>4, <1>11, <2>1, <2>3, <2>4
<1> QED BY <1>12, <1>13

LogsAreRooted == \A n \in Node : Rooted(log[n], ledger)
LedgersAreRooted == \A t \in 1..MaxTerm : Rooted(ledger[t], ledger)
LeadersKeepLedgers == \A n \in Node : state[n] = "leader" => log[n] = ledger[current_term[n]]
LedgersAreWon == \A t \in 1..MaxTerm : ledger[t] # <<>> => Won(t)
TermsInOrder ==
  /\ \A t \in 1..MaxTerm : \A i \in 1..Len(ledger[t]) : ledger[t][i].term <= t
  /\ \A n \in Node : \A i \in 1..Len(log[n]) : log[n][i].term <= current_term[n]
AppendsAreExcerpts ==
  \A n \in Node : \A i \in DOMAIN inbox[n] : inbox[n][i].type = "append_entries" =>
    Excerpt(inbox[n][i], ledger[inbox[n][i].term]) \/ Nothing(inbox[n][i])

LogsInv ==
  LogsAreRooted /\ LedgersAreRooted /\ LeadersKeepLedgers /\ LedgersAreWon /\ TermsInOrder
LedgerInv == ElectionInv /\ OfficeInv /\ LogsInv /\ AppendsAreExcerpts

LEMMA LogTypes ==
  ASSUME TypeOK
  PROVE  /\ ledger \in Ledgers /\ \A t \in 1..MaxTerm : ledger[t] \in Seq(Entry) /\ Len(ledger[t]) \in Nat
         /\ \A n \in Node : log[n] \in Seq(Entry) /\ Len(log[n]) \in Nat /\ current_term[n] \in Nat
         /\ MaxTerm \in Nat
<1>1. ledger \in Ledgers BY DEF TypeOK, Ledgers
<1>2. \A t \in 1..MaxTerm : ledger[t] \in Seq(Entry) BY <1>1 DEF Ledgers
<1>3. \A n \in Node : log[n] \in Seq(Entry) /\ current_term[n] \in Nat BY DEF TypeOK
<1> QED BY <1>1, <1>2, <1>3, LenProperties, RaftAssumption

LEMMA LeaderTerms ==
  ASSUME TypeOK, OfficeInv
  PROVE  /\ \A e \in elected : e[1] \in 1..MaxTerm
         /\ \A n \in Node : state[n] = "leader" => current_term[n] \in 1..MaxTerm
         /\ \A n \in Node : state[n] = "candidate" => current_term[n] \in 1..MaxTerm
         /\ \A n \in Node : \A i \in DOMAIN inbox[n] :
              inbox[n][i].type = "append_entries" => inbox[n][i].term \in 1..MaxTerm
<1>1. ASSUME NEW e \in elected PROVE e[1] \in 1..MaxTerm
  <2>1. e[1] \in Nat /\ e[2] \in Node /\ e[1] > 0 /\ e[1] <= current_term[e[2]]
    BY DEF TypeOK, OfficeInv, VictoriesAreReached
  <2>2. current_term[e[2]] \in Nat /\ current_term[e[2]] <= MaxTerm
    BY <2>1 DEF TypeOK, OfficeInv, TermsAreBounded
  <2> QED BY <2>1, <2>2, RaftAssumption
<1>2. \A n \in Node : state[n] = "leader" => current_term[n] \in 1..MaxTerm
  BY <1>1 DEF OfficeInv, LeadersHaveWon
<1>3. ASSUME NEW n \in Node, state[n] = "candidate" PROVE current_term[n] \in 1..MaxTerm
  <2>1. current_term[n] \in Nat BY DEF TypeOK
  <2>2. current_term[n] > 0 /\ current_term[n] <= MaxTerm
    BY <1>3 DEF OfficeInv, CandidatesHaveNot, TermsAreBounded
  <2> QED BY <2>1, <2>2, RaftAssumption
<1>4. \A n \in Node : \A i \in DOMAIN inbox[n] :
        inbox[n][i].type = "append_entries" => inbox[n][i].term \in 1..MaxTerm
  BY <1>1 DEF OfficeInv, AppendsAreLeaders
<1> QED BY <1>1, <1>2, <1>3, <1>4

(* What leads or has won in one term is one node.                           *)
OneLeads ==
  \A p, q \in Node : state[p] = "leader" /\ <<current_term[p], q>> \in elected => p = q

LEMMA OneLeader == ElectionInv /\ OfficeInv => OneLeads
<1> SUFFICES ASSUME ElectionInv, OfficeInv, NEW p \in Node, NEW q \in Node,
                    state[p] = "leader", <<current_term[p], q>> \in elected
             PROVE  p = q
  BY DEF OneLeads
<1>1. <<current_term[p], p>> \in elected BY DEF OfficeInv, LeadersHaveWon
<1> QED BY <1>1, ElectionInvImpliesSafety DEF ElectionSafety

(* Steps that leave the logs and the victories alone.                       *)
LEMMA QuietLogs ==
  ASSUME LedgerInv, TypeOK', OfficeStep, UNCHANGED <<log, ledger, elected>>
  PROVE  LogsInv'
<1>1. TypeOK BY DEF LedgerInv, ElectionInv
<1>2. LogsAreRooted' BY DEF LedgerInv, LogsInv, LogsAreRooted
<1>3. LedgersAreRooted' BY DEF LedgerInv, LogsInv, LedgersAreRooted
<1>4. LeadersKeepLedgers'
  BY DEF LedgerInv, LogsInv, LeadersKeepLedgers, OfficeStep, OfficeInv, CandidatesHaveNot
<1>5. LedgersAreWon' BY DEF LedgerInv, LogsInv, LedgersAreWon, Won
<1>6. TermsInOrder'
  <2>1. \A n \in Node : current_term'[n] >= current_term[n] BY DEF OfficeStep
  <2>2. ASSUME NEW n \in Node, NEW i \in 1..Len(log'[n]) PROVE log'[n][i].term <= current_term'[n]
    <3>1. log[n][i] \in Entry BY <1>1, <2>2, LogTypes, ElementOfSeq
    <3>2. log[n][i].term \in Nat BY <3>1 DEF Entry
    <3>3. current_term[n] \in Nat /\ current_term'[n] \in Nat BY <1>1 DEF TypeOK
    <3>4. log[n][i].term <= current_term[n] BY <2>2 DEF LedgerInv, LogsInv, TermsInOrder
    <3> QED BY <2>1, <3>2, <3>3, <3>4
  <2> QED BY <2>2 DEF LedgerInv, LogsInv, TermsInOrder
<1> QED BY <1>2, <1>3, <1>4, <1>5, <1>6 DEF LogsInv

(* A victory opens an empty ledger.                                         *)
LEMMA WinsOpens ==
  ASSUME LedgerInv, ElectionInv', OfficeInv', NEW n \in Node, Wins(n)
  PROVE  /\ current_term[n] \in 1..MaxTerm /\ ledger[current_term[n]] = <<>>
         /\ ~Won(current_term[n])
         /\ ledger' \in Ledgers /\ Grown(ledger, ledger')
         /\ ledger'[current_term[n]] = log[n]
         /\ \A t \in 1..MaxTerm : t # current_term[n] => ledger'[t] = ledger[t]
         /\ \A t \in 1..MaxTerm : Won(t)' <=> (Won(t) \/ t = current_term[n])
<1> DEFINE T == current_term[n]
<1>1. TypeOK /\ TypeOK' /\ OfficeInv BY DEF LedgerInv, ElectionInv
<1>2. /\ state[n] = "candidate" /\ state'[n] = "leader" /\ current_term' = current_term
      /\ elected' = elected \cup {<<T, n>>} /\ ledger' = [ledger EXCEPT ![T] = log[n]]
  BY <1>1 DEF Wins, TypeOK
<1>3. T \in 1..MaxTerm BY <1>1, <1>2, LeaderTerms
<1>4. ~Won(T)
  <2> SUFFICES ASSUME NEW e \in elected, e[1] = T PROVE FALSE BY DEF Won
  <2>1. e \in elected' /\ <<T, n>> \in elected' BY <1>2
  <2>2. e[2] = n
    <3>1. ElectionSafety' BY ElectionInvImpliesSafety, PTL
    <3> QED BY <2>1, <3>1 DEF ElectionSafety
  <2>3. elected \subseteq Nat \X Node BY <1>1 DEF TypeOK
  <2>4. e = <<T, n>> BY <2>2, <2>3
  <2> QED BY <1>1, <1>2, <2>4 DEF OfficeInv, CandidatesHaveNot
<1>5. ledger[T] = <<>> BY <1>3, <1>4 DEF LedgerInv, LogsInv, LedgersAreWon
<1>6. ledger' \in Ledgers /\ ledger \in Ledgers BY <1>1 DEF TypeOK, Ledgers
<1>7. /\ ledger'[T] = log[n]
      /\ \A t \in 1..MaxTerm : t # T => ledger'[t] = ledger[t]
  BY <1>2, <1>3, <1>6 DEF Ledgers
<1>8. Grown(ledger, ledger')
  <2> SUFFICES ASSUME NEW t \in 1..MaxTerm
               PROVE  /\ Len(ledger[t]) <= Len(ledger'[t])
                      /\ \A i \in 1..Len(ledger[t]) : ledger'[t][i] = ledger[t][i]
    BY DEF Grown
  <2>1. Len(ledger[t]) \in Nat BY <1>1, LogTypes
  <2>2. CASE t # T BY <1>7, <2>1, <2>2
  <2>3. CASE t = T
    <3>1. Len(ledger[t]) = 0 BY <1>5, <2>3
    <3>2. Len(log[n]) \in Nat BY <1>1, LogTypes
    <3> QED BY <1>7, <2>3, <3>1, <3>2
  <2> QED BY <2>2, <2>3
<1>9. ASSUME NEW t \in 1..MaxTerm PROVE Won(t)' <=> (Won(t) \/ t = T)
  <2>1. <<T, n>>[1] = T OBVIOUS
  <2> HIDE DEF T
  <2>2. Won(t)' <=> \E e \in elected \cup {<<T, n>>} : e[1] = t BY <1>2 DEF Won
  <2>3. Won(t) <=> \E e \in elected : e[1] = t BY DEF Won
  <2> QED BY <2>1, <2>2, <2>3
<1> QED BY <1>3, <1>4, <1>5, <1>6, <1>7, <1>8, <1>9

LEMMA WinsLogs ==
  ASSUME LedgerInv, ElectionInv', OfficeInv', NEW n \in Node, Wins(n)
  PROVE  LogsInv'
<1> DEFINE T == current_term[n]
<1>1. TypeOK /\ TypeOK' /\ OfficeInv BY DEF LedgerInv, ElectionInv
<1>2. /\ state[n] = "candidate" /\ state'[n] = "leader" /\ current_term' = current_term
      /\ state' = [state EXCEPT ![n] = "leader"]
      /\ elected' = elected \cup {<<T, n>>} /\ log' = log
  BY <1>1 DEF Wins, TypeOK
<1>3. /\ T \in 1..MaxTerm /\ ledger' \in Ledgers /\ ledger \in Ledgers /\ Grown(ledger, ledger')
      /\ ledger'[T] = log[n]
      /\ \A t \in 1..MaxTerm : t # T => ledger'[t] = ledger[t]
      /\ \A t \in 1..MaxTerm : Won(t)' <=> (Won(t) \/ t = T)
  BY <1>1, WinsOpens, LogTypes
<1>4. LogsAreRooted'
  <2>1. \A p \in Node : log[p] \in Seq(Entry) /\ Rooted(log[p], ledger)
    BY <1>1, LogTypes DEF LedgerInv, LogsInv, LogsAreRooted
  <2>2. \A p \in Node : Rooted(log[p], ledger') BY <1>3, <2>1, RootedGrows
  <2> QED BY <1>2, <2>2 DEF LogsAreRooted
<1>5. LedgersAreRooted'
  <2>1. \A t \in 1..MaxTerm : ledger[t] \in Seq(Entry) /\ Rooted(ledger[t], ledger)
    BY <1>1, LogTypes DEF LedgerInv, LogsInv, LedgersAreRooted
  <2>2. \A t \in 1..MaxTerm : Rooted(ledger[t], ledger') BY <1>3, <2>1, RootedGrows
  <2>3. Rooted(log[n], ledger') BY <1>2, <1>4 DEF LogsAreRooted
  <2> QED BY <1>3, <2>2, <2>3 DEF LedgersAreRooted
<1>6. LeadersKeepLedgers'
  <2> SUFFICES ASSUME NEW p \in Node, state'[p] = "leader"
               PROVE  log'[p] = ledger'[current_term'[p]]
    BY DEF LeadersKeepLedgers
  <2>1. CASE p = n BY <1>2, <1>3, <2>1
  <2>2. CASE p # n
    <3>1. state[p] = "leader" BY <1>1, <1>2, <2>2 DEF TypeOK
    <3>2. current_term[p] # T
      <4>1. OneLeads' BY OneLeader, PTL
      <4> QED BY <1>2, <2>2, <4>1 DEF OneLeads
    <3>3. current_term[p] \in 1..MaxTerm BY <1>1, <3>1, LeaderTerms
    <3>4. log[p] = ledger[current_term[p]] BY <3>1 DEF LedgerInv, LogsInv, LeadersKeepLedgers
    <3> QED BY <1>2, <1>3, <3>2, <3>3, <3>4
  <2> QED BY <2>1, <2>2
<1>7. LedgersAreWon' BY <1>3 DEF LedgerInv, LogsInv, LedgersAreWon
<1>8. TermsInOrder' BY <1>2, <1>3 DEF LedgerInv, LogsInv, TermsInOrder
<1> QED BY <1>4, <1>5, <1>6, <1>7, <1>8 DEF LogsInv

(* A command is appended to the leader's log and its ledger.                *)
LEMMA WritesAppends ==
  ASSUME LedgerInv, TypeOK', NEW n \in Node, Writes(n)
  PROVE  /\ current_term[n] \in 1..MaxTerm /\ <<current_term[n], n>> \in elected
         /\ \E e \in Entry :
              /\ e.term = current_term[n]
              /\ log' = [log EXCEPT ![n] = Append(log[n], e)]
              /\ ledger' = [ledger EXCEPT ![current_term[n]] = Append(log[n], e)]
         /\ log[n] = ledger[current_term[n]]
         /\ acks' = acks \cup {<<current_term[n], n, Len(log[n]) + 1>>}
         /\ ledger' \in Ledgers /\ Grown(ledger, ledger')
         /\ UNCHANGED <<state, current_term, elected, ballots>>
<1> DEFINE T == current_term[n]
<1>1. TypeOK /\ TypeOK' /\ OfficeInv BY DEF LedgerInv, ElectionInv
<1>2. state[n] = "leader" /\ UNCHANGED <<state, current_term, elected, ballots>>
  BY DEF Writes, electionVars
<1>3. T \in 1..MaxTerm /\ T \in Nat BY <1>1, <1>2, LeaderTerms, RaftAssumption
<1>4. <<T, n>> \in elected BY <1>1, <1>2 DEF OfficeInv, LeadersHaveWon
<1>5. log[n] = ledger[T] BY <1>2 DEF LedgerInv, LogsInv, LeadersKeepLedgers
<1>6. PICK c \in Command : LET lg == Append(log[n], [term |-> T, command |-> c])
                           IN /\ log' = [log EXCEPT ![n] = lg]
                              /\ ledger' = [ledger EXCEPT ![T] = lg]
                              /\ acks' = acks \cup {<<T, n, Len(lg)>>}
  BY DEF Writes
<1> DEFINE e == [term |-> T, command |-> c]
<1>7. e \in Entry /\ e.term = T BY <1>3 DEF Entry
<1> HIDE DEF e
<1>8. log[n] \in Seq(Entry) /\ Len(log[n]) \in Nat BY <1>1, LogTypes
<1>9. /\ Len(Append(log[n], e)) = Len(log[n]) + 1
      /\ \A i \in 1..Len(log[n]) : Append(log[n], e)[i] = log[n][i]
  BY <1>7, <1>8, AppendProperties
<1>10. /\ log' = [log EXCEPT ![n] = Append(log[n], e)]
       /\ ledger' = [ledger EXCEPT ![T] = Append(log[n], e)]
       /\ acks' = acks \cup {<<T, n, Len(log[n]) + 1>>}
  BY <1>6, <1>9 DEF e
<1>11. ledger \in Ledgers /\ ledger' \in Ledgers BY <1>1 DEF TypeOK, Ledgers
<1>12. Grown(ledger, ledger')
  <2> SUFFICES ASSUME NEW t \in 1..MaxTerm
               PROVE  /\ Len(ledger[t]) <= Len(ledger'[t])
                      /\ \A i \in 1..Len(ledger[t]) : ledger'[t][i] = ledger[t][i]
    BY DEF Grown
  <2>1. Len(ledger[t]) \in Nat BY <1>1, LogTypes
  <2>2. CASE t # T
    <3>1. ledger'[t] = ledger[t] BY <1>10, <1>11, <2>2 DEF Ledgers
    <3> QED BY <2>1, <3>1
  <2>3. CASE t = T
    <3>1. ledger'[t] = Append(log[n], e) BY <1>10, <1>11, <2>3 DEF Ledgers
    <3> QED BY <1>5, <1>8, <1>9, <2>3, <3>1
  <2> QED BY <2>2, <2>3
<1> QED BY <1>2, <1>3, <1>4, <1>5, <1>7, <1>10, <1>11, <1>12

LEMMA WritesLogs ==
  ASSUME LedgerInv, ElectionInv', OfficeInv', NEW n \in Node, Writes(n)
  PROVE  LogsInv'
<1> DEFINE T == current_term[n]
<1>1. TypeOK /\ TypeOK' /\ OfficeInv /\ ElectionInv BY DEF LedgerInv, ElectionInv
<1>2. /\ T \in 1..MaxTerm /\ <<T, n>> \in elected /\ log[n] = ledger[T]
      /\ ledger' \in Ledgers /\ Grown(ledger, ledger')
      /\ UNCHANGED <<state, current_term, elected, ballots>>
  BY <1>1, WritesAppends
<1>3. PICK e \in Entry : /\ e.term = T
                         /\ log' = [log EXCEPT ![n] = Append(log[n], e)]
                         /\ ledger' = [ledger EXCEPT ![T] = Append(log[n], e)]
  BY <1>1, WritesAppends
<1> DEFINE lg == Append(log[n], e)
<1>4. /\ ledger \in Ledgers /\ T \in Nat /\ log[n] \in Seq(Entry) /\ Len(log[n]) \in Nat
      /\ log \in [Node -> Seq(Entry)]
  BY <1>1, LogTypes DEF TypeOK
<1>5. /\ lg \in Seq(Entry) /\ Len(lg) = Len(log[n]) + 1
      /\ \A i \in 1..Len(log[n]) : lg[i] = log[n][i]
      /\ lg[Len(lg)] = e
  BY <1>4, AppendProperties
<1> HIDE DEF T, lg
<1>6. /\ log'[n] = lg /\ ledger'[T] = lg
      /\ \A p \in Node : p # n => log'[p] = log[p]
      /\ \A t \in 1..MaxTerm : t # T => ledger'[t] = ledger[t]
  BY <1>2, <1>3, <1>4 DEF lg, Ledgers
<1>7. Rooted(lg, ledger')
  <2> SUFFICES ASSUME NEW i \in 1..Len(lg)
               PROVE  /\ lg[i].term \in 1..MaxTerm /\ i <= Len(ledger'[lg[i].term])
                      /\ \A j \in 1..i : lg[j] = ledger'[lg[i].term][j]
    BY DEF Rooted
  <2>1. CASE i = Len(lg)
    <3>1. lg[i].term = T BY <1>3, <1>5, <2>1
    <3> QED BY <1>2, <1>4, <1>5, <1>6, <2>1, <3>1
  <2>2. CASE i # Len(lg)
    <3>1. i \in 1..Len(log[n]) BY <1>4, <1>5, <2>2
    <3>2. Rooted(log[n], ledger') BY <1>2, <1>4, RootedGrows DEF LedgerInv, LogsInv, LogsAreRooted
    <3>3. /\ log[n][i].term \in 1..MaxTerm /\ i <= Len(ledger'[log[n][i].term])
          /\ \A j \in 1..i : log[n][j] = ledger'[log[n][i].term][j]
      BY <3>1, <3>2 DEF Rooted
    <3>4. \A j \in 1..i : j \in 1..Len(log[n]) /\ lg[j] = log[n][j] BY <1>4, <1>5, <3>1
    <3>5. lg[i] = log[n][i] BY <1>5, <3>1
    <3> QED BY <3>3, <3>4, <3>5
  <2> QED BY <2>1, <2>2
<1>8. LogsAreRooted'
  <2> SUFFICES ASSUME NEW p \in Node PROVE Rooted(log'[p], ledger') BY DEF LogsAreRooted
  <2>1. CASE p = n BY <1>6, <1>7, <2>1
  <2>2. CASE p # n
    <3>1. log[p] \in Seq(Entry) /\ Rooted(log[p], ledger)
      BY <1>1, LogTypes DEF LedgerInv, LogsInv, LogsAreRooted
    <3> QED BY <1>2, <1>4, <1>6, <2>2, <3>1, RootedGrows
  <2> QED BY <2>1, <2>2
<1>9. LedgersAreRooted'
  <2> SUFFICES ASSUME NEW t \in 1..MaxTerm PROVE Rooted(ledger'[t], ledger')
    BY DEF LedgersAreRooted
  <2>1. CASE t = T BY <1>6, <1>7, <2>1
  <2>2. CASE t # T
    <3>1. ledger[t] \in Seq(Entry) /\ Rooted(ledger[t], ledger)
      BY <1>1, LogTypes DEF LedgerInv, LogsInv, LedgersAreRooted
    <3> QED BY <1>2, <1>4, <1>6, <2>2, <3>1, RootedGrows
  <2> QED BY <2>1, <2>2
<1>10. LeadersKeepLedgers'
  <2> SUFFICES ASSUME NEW p \in Node, state'[p] = "leader"
               PROVE  log'[p] = ledger'[current_term'[p]]
    BY DEF LeadersKeepLedgers
  <2>1. CASE p = n BY <1>2, <1>6, <2>1 DEF T
  <2>2. CASE p # n
    <3>1. current_term[p] # T BY <1>1, <1>2, <2>2, OneLeader DEF OneLeads
    <3>2. current_term[p] \in 1..MaxTerm BY <1>1, <1>2, LeaderTerms
    <3>3. log[p] = ledger[current_term[p]] BY <1>2 DEF LedgerInv, LogsInv, LeadersKeepLedgers
    <3> QED BY <1>2, <1>6, <2>2, <3>1, <3>2, <3>3
  <2> QED BY <2>1, <2>2
<1>11. LedgersAreWon'
  <2> SUFFICES ASSUME NEW t \in 1..MaxTerm, ledger'[t] # <<>> PROVE Won(t)'
    BY DEF LedgersAreWon
  <2>1. Won(t)' <=> Won(t) BY <1>2 DEF Won
  <2>2. CASE t = T BY <1>2, <2>1, <2>2 DEF Won
  <2>3. CASE t # T BY <1>6, <2>1, <2>3 DEF LedgerInv, LogsInv, LedgersAreWon
  <2> QED BY <2>2, <2>3
<1>12. TermsInOrder'
  <2>1. ASSUME NEW i \in 1..Len(lg) PROVE lg[i].term <= T
    <3>1. CASE i = Len(lg) BY <1>3, <1>4, <1>5, <3>1
    <3>2. CASE i # Len(lg)
      <4>1. i \in 1..Len(log[n]) BY <1>4, <1>5, <3>2
      <4> QED BY <1>5, <4>1 DEF LedgerInv, LogsInv, TermsInOrder, T
    <3> QED BY <3>1, <3>2
  <2>2. ASSUME NEW t \in 1..MaxTerm, NEW i \in 1..Len(ledger'[t]) PROVE ledger'[t][i].term <= t
    <3>1. CASE t = T BY <1>6, <2>1, <2>2, <3>1
    <3>2. CASE t # T BY <1>6, <2>2, <3>2 DEF LedgerInv, LogsInv, TermsInOrder
    <3> QED BY <3>1, <3>2
  <2>3. ASSUME NEW p \in Node, NEW i \in 1..Len(log'[p]) PROVE log'[p][i].term <= current_term'[p]
    <3>1. CASE p = n BY <1>2, <1>6, <2>1, <2>3, <3>1 DEF T
    <3>2. CASE p # n BY <1>2, <1>6, <2>3, <3>2 DEF LedgerInv, LogsInv, TermsInOrder
    <3> QED BY <3>1, <3>2
  <2> QED BY <2>2, <2>3 DEF TermsInOrder
<1> QED BY <1>8, <1>9, <1>10, <1>11, <1>12 DEF LogsInv

(* A follower that stores entries of a leader then holds what the leader's  *)
(* ledger holds, up to what it matched.                                     *)
LEMMA StoresFollow ==
  ASSUME LedgerInv, TypeOK', NEW n \in Node, NEW i \in DOMAIN inbox[n], Stores(n, inbox[n][i]),
         NEW t, t = inbox[n][i].term, NEW k, k = Matched(inbox[n][i])
  PROVE  /\ t \in 1..MaxTerm /\ t >= current_term[n] /\ k \in Nat /\ k <= Len(ledger[t])
         /\ log' = [log EXCEPT ![n] = log'[n]] /\ UNCHANGED <<ledger, ballots, elected>>
         /\ current_term' = [current_term EXCEPT ![n] = t]
         /\ state' = [state EXCEPT ![n] = "follower"]
         /\ acks' = acks \cup Acknowledged(n, t, log'[n], k)
         /\ Follows(log'[n], log[n], k, ledger[t]) /\ Rooted(log'[n], ledger)
<1> DEFINE m == inbox[n][i]
<1>1. TypeOK /\ OfficeInv BY DEF LedgerInv, ElectionInv
<1>2. /\ m.type = "append_entries" /\ m.term >= current_term[n]
      /\ \/ m.prev_log_index = 0
         \/ m.prev_log_index <= Len(log[n]) /\ log[n][m.prev_log_index].term = m.prev_log_term
      /\ current_term' = [current_term EXCEPT ![n] = m.term]
      /\ state' = [state EXCEPT ![n] = "follower"]
      /\ log' = [log EXCEPT ![n] = Overwritten(log[n], m.prev_log_index, m.entries)]
      /\ acks' = acks \cup Acknowledged(n, m.term, log'[n], Matched(m))
      /\ UNCHANGED <<ledger, ballots, elected>>
  BY DEF Stores
<1>3. t \in 1..MaxTerm BY <1>1, <1>2, LeaderTerms
<1>4. m \in Message BY <1>1, MessageFacts
<1>5. m.prev_log_index \in Nat /\ m.entries \in Seq(Entry) BY <1>2, <1>4 DEF Message
<1> DEFINE prev == m.prev_log_index
           entries == m.entries
<1>6. Len(entries) \in Nat /\ k \in Nat /\ k = prev + Len(entries) BY <1>5, LenProperties DEF Matched
<1>7. Excerpt(m, ledger[t]) \/ Nothing(m) BY <1>2 DEF LedgerInv, AppendsAreExcerpts
<1>8. /\ log[n] \in Seq(Entry) /\ Len(log[n]) \in Nat /\ ledger \in Ledgers
      /\ ledger[t] \in Seq(Entry) /\ Len(ledger[t]) \in Nat /\ log \in [Node -> Seq(Entry)]
  BY <1>1, <1>3, LogTypes DEF TypeOK
<1>9. Rooted(log[n], ledger) /\ Rooted(ledger[t], ledger)
  BY <1>3 DEF LedgerInv, LogsInv, LogsAreRooted, LedgersAreRooted
<1>10. Excerpt(m, ledger[t])
  <2> SUFFICES ASSUME Nothing(m) PROVE FALSE BY <1>7
  <2>1. prev \in 1..Len(log[n]) /\ log[n][prev].term = 0 BY <1>2, <1>5, <1>8 DEF Nothing
  <2>2. log[n][prev].term \in 1..MaxTerm BY <1>9, <2>1 DEF Rooted
  <2> QED BY <2>1, <2>2
<1>11. Fits(log[n], m) BY <1>2 DEF Fits
<1>12. k <= Len(ledger[t]) BY <1>10 DEF Excerpt
<1>13. log'[n] = Overwritten(log[n], m.prev_log_index, m.entries) /\ log' = [log EXCEPT ![n] = log'[n]]
  BY <1>2, <1>8
<1> HIDE DEF m
<1>14. Follows(log'[n], log[n], Matched(m), ledger[t]) /\ Rooted(log'[n], ledger)
  <2> DEFINE lg == log[n]
  <2>1. lg \in Seq(Entry) /\ Rooted(lg, ledger) /\ Fits(lg, m) BY <1>8, <1>9, <1>11
  <2> HIDE DEF lg
  <2>2. /\ Follows(Overwritten(lg, m.prev_log_index, m.entries), lg, Matched(m), ledger[t])
        /\ Rooted(Overwritten(lg, m.prev_log_index, m.entries), ledger)
    BY <1>2, <1>3, <1>4, <1>8, <1>9, <1>10, <2>1, OverwrittenFollows
  <2> QED BY <1>13, <2>2 DEF lg
<1>15. /\ t >= current_term[n] /\ current_term' = [current_term EXCEPT ![n] = t]
       /\ acks' = acks \cup Acknowledged(n, t, log'[n], k) /\ k = Matched(m)
  BY <1>2 DEF m
<1> QED BY <1>2, <1>3, <1>6, <1>12, <1>13, <1>14, <1>15

LEMMA StoresLogs ==
  ASSUME LedgerInv, TypeOK', OfficeStep,
         NEW n \in Node, NEW i \in DOMAIN inbox[n], Stores(n, inbox[n][i])
  PROVE  LogsInv'
<1> DEFINE t == inbox[n][i].term
           k == Matched(inbox[n][i])
<1>1. TypeOK /\ TypeOK' /\ OfficeInv BY DEF LedgerInv, ElectionInv
<1>2. /\ t \in 1..MaxTerm /\ t >= current_term[n] /\ k \in Nat /\ k <= Len(ledger[t])
      /\ log' = [log EXCEPT ![n] = log'[n]] /\ UNCHANGED <<ledger, elected>>
      /\ current_term' = [current_term EXCEPT ![n] = t]
      /\ state' = [state EXCEPT ![n] = "follower"]
      /\ Follows(log'[n], log[n], k, ledger[t]) /\ Rooted(log'[n], ledger)
  BY StoresFollow
<1> HIDE DEF t, k
<1>3. /\ \A p \in Node : p # n => /\ log'[p] = log[p] /\ current_term'[p] = current_term[p]
                                  /\ state'[p] = state[p]
      /\ current_term'[n] = t /\ state'[n] = "follower"
  BY <1>1, <1>2 DEF TypeOK
<1>4. LogsAreRooted' BY <1>2, <1>3 DEF LedgerInv, LogsInv, LogsAreRooted
<1>5. LedgersAreRooted' BY <1>2 DEF LedgerInv, LogsInv, LedgersAreRooted
<1>6. LeadersKeepLedgers' BY <1>2, <1>3 DEF LedgerInv, LogsInv, LeadersKeepLedgers
<1>7. LedgersAreWon' BY <1>2 DEF LedgerInv, LogsInv, LedgersAreWon, Won
<1>8. TermsInOrder'
  <2>1. \A u \in 1..MaxTerm : \A j \in 1..Len(ledger'[u]) : ledger'[u][j].term <= u
    BY <1>2 DEF LedgerInv, LogsInv, TermsInOrder
  <2>2. ASSUME NEW j \in 1..Len(log'[n]) PROVE log'[n][j].term <= t
    <3>1. /\ Len(log[n]) \in Nat /\ Len(ledger[t]) \in Nat /\ current_term[n] \in Nat
          /\ Rooted(log[n], ledger)
      BY <1>1, <1>2, LogTypes DEF LedgerInv, LogsInv, LogsAreRooted
    <3>2. CASE log'[n] = log[n]
      <4>1. log[n][j].term <= current_term[n]
        BY <2>2, <3>2 DEF LedgerInv, LogsInv, TermsInOrder
      <4>2. log[n][j].term \in 1..MaxTerm BY <2>2, <3>1, <3>2 DEF Rooted
      <4> QED BY <1>2, <3>1, <3>2, <4>1, <4>2
    <3>3. CASE log'[n] # log[n]
      <4>1. j \in 1..k BY <1>2, <2>2, <3>3 DEF Follows
      <4>2. log'[n][j] = ledger[t][j] BY <1>2, <4>1 DEF Follows
      <4>3. j \in 1..Len(ledger[t]) BY <1>2, <3>1, <4>1
      <4> QED BY <1>2, <4>2, <4>3 DEF LedgerInv, LogsInv, TermsInOrder
    <3> QED BY <3>2, <3>3
  <2>3. ASSUME NEW p \in Node, NEW j \in 1..Len(log'[p]) PROVE log'[p][j].term <= current_term'[p]
    <3>1. CASE p = n BY <1>3, <2>2, <2>3, <3>1
    <3>2. CASE p # n BY <1>3, <2>3, <3>2 DEF LedgerInv, LogsInv, TermsInOrder
    <3> QED BY <3>1, <3>2
  <2> QED BY <2>1, <2>3 DEF TermsInOrder
<1> QED BY <1>4, <1>5, <1>6, <1>7, <1>8 DEF LogsInv

LEMMA LogsNext ==
  ASSUME LedgerInv, ElectionInv', OfficeInv', Step, OfficeStep
  PROVE  LogsInv' /\ ledger' \in Ledgers /\ Grown(ledger, ledger')
<1>1. TypeOK /\ TypeOK' BY DEF LedgerInv, ElectionInv
<1>2. ledger \in Ledgers /\ \A t \in 1..MaxTerm : Len(ledger[t]) \in Nat BY <1>1, LogTypes
<1>3. ASSUME UNCHANGED <<log, ledger, elected>>
      PROVE  LogsInv' /\ ledger' \in Ledgers /\ Grown(ledger, ledger')
  BY <1>1, <1>2, <1>3, QuietLogs DEF Grown
<1>4. CASE Moves BY <1>3, <1>4 DEF Moves, logVars
<1>5. ASSUME NEW n \in Node, Stands(n)
      PROVE  LogsInv' /\ ledger' \in Ledgers /\ Grown(ledger, ledger')
  BY <1>3, <1>5 DEF Stands, logVars
<1>6. ASSUME NEW n \in Node, NEW i \in DOMAIN inbox[n], Grants(n, inbox[n][i])
      PROVE  LogsInv' /\ ledger' \in Ledgers /\ Grown(ledger, ledger')
  BY <1>3, <1>6 DEF Grants, logVars
<1>7. ASSUME NEW n \in Node, NEW i \in DOMAIN inbox[n], Counts(n, inbox[n][i])
      PROVE  LogsInv' /\ ledger' \in Ledgers /\ Grown(ledger, ledger')
  BY <1>3, <1>7 DEF Counts, logVars, electionVars
<1>8. ASSUME NEW n \in Node, Writes(n)
      PROVE  LogsInv' /\ ledger' \in Ledgers /\ Grown(ledger, ledger')
  BY <1>1, <1>8, WritesAppends, WritesLogs
<1>9. ASSUME NEW n \in Node, Wins(n)
      PROVE  LogsInv' /\ ledger' \in Ledgers /\ Grown(ledger, ledger')
  BY <1>9, WinsOpens, WinsLogs
<1>10. ASSUME NEW n \in Node, NEW i \in DOMAIN inbox[n], Stores(n, inbox[n][i])
       PROVE  LogsInv' /\ ledger' \in Ledgers /\ Grown(ledger, ledger')
  <2>1. ledger' = ledger BY <1>10 DEF Stores
  <2> QED BY <1>1, <1>2, <1>10, <2>1, StoresLogs DEF Grown
<1> QED BY <1>4, <1>5, <1>6, <1>7, <1>8, <1>9, <1>10 DEF Step

(* What leaders send follows from the logs they have.                       *)
LEMMA ExcerptsNext ==
  ASSUME LedgerInv, ElectionInv', OfficeInv', LogsInv', Grown(ledger, ledger'), Sends
  PROVE  AppendsAreExcerpts'
<1>1. TypeOK /\ TypeOK' /\ OfficeInv BY DEF LedgerInv, ElectionInv
<1> SUFFICES ASSUME NEW p \in Node, NEW i \in DOMAIN inbox'[p],
                    inbox'[p][i].type = "append_entries"
             PROVE  Excerpt(inbox'[p][i], ledger'[inbox'[p][i].term]) \/ Nothing(inbox'[p][i])
  BY DEF AppendsAreExcerpts
<1>2. CASE \E j \in DOMAIN inbox[p] : inbox'[p][i] = inbox[p][j]
  <2>1. PICK j \in DOMAIN inbox[p] : inbox'[p][i] = inbox[p][j] BY <1>2
  <2> DEFINE m == inbox[p][j]
             t == m.term
  <2>2. m \in Message /\ m.type = "append_entries" /\ t \in 1..MaxTerm
    BY <1>1, <2>1, MessageFacts, LeaderTerms
  <2>3. Excerpt(m, ledger[t]) \/ Nothing(m) BY <2>2 DEF LedgerInv, AppendsAreExcerpts
  <2> HIDE DEF m, t
  <2>4. ledger[t] \in Seq(Entry) BY <1>1, <2>2, LogTypes
  <2>5. ledger'[t] \in Seq(Entry) BY <1>1, <2>2 DEF TypeOK
  <2>6. Len(ledger[t]) <= Len(ledger'[t]) /\ \A l \in 1..Len(ledger[t]) : ledger'[t][l] = ledger[t][l]
    BY <2>2 DEF Grown
  <2>7. Excerpt(m, ledger'[t]) \/ Nothing(m)
    <3> DEFINE lg == ledger[t]
               lh == ledger'[t]
    <3>1. /\ lg \in Seq(Entry) /\ lh \in Seq(Entry) /\ (Excerpt(m, lg) \/ Nothing(m))
          /\ Len(lg) <= Len(lh) /\ \A l \in 1..Len(lg) : lh[l] = lg[l]
      BY <2>3, <2>4, <2>5, <2>6
    <3> HIDE DEF lg, lh
    <3>2. Excerpt(m, lh) \/ Nothing(m) BY <2>2, <3>1, ExcerptGrows
    <3> QED BY <3>2 DEF lh
  <2> QED BY <2>1, <2>7 DEF m, t
<1>3. CASE \E n \in Node : SentTo(p, n, inbox'[p][i])
  <2>1. PICK n \in Node : SentTo(p, n, inbox'[p][i]) BY <1>3
  <2>2. PICK next \in Nat \ {0} :
          /\ inbox'[p][i] = AppendEntries(n, next, log'[n])
          /\ state'[n] = "leader" /\ inbox'[p][i].term = current_term'[n]
    BY <2>1 DEF SentTo
  <2>3. log'[n] \in Seq(Entry) BY <1>1 DEF TypeOK
  <2>4. log'[n] = ledger'[current_term'[n]] BY <2>2 DEF LogsInv, LeadersKeepLedgers
  <2> DEFINE lg == log'[n]
  <2>5. lg \in Seq(Entry) /\ lg = ledger'[inbox'[p][i].term] BY <2>2, <2>3, <2>4
  <2>6. inbox'[p][i] = AppendEntries(n, next, lg) BY <2>2
  <2> HIDE DEF lg
  <2>7. Excerpt(AppendEntries(n, next, lg), lg) \/ Nothing(AppendEntries(n, next, lg))
    BY <1>1, <2>5, AppendEntriesExcerpt
  <2> QED BY <2>5, <2>6, <2>7
<1> QED BY <1>2, <1>3 DEF Sends

LEMMA LedgerInvInit == Init => LedgerInv
<1> SUFFICES ASSUME Init PROVE LedgerInv OBVIOUS
<1>1. ElectionInv /\ OfficeInv BY ElectionInvInit, OfficeInvInit
<1>2. /\ log = [n \in Node |-> <<>>] /\ ledger = [t \in 1..MaxTerm |-> <<>>]
      /\ state = [n \in Node |-> "follower"] /\ \A n \in Node : inbox[n] = <<>>
  BY DEF Init, BusInit
<1>3. (\A n \in Node : log[n] = <<>>) /\ \A t \in 1..MaxTerm : ledger[t] = <<>> BY <1>2
<1>4. LogsAreRooted /\ LedgersAreRooted /\ TermsInOrder
  BY <1>3 DEF LogsAreRooted, LedgersAreRooted, Rooted, TermsInOrder
<1>5. LeadersKeepLedgers /\ LedgersAreWon /\ AppendsAreExcerpts
  BY <1>2, <1>3 DEF LeadersKeepLedgers, LedgersAreWon, AppendsAreExcerpts
<1> QED BY <1>1, <1>4, <1>5 DEF LedgerInv, LogsInv

(* The ledger under a step: what the proofs about acknowledgements need.    *)
LEMMA LedgerInvNext ==
  ASSUME LedgerInv, [Next]_vars
  PROVE  /\ LedgerInv'
         /\ Step /\ Sends /\ OfficeStep /\ Grown(ledger, ledger')
<1>1. TypeOK /\ ElectionInv BY DEF LedgerInv, ElectionInv
<1>2. ElectionInv' /\ TypeOK' BY <1>1, ElectionInvNext DEF ElectionInv
<1>3. Step /\ Sends BY <1>1, NextStep
<1>4. OfficeStep BY <1>1, <1>3, StepOffices
<1>5. OfficeInv' BY <1>1, <1>2, <1>3, <1>4, OfficeInvNext DEF LedgerInv
<1>6. LogsInv' /\ Grown(ledger, ledger') BY <1>2, <1>3, <1>4, <1>5, LogsNext
<1>7. AppendsAreExcerpts' BY <1>2, <1>3, <1>5, <1>6, ExcerptsNext
<1> QED BY <1>2, <1>3, <1>4, <1>5, <1>6, <1>7 DEF LedgerInv

LEMMA LedgerImpliesMatching == LedgerInv => LogMatching
<1> SUFFICES ASSUME LedgerInv, NEW m \in Node, NEW n \in Node,
                    NEW i \in DOMAIN log[m] \cap DOMAIN log[n], log[m][i].term = log[n][i].term
             PROVE  SubSeq(log[m], 1, i) = SubSeq(log[n], 1, i)
  BY DEF LogMatching
<1>1. /\ log[m] \in Seq(Entry) /\ log[n] \in Seq(Entry)
      /\ Len(log[m]) \in Nat /\ Len(log[n]) \in Nat
      /\ DOMAIN log[m] = 1..Len(log[m]) /\ DOMAIN log[n] = 1..Len(log[n])
  BY LogTypes, LenProperties DEF LedgerInv, ElectionInv
<1>2. Rooted(log[m], ledger) /\ Rooted(log[n], ledger)
  BY DEF LedgerInv, LogsInv, LogsAreRooted
<1> DEFINE lg == log[m]
           lh == log[n]
<1>3. /\ lg \in Seq(Entry) /\ lh \in Seq(Entry) /\ i \in 1..Len(lg) /\ i \in 1..Len(lh)
      /\ Rooted(lg, ledger) /\ Rooted(lh, ledger) /\ lg[i].term = lh[i].term
  BY <1>1, <1>2
<1> HIDE DEF lg, lh
<1>4. /\ lg \in Seq(Entry) /\ lh \in Seq(Entry) /\ i \in 1..Len(lg) /\ i \in 1..Len(lh)
      /\ \A j \in 1..i : lg[j] = lh[j]
  BY <1>3 DEF Rooted
<1>5. /\ \A j \in 1..i : lg[j] \in Entry /\ lh[j] \in Entry
      /\ i \in Nat /\ i >= 1
  <2>1. Len(lg) \in Nat /\ Len(lh) \in Nat BY <1>4, LenProperties
  <2>2. \A j \in 1..i : j \in 1..Len(lg) /\ j \in 1..Len(lh) BY <1>4, <2>1
  <2> QED BY <1>4, <2>1, <2>2, ElementOfSeq
<1>6. /\ SubSeq(lg, 1, i) \in Seq(Entry) /\ Len(SubSeq(lg, 1, i)) = i
      /\ \A j \in 1..i : SubSeq(lg, 1, i)[j] = lg[j]
  BY <1>4, <1>5, SubSeqProperties
<1>7. /\ SubSeq(lh, 1, i) \in Seq(Entry) /\ Len(SubSeq(lh, 1, i)) = i
      /\ \A j \in 1..i : SubSeq(lh, 1, i)[j] = lh[j]
  BY <1>4, <1>5, SubSeqProperties
<1>8. SubSeq(lg, 1, i) = SubSeq(lh, 1, i) BY <1>4, <1>6, <1>7, SeqEqual
<1> QED BY <1>8 DEF lg, lh

(* Log Matching (architecture.md:66-71).                                    *)
THEOREM LogsMatch == Spec => []LogMatching
<1>1. Init => LedgerInv BY LedgerInvInit
<1>2. LedgerInv /\ [Next]_vars => LedgerInv' BY LedgerInvNext
<1>3. LedgerInv => LogMatching BY LedgerImpliesMatching
<1> QED BY <1>1, <1>2, <1>3, PTL DEF Spec

(***************************************************************************)
(* Acknowledgements.  An own entry <<t, i>> is one that the leader of t     *)
(* wrote in t, at i.  Either a majority has passed to later terms without   *)
(* acknowledging it, or it is kept: by who acknowledged it, by who is       *)
(* elected later, and by a candidate as soon as one who acknowledged it     *)
(* votes for the candidate.                                                *)
(***************************************************************************)

Holds(lg, t, i) == i \in 1..Len(lg) /\ lg[i].term = t
Own(t, i) == Holds(ledger[t], t, i)

Dead(t, i) ==
  \E Q \in SUBSET Node : IsMajority(Q) /\ \A q \in Q : current_term[q] > t /\ <<t, q, i>> \notin acks

HoldersKeep(t, i) == \A q \in Node : <<t, q, i>> \in acks => Holds(log[q], t, i)
WinnersKeep(t, i) == \A u \in 1..MaxTerm : u > t /\ Won(u) => Holds(ledger[u], t, i)
CandidatesKeep(t, i) ==
  \A c \in Node : state[c] = "candidate" /\ current_term[c] > t =>
    \A q \in Node :
      <<current_term[c], q, c>> \in ballots /\ <<t, q, i>> \in acks => Holds(log[c], t, i)
Kept(t, i) == HoldersKeep(t, i) /\ WinnersKeep(t, i) /\ CandidatesKeep(t, i)

AcksAreOwn ==
  \A a \in acks : a[1] \in 1..MaxTerm /\ Own(a[1], a[3]) /\ a[1] <= current_term[a[2]]

(* A candidate's request for votes shows the log it still has.              *)
RequestsShowLogs ==
  \A n \in Node : \A i \in DOMAIN inbox[n] :
    LET m == inbox[n][i]
    IN m.type = "request_vote" /\ state[m.from] = "candidate" /\ m.term = current_term[m.from] =>
         m.last_log_index = Len(log[m.from]) /\ m.last_log_term = LastTerm(log[m.from])

OwnKept == \A t \in 1..MaxTerm : \A i \in 1..Len(ledger[t]) : Own(t, i) => Dead(t, i) \/ Kept(t, i)

AckInv == LedgerInv /\ AcksAreOwn /\ RequestsShowLogs /\ OwnKept

LEMMA HoldsGrows ==
  ASSUME NEW lg \in Seq(Entry), NEW lh \in Seq(Entry), NEW t, NEW i, Holds(lg, t, i),
         Len(lg) <= Len(lh), \A j \in 1..Len(lg) : lh[j] = lg[j]
  PROVE  Holds(lh, t, i)
<1>1. Len(lg) \in Nat /\ Len(lh) \in Nat BY LenProperties
<1> QED BY <1>1 DEF Holds

LEMMA LedgerHoldsGrows ==
  ASSUME NEW L \in Ledgers, NEW K \in Ledgers, Grown(L, K), NEW u \in 1..MaxTerm, NEW t, NEW i,
         Holds(L[u], t, i)
  PROVE  Holds(K[u], t, i)
<1> DEFINE lg == L[u]
           lh == K[u]
<1>1. lg \in Seq(Entry) /\ lh \in Seq(Entry) BY DEF Ledgers
<1>2. Len(lg) <= Len(lh) /\ \A j \in 1..Len(lg) : lh[j] = lg[j] BY DEF Grown
<1>3. Holds(lg, t, i) OBVIOUS
<1> HIDE DEF lg, lh
<1>4. Holds(lh, t, i) BY <1>1, <1>2, <1>3, HoldsGrows
<1> QED BY <1>4 DEF lh

(* A log at least as up to date as one that holds an entry holds it too, if *)
(* every later ledger does (_log_is_up_to_date).                            *)
InOrder(L) == \A t \in 1..MaxTerm : \A i \in 1..Len(L[t]) : L[t][i].term <= t

LEMMA UpToDateHolds ==
  ASSUME NEW L \in Ledgers, InOrder(L), \A u \in 1..MaxTerm : Rooted(L[u], L),
         NEW lg \in Seq(Entry), NEW lh \in Seq(Entry), Rooted(lg, L), Rooted(lh, L),
         NEW t \in 1..MaxTerm, NEW i, Holds(lg, t, i), Holds(L[t], t, i),
         \/ LastTerm(lh) > LastTerm(lg)
         \/ LastTerm(lh) = LastTerm(lg) /\ Len(lh) >= Len(lg),
         \A u \in 1..MaxTerm : u > t /\ L[u] # <<>> => Holds(L[u], t, i)
  PROVE  Holds(lh, t, i)
<1>1. /\ Len(lg) \in Nat /\ Len(lh) \in Nat /\ MaxTerm \in Nat
      /\ \A u \in 1..MaxTerm : L[u] \in Seq(Entry) /\ Len(L[u]) \in Nat
  BY LenProperties, RaftAssumption DEF Ledgers
<1>2. i \in 1..Len(lg) /\ lg[i].term = t BY DEF Holds
<1> DEFINE u == LastTerm(lg)
<1>3. u = lg[Len(lg)].term /\ Len(lg) \in 1..Len(lg) BY <1>1, <1>2 DEF LastTerm
<1>4. u \in 1..MaxTerm /\ Len(lg) <= Len(L[u]) /\ \A j \in 1..Len(lg) : lg[j] = L[u][j]
  BY <1>3 DEF Rooted
<1>5. t <= u
  <2>1. i \in 1..Len(L[u]) /\ L[u][i].term = t BY <1>1, <1>2, <1>4
  <2> QED BY <1>4, <2>1 DEF InOrder
<1> DEFINE v == LastTerm(lh)
<1> HIDE DEF u
<1>6. v > u \/ (v = u /\ Len(lh) >= Len(lg)) BY DEF u
<1>7. lh # <<>> BY <1>4, <1>6 DEF LastTerm
<1>8. Len(lh) \in 1..Len(lh) /\ v = lh[Len(lh)].term
  <2>1. Len(lh) # 0 BY <1>7, EmptySeq
  <2> QED BY <1>1, <1>7, <2>1 DEF LastTerm
<1>9. v \in 1..MaxTerm /\ Len(lh) <= Len(L[v]) /\ \A j \in 1..Len(lh) : lh[j] = L[v][j]
  BY <1>8 DEF Rooted
<1> HIDE DEF v
<1>10. CASE v > t
  <2>1. L[v] # <<>>
    <3>1. Len(L[v]) # 0 BY <1>1, <1>8, <1>9
    <3> QED BY <3>1, EmptySeq
  <2>2. i \in 1..Len(L[v]) /\ L[v][i].term = t BY <1>9, <1>10, <2>1 DEF Holds
  <2>3. i <= Len(lh)
    <3> SUFFICES ASSUME i > Len(lh) PROVE FALSE BY <1>1, <1>2
    <3>1. Len(lh) \in 1..i BY <1>1, <1>2, <1>8
    <3>2. L[v][Len(lh)] = L[t][Len(lh)] /\ i <= Len(L[t]) BY <1>9, <2>2, <3>1 DEF Rooted
    <3>3. Len(lh) \in 1..Len(L[t]) BY <1>1, <1>2, <3>1, <3>2
    <3>4. L[t][Len(lh)].term <= t BY <3>3 DEF InOrder
    <3>5. L[t][Len(lh)].term = v BY <1>8, <1>9, <3>2
    <3> QED BY <1>9, <1>10, <3>4, <3>5
  <2> QED BY <1>1, <1>2, <1>9, <2>2, <2>3 DEF Holds
<1>11. CASE v = t
  <2>1. u = t /\ Len(lh) >= Len(lg) BY <1>4, <1>5, <1>6, <1>9, <1>11
  <2>2. i \in 1..Len(lh) BY <1>1, <1>2, <2>1
  <2>3. lh[i] = L[t][i] BY <1>9, <1>11, <2>2
  <2> QED BY <2>2, <2>3 DEF Holds
<1> QED BY <1>4, <1>5, <1>6, <1>9, <1>10, <1>11

(* A step acknowledges entries of the terms its nodes are in.               *)
AckStep ==
  /\ acks \subseteq acks'
  /\ \A a \in acks' : \/ a \in acks
                      \/ /\ a[1] \in 1..MaxTerm /\ a[1] = current_term'[a[2]]
                         /\ Holds(ledger'[a[1]], a[1], a[3]) /\ Holds(log'[a[2]], a[1], a[3])

LEMMA StoresAcks ==
  ASSUME LedgerInv, TypeOK', NEW n \in Node, NEW i \in DOMAIN inbox[n], Stores(n, inbox[n][i])
  PROVE  AckStep
<1> DEFINE t == inbox[n][i].term
           k == Matched(inbox[n][i])
<1>1. /\ t \in 1..MaxTerm /\ k \in Nat /\ k <= Len(ledger[t]) /\ ledger' = ledger
      /\ current_term' = [current_term EXCEPT ![n] = t]
      /\ acks' = acks \cup Acknowledged(n, t, log'[n], k)
      /\ Follows(log'[n], log[n], k, ledger[t])
  BY StoresFollow
<1>2. TypeOK /\ current_term'[n] = t BY <1>1 DEF LedgerInv, ElectionInv, TypeOK
<1>3. Len(log'[n]) \in Nat /\ Len(ledger[t]) \in Nat BY <1>1, <1>2, LogTypes, LenProperties DEF TypeOK
<1> HIDE DEF t, k
<1> SUFFICES ASSUME NEW a \in Acknowledged(n, t, log'[n], k)
             PROVE  /\ a[1] \in 1..MaxTerm /\ a[1] = current_term'[a[2]]
                    /\ Holds(ledger'[a[1]], a[1], a[3]) /\ Holds(log'[a[2]], a[1], a[3])
  BY <1>1 DEF AckStep
<1>4. PICK j \in 1..k : a = <<t, n, j>> /\ log'[n][j].term = t BY DEF Acknowledged
<1>5. k <= Len(log'[n]) /\ log'[n][j] = ledger[t][j] BY <1>1 DEF Follows
<1>6. j \in 1..Len(log'[n]) /\ j \in 1..Len(ledger[t]) BY <1>1, <1>3, <1>5
<1> QED BY <1>1, <1>2, <1>4, <1>5, <1>6 DEF Holds

LEMMA WritesAcks ==
  ASSUME LedgerInv, TypeOK', NEW n \in Node, Writes(n)
  PROVE  AckStep
<1> DEFINE T == current_term[n]
           k == Len(log[n]) + 1
<1>1. TypeOK BY DEF LedgerInv, ElectionInv
<1>2. T \in 1..MaxTerm /\ acks' = acks \cup {<<T, n, k>>} /\ current_term' = current_term
  BY WritesAppends
<1>3. PICK e \in Entry : /\ e.term = T
                         /\ log' = [log EXCEPT ![n] = Append(log[n], e)]
                         /\ ledger' = [ledger EXCEPT ![T] = Append(log[n], e)]
  BY WritesAppends
<1>4. log'[n] = Append(log[n], e) /\ ledger'[T] = Append(log[n], e)
  BY <1>1, <1>2, <1>3 DEF TypeOK
<1>5. log[n] \in Seq(Entry) /\ Len(log[n]) \in Nat BY <1>1, LogTypes
<1>6. Len(Append(log[n], e)) = k /\ Append(log[n], e)[k] = e BY <1>5, AppendProperties
<1>7. Holds(log'[n], T, k) /\ Holds(ledger'[T], T, k) BY <1>3, <1>4, <1>5, <1>6 DEF Holds
<1> HIDE DEF T, k
<1>8. \A a \in acks' : a \in acks \/ a = <<T, n, k>> BY <1>2
<1> QED BY <1>2, <1>7, <1>8 DEF AckStep, T

LEMMA StepAcks ==
  ASSUME LedgerInv, TypeOK', Step
  PROVE  AckStep
<1>1. CASE acks' = acks BY <1>1 DEF AckStep
<1>2. CASE Moves BY <1>1, <1>2 DEF Moves, logVars
<1>3. ASSUME NEW n \in Node, Stands(n) PROVE AckStep BY <1>1, <1>3 DEF Stands, logVars
<1>4. ASSUME NEW n \in Node, Wins(n) PROVE AckStep BY <1>1, <1>4 DEF Wins
<1>5. ASSUME NEW n \in Node, NEW i \in DOMAIN inbox[n],
             Grants(n, inbox[n][i]) \/ Counts(n, inbox[n][i])
      PROVE  AckStep
  <2>1. acks' = acks BY <1>5 DEF Grants, Counts, logVars
  <2> QED BY <1>1, <2>1
<1> QED BY <1>2, <1>3, <1>4, <1>5, StoresAcks, WritesAcks DEF Step

LEMMA AcksOwnNext ==
  ASSUME AckInv, LedgerInv', Grown(ledger, ledger'), OfficeStep, AckStep
  PROVE  AcksAreOwn'
<1>1. /\ TypeOK /\ TypeOK' /\ ledger \in Ledgers /\ ledger' \in Ledgers
      /\ acks \subseteq Nat \X Node \X Nat /\ acks' \subseteq Nat \X Node \X Nat
      /\ current_term \in [Node -> Nat] /\ current_term' \in [Node -> Nat]
  BY DEF AckInv, LedgerInv, ElectionInv, TypeOK, Ledgers
<1> SUFFICES ASSUME NEW a \in acks'
             PROVE  /\ a[1] \in 1..MaxTerm /\ Holds(ledger'[a[1]], a[1], a[3])
                    /\ a[1] <= current_term'[a[2]]
  BY DEF AcksAreOwn, Own
<1>2. a[1] \in Nat /\ a[2] \in Node BY <1>1
<1>3. current_term[a[2]] \in Nat /\ current_term'[a[2]] \in Nat BY <1>1, <1>2
<1>4. CASE a \in acks
  <2>1. a[1] \in 1..MaxTerm /\ Holds(ledger[a[1]], a[1], a[3]) /\ a[1] <= current_term[a[2]]
    BY <1>4 DEF AckInv, AcksAreOwn, Own
  <2>2. Holds(ledger'[a[1]], a[1], a[3]) BY <1>1, <2>1, LedgerHoldsGrows
  <2>3. current_term'[a[2]] >= current_term[a[2]] BY <1>2 DEF OfficeStep
  <2> QED BY <1>2, <1>3, <2>1, <2>2, <2>3
<1>5. CASE a \notin acks BY <1>3, <1>5 DEF AckStep
<1> QED BY <1>4, <1>5

LEMMA DeadStays ==
  ASSUME AckInv, TypeOK', OfficeStep, AckStep, NEW t \in Nat, NEW i, Dead(t, i)
  PROVE  Dead(t, i)'
<1>1. current_term \in [Node -> Nat] /\ current_term' \in [Node -> Nat]
  BY DEF AckInv, LedgerInv, ElectionInv, TypeOK
<1>2. PICK Q \in SUBSET Node :
        IsMajority(Q) /\ \A q \in Q : current_term[q] > t /\ <<t, q, i>> \notin acks
  BY DEF Dead
<1>3. ASSUME NEW q \in Q PROVE current_term'[q] > t /\ <<t, q, i>> \notin acks'
  <2>0. q \in Node /\ current_term[q] > t /\ <<t, q, i>> \notin acks BY <1>2
  <2>1. /\ current_term[q] \in Nat /\ current_term'[q] \in Nat
        /\ current_term'[q] >= current_term[q]
    BY <1>1, <2>0 DEF OfficeStep
  <2>2. current_term'[q] > t BY <2>0, <2>1
  <2>3. <<t, q, i>> \in acks' => <<t, q, i>> \in acks \/ t = current_term'[q] BY DEF AckStep
  <2> QED BY <2>0, <2>1, <2>2, <2>3
<1> QED BY <1>2, <1>3 DEF Dead

LEMMA RequestsNext ==
  ASSUME AckInv, LedgerInv', OfficeStep, Sends
  PROVE  RequestsShowLogs'
<1>1. /\ TypeOK /\ TypeOK' /\ OfficeInv
      /\ current_term \in [Node -> Nat] /\ current_term' \in [Node -> Nat]
  BY DEF AckInv, LedgerInv, ElectionInv, TypeOK
<1> SUFFICES ASSUME NEW p \in Node, NEW i \in DOMAIN inbox'[p],
                    inbox'[p][i].type = "request_vote",
                    state'[inbox'[p][i].from] = "candidate",
                    inbox'[p][i].term = current_term'[inbox'[p][i].from]
             PROVE  /\ inbox'[p][i].last_log_index = Len(log'[inbox'[p][i].from])
                    /\ inbox'[p][i].last_log_term = LastTerm(log'[inbox'[p][i].from])
  BY DEF RequestsShowLogs
<1>2. CASE \E j \in DOMAIN inbox[p] : inbox'[p][i] = inbox[p][j]
  <2>1. PICK j \in DOMAIN inbox[p] : inbox'[p][i] = inbox[p][j] BY <1>2
  <2> DEFINE m == inbox[p][j]
  <2>2. m.from \in Node /\ m.term \in Nat /\ m.term <= current_term[m.from]
    BY <1>1, MessageFacts DEF OfficeInv, MessagesAreSent
  <2>3. state'[m.from] = "candidate" /\ m.term = current_term'[m.from] BY <2>1
  <2>4. state[m.from] = "candidate" /\ m.term = current_term[m.from] /\ log'[m.from] = log[m.from]
    <3> DEFINE c == m.from
    <3>1. c \in Node /\ current_term[c] \in Nat /\ m.term \in Nat /\ m.term <= current_term[c]
          /\ state'[c] = "candidate" /\ m.term = current_term'[c]
      BY <1>1, <2>2, <2>3
    <3> HIDE DEF m, c
    <3>2. \/ current_term'[c] = current_term[c] + 1
          \/ state[c] = "candidate" /\ current_term'[c] = current_term[c] /\ log'[c] = log[c]
      BY <3>1 DEF OfficeStep
    <3>3. state[c] = "candidate" /\ m.term = current_term[c] /\ log'[c] = log[c] BY <3>1, <3>2
    <3> QED BY <3>3 DEF c
  <2> QED BY <2>1, <2>4 DEF AckInv, RequestsShowLogs
<1>3. CASE \E n \in Node : SentTo(p, n, inbox'[p][i])
  <2>1. PICK n \in Node : SentTo(p, n, inbox'[p][i]) BY <1>3
  <2> QED BY <2>1 DEF SentTo
<1> QED BY <1>2, <1>3 DEF Sends

(* One kind of step after the other: an own entry that is kept stays kept,  *)
(* or dies.                                                                *)
LEMMA QuietKeeps ==
  ASSUME AckInv, OfficeStep, UNCHANGED <<log, ledger, acks, ballots, elected>>,
         \A p \in Node : state'[p] = "candidate" =>
           state[p] = "candidate" /\ current_term'[p] = current_term[p],
         NEW t, NEW i, Kept(t, i)
  PROVE  Kept(t, i)'
<1>1. HoldersKeep(t, i)' BY DEF Kept, HoldersKeep
<1>2. WinnersKeep(t, i)' BY DEF Kept, WinnersKeep, Won
<1>3. CandidatesKeep(t, i)' BY DEF Kept, CandidatesKeep
<1> QED BY <1>1, <1>2, <1>3 DEF Kept

LEMMA StandsKeeps ==
  ASSUME AckInv, NEW n \in Node, Stands(n), NEW t \in 1..MaxTerm, NEW i, Kept(t, i)
  PROVE  Kept(t, i)'
<1>1. /\ current_term \in [Node -> Nat] /\ state \in [Node -> {"follower", "candidate", "leader"}]
      /\ ballots \subseteq Nat \X Node \X Node
  BY DEF AckInv, LedgerInv, ElectionInv, TypeOK
<1>2. /\ current_term' = [current_term EXCEPT ![n] = current_term[n] + 1]
      /\ state' = [state EXCEPT ![n] = "candidate"]
      /\ ballots' = ballots \cup {<<current_term[n] + 1, n, n>>}
      /\ UNCHANGED <<elected, log, ledger, acks>>
  BY DEF Stands, logVars
<1>3. HoldersKeep(t, i)' BY <1>2 DEF Kept, HoldersKeep
<1>4. WinnersKeep(t, i)' BY <1>2 DEF Kept, WinnersKeep, Won
<1>5. CandidatesKeep(t, i)'
  <2> SUFFICES ASSUME NEW c \in Node, state'[c] = "candidate", current_term'[c] > t, NEW q \in Node,
                      <<current_term'[c], q, c>> \in ballots', <<t, q, i>> \in acks
               PROVE  Holds(log[c], t, i)
    BY <1>2 DEF CandidatesKeep
  <2>1. CASE c = n
    <3>1. <<current_term[n] + 1, q, n>> \notin ballots
      <4> SUFFICES ASSUME <<current_term[n] + 1, q, n>> \in ballots PROVE FALSE OBVIOUS
      <4>1. current_term[n] + 1 <= current_term[n]
        BY DEF AckInv, LedgerInv, OfficeInv, VotesFollow
      <4>2. current_term[n] \in Nat BY <1>1
      <4> QED BY <4>1, <4>2
    <3>2. q = n BY <1>1, <1>2, <2>1, <3>1
    <3> QED BY <2>1, <3>2 DEF Kept, HoldersKeep
  <2>2. CASE c # n
    <3>1. state[c] = "candidate" /\ current_term'[c] = current_term[c] BY <1>1, <1>2, <2>2
    <3>2. <<current_term[c], q, c>> \in ballots BY <1>2, <2>2, <3>1
    <3> QED BY <3>1, <3>2 DEF Kept, CandidatesKeep
  <2> QED BY <2>1, <2>2
<1> QED BY <1>3, <1>4, <1>5 DEF Kept

(* A vote: the voter holds the entry, and the candidate's log is at least   *)
(* as up to date.                                                          *)
LEMMA GrantsKeeps ==
  ASSUME AckInv, NEW n \in Node, NEW k \in DOMAIN inbox[n], Grants(n, inbox[n][k]),
         NEW t \in 1..MaxTerm, NEW i, Own(t, i), Kept(t, i)
  PROVE  Kept(t, i)'
<1> DEFINE m == inbox[n][k]
<1>1. /\ current_term \in [Node -> Nat] /\ state \in [Node -> {"follower", "candidate", "leader"}]
      /\ TypeOK /\ LedgerInv /\ LogsInv
  BY DEF AckInv, LedgerInv, ElectionInv, TypeOK
<1>2. /\ m.type = "request_vote" /\ m.term >= current_term[n] /\ LogIsUpToDate(n, m)
      /\ current_term' = [current_term EXCEPT ![n] = m.term]
      /\ state' = [state EXCEPT ![n] = IF m.term > current_term[n] THEN "follower" ELSE @]
      /\ ballots' = ballots \cup {<<m.term, n, m.from>>}
      /\ UNCHANGED <<elected, log, ledger, acks>>
  BY DEF Grants, logVars
<1>3. m.from \in Node /\ m.term \in Nat BY <1>1, MessageFacts
<1>4. HoldersKeep(t, i)' BY <1>2 DEF Kept, HoldersKeep
<1>5. WinnersKeep(t, i)' BY <1>2 DEF Kept, WinnersKeep, Won
<1>6. CandidatesKeep(t, i)'
  <2> SUFFICES ASSUME NEW c \in Node, state'[c] = "candidate", current_term'[c] > t, NEW q \in Node,
                      <<current_term'[c], q, c>> \in ballots', <<t, q, i>> \in acks
               PROVE  Holds(log[c], t, i)
    BY <1>2 DEF CandidatesKeep
  <2>1. state[c] = "candidate" /\ current_term'[c] = current_term[c]
    <3>1. CASE c # n BY <1>1, <1>2, <3>1
    <3>2. CASE c = n
      <4>1. current_term[n] \in Nat BY <1>1
      <4>2. state'[n] = IF m.term > current_term[n] THEN "follower" ELSE state[n] BY <1>1, <1>2
      <4> QED BY <1>1, <1>2, <1>3, <3>2, <4>1, <4>2
    <3> QED BY <3>1, <3>2
  <2>2. CASE <<current_term[c], q, c>> \in ballots
    BY <2>1, <2>2 DEF Kept, CandidatesKeep
  <2>3. CASE <<current_term[c], q, c>> \notin ballots
    <3>1. m.term = current_term[c] /\ q = n /\ m.from = c BY <1>2, <2>1, <2>3
    <3>2. m.last_log_index = Len(log[c]) /\ m.last_log_term = LastTerm(log[c])
      BY <1>2, <2>1, <3>1 DEF AckInv, RequestsShowLogs
    <3> DEFINE lg == log[n]
               lh == log[c]
    <3>3. \/ LastTerm(lh) > LastTerm(lg)
          \/ LastTerm(lh) = LastTerm(lg) /\ Len(lh) >= Len(lg)
      BY <1>2, <3>2 DEF LogIsUpToDate
    <3>4. Holds(lg, t, i) BY <3>1 DEF Kept, HoldersKeep
    <3>5. lg \in Seq(Entry) /\ lh \in Seq(Entry) /\ Rooted(lg, ledger) /\ Rooted(lh, ledger)
      BY <1>1, LogTypes DEF LogsInv, LogsAreRooted
    <3>6. /\ ledger \in Ledgers /\ InOrder(ledger) /\ \A u \in 1..MaxTerm : Rooted(ledger[u], ledger)
      BY <1>1, LogTypes DEF LogsInv, LedgersAreRooted, TermsInOrder, InOrder
    <3>7. \A u \in 1..MaxTerm : u > t /\ ledger[u] # <<>> => Holds(ledger[u], t, i)
      BY <1>1 DEF LogsInv, LedgersAreWon, Kept, WinnersKeep
    <3>8. Holds(ledger[t], t, i) BY DEF Own
    <3> HIDE DEF lg, lh
    <3>9. Holds(lh, t, i)
      BY <3>3, <3>4, <3>5, <3>6, <3>7, <3>8, UpToDateHolds
    <3> QED BY <3>9 DEF lh
  <2> QED BY <2>2, <2>3
<1> QED BY <1>4, <1>5, <1>6 DEF Kept

(* A victory: one of the voters acknowledged the entry, or a majority did   *)
(* not and is past its term.                                               *)
LEMMA WinsKeeps ==
  ASSUME AckInv, LedgerInv', NEW n \in Node, Wins(n),
         NEW t \in 1..MaxTerm, NEW i, Kept(t, i)
  PROVE  Dead(t, i)' \/ Kept(t, i)'
<1> DEFINE T == current_term[n]
<1>1. /\ LedgerInv /\ ElectionInv' /\ OfficeInv' /\ TypeOK
      /\ state \in [Node -> {"follower", "candidate", "leader"}]
      /\ current_term \in [Node -> Nat] /\ MaxTerm \in Nat
  BY RaftAssumption DEF AckInv, LedgerInv, ElectionInv, TypeOK
<1>2. /\ state[n] = "candidate" /\ state' = [state EXCEPT ![n] = "leader"]
      /\ elected' = elected \cup {<<T, n>>}
      /\ UNCHANGED <<current_term, ballots, log, acks>>
  BY DEF Wins
<1>3. /\ T \in 1..MaxTerm /\ ledger'[T] = log[n]
      /\ \A u \in 1..MaxTerm : u # T => ledger'[u] = ledger[u]
      /\ \A u \in 1..MaxTerm : Won(u)' <=> (Won(u) \/ u = T)
  BY <1>1, WinsOpens
<1> HIDE DEF T
<1>4. HoldersKeep(t, i)' BY <1>2 DEF Kept, HoldersKeep
<1>5. CandidatesKeep(t, i)' BY <1>1, <1>2 DEF Kept, CandidatesKeep
<1>6. Dead(t, i)' \/ (T > t => Holds(log[n], t, i))
  <2> SUFFICES ASSUME T > t, ~Holds(log[n], t, i) PROVE Dead(t, i)' OBVIOUS
  <2>1. PICK Q \in SUBSET Node : IsMajority(Q) /\ \A v \in Q : <<T, v, n>> \in ballots
    <3>1. <<T, n>> \in elected' BY <1>2
    <3>2. VictoriesHaveMajorities' BY <1>1 DEF ElectionInv
    <3> QED BY <1>2, <3>1, <3>2 DEF VictoriesHaveMajorities
  <2>2. ASSUME NEW q \in Q PROVE current_term'[q] > t /\ <<t, q, i>> \notin acks'
    <3>1. q \in Node /\ <<T, q, n>> \in ballots BY <2>1
    <3>2. T <= current_term[q] BY <1>1, <3>1 DEF LedgerInv, ElectionInv, VotesAreRemembered
    <3>3. current_term[q] \in Nat /\ T \in Nat BY <1>1, <1>3, <3>1
    <3>4. <<t, q, i>> \notin acks BY <1>2, <3>1 DEF Kept, CandidatesKeep, T
    <3> QED BY <1>2, <3>2, <3>3, <3>4
  <2> QED BY <2>1, <2>2 DEF Dead
<1>7. (T > t => Holds(log[n], t, i)) => WinnersKeep(t, i)'
  BY <1>3 DEF Kept, WinnersKeep
<1> QED BY <1>4, <1>5, <1>6, <1>7 DEF Kept

LEMMA WritesKeeps ==
  ASSUME AckInv, LedgerInv', NEW n \in Node, Writes(n),
         NEW t \in 1..MaxTerm, NEW i, Own(t, i), Kept(t, i)
  PROVE  Kept(t, i)'
<1> DEFINE T == current_term[n]
           k == Len(log[n]) + 1
<1>1. /\ LedgerInv /\ TypeOK /\ TypeOK' /\ log \in [Node -> Seq(Entry)]
      /\ ledger \in Ledgers /\ ledger' \in Ledgers
  BY DEF AckInv, LedgerInv, ElectionInv, TypeOK, Ledgers
<1>2. /\ T \in 1..MaxTerm /\ log[n] = ledger[T] /\ acks' = acks \cup {<<T, n, k>>}
      /\ Grown(ledger, ledger') /\ UNCHANGED <<state, current_term, elected, ballots>>
  BY <1>1, WritesAppends
<1>3. PICK e \in Entry : log' = [log EXCEPT ![n] = Append(log[n], e)]
  BY <1>1, WritesAppends
<1>4. log[n] \in Seq(Entry) /\ Len(log[n]) \in Nat BY <1>1, LogTypes
<1>5. ASSUME NEW q \in Node, Holds(log[q], t, i) PROVE Holds(log'[q], t, i)
  <2>1. CASE q # n BY <1>1, <1>3, <1>5, <2>1
  <2>2. CASE q = n
    <3> DEFINE lg == log[n]
    <3>1. lg \in Seq(Entry) /\ Len(lg) \in Nat /\ Holds(lg, t, i) BY <1>4, <1>5, <2>2
    <3>2. log'[n] = Append(lg, e) BY <1>1, <1>3
    <3> HIDE DEF lg
    <3>3. /\ Append(lg, e) \in Seq(Entry) /\ Len(Append(lg, e)) = Len(lg) + 1
          /\ \A j \in 1..Len(lg) : Append(lg, e)[j] = lg[j]
      BY <3>1, AppendProperties
    <3> DEFINE lh == Append(lg, e)
    <3>4. lh \in Seq(Entry) /\ Len(lg) <= Len(lh) /\ \A j \in 1..Len(lg) : lh[j] = lg[j]
      BY <3>1, <3>3
    <3> HIDE DEF lh
    <3>5. Holds(lh, t, i) BY <3>1, <3>4, HoldsGrows
    <3> QED BY <2>2, <3>2, <3>5 DEF lh
  <2> QED BY <2>1, <2>2
<1>6. \A q \in Node : <<t, q, i>> \in acks' => <<t, q, i>> \in acks
  <2>1. <<T, n, k>> # <<t, n, i>>
    <3> SUFFICES ASSUME T = t, k = i PROVE FALSE OBVIOUS
    <3>1. i \in 1..Len(ledger[t]) BY DEF Own, Holds
    <3>2. Len(ledger[t]) = Len(log[n]) BY <1>2
    <3> HIDE DEF T
    <3> QED BY <1>4, <3>1, <3>2
  <2> QED BY <1>2, <2>1
<1> HIDE DEF T, k
<1>7. HoldersKeep(t, i)' BY <1>5, <1>6 DEF Kept, HoldersKeep
<1>8. WinnersKeep(t, i)'
  <2> SUFFICES ASSUME NEW u \in 1..MaxTerm, u > t, Won(u)' PROVE Holds(ledger'[u], t, i)
    BY DEF WinnersKeep
  <2>1. Won(u) BY <1>2 DEF Won
  <2>2. Holds(ledger[u], t, i) BY <2>1 DEF Kept, WinnersKeep
  <2> QED BY <1>1, <1>2, <2>2, LedgerHoldsGrows
<1>9. CandidatesKeep(t, i)' BY <1>2, <1>5, <1>6 DEF Kept, CandidatesKeep
<1> QED BY <1>7, <1>8, <1>9 DEF Kept

(* A follower stores: what it loses is nothing that the leader has.         *)
LEMMA StoresKeeps ==
  ASSUME AckInv, TypeOK', NEW n \in Node, NEW l \in DOMAIN inbox[n], Stores(n, inbox[n][l]),
         NEW t \in 1..MaxTerm, NEW i, Own(t, i), Kept(t, i)
  PROVE  Kept(t, i)'
<1> DEFINE T == inbox[n][l].term
           k == Matched(inbox[n][l])
<1>1. /\ LedgerInv /\ TypeOK /\ OfficeInv /\ ElectionInv /\ log \in [Node -> Seq(Entry)]
      /\ state \in [Node -> {"follower", "candidate", "leader"}]
      /\ current_term \in [Node -> Nat] /\ current_term' \in [Node -> Nat]
      /\ acks \subseteq Nat \X Node \X Nat
  BY DEF AckInv, LedgerInv, ElectionInv, TypeOK
<1>2. /\ T \in 1..MaxTerm /\ T >= current_term[n] /\ k \in Nat /\ k <= Len(ledger[T])
      /\ log' = [log EXCEPT ![n] = log'[n]] /\ UNCHANGED <<ledger, ballots, elected>>
      /\ current_term' = [current_term EXCEPT ![n] = T]
      /\ state' = [state EXCEPT ![n] = "follower"]
      /\ acks' = acks \cup Acknowledged(n, T, log'[n], k)
      /\ Follows(log'[n], log[n], k, ledger[T])
  BY <1>1, StoresFollow
<1>3. Won(T)
  <2>1. inbox[n][l].type = "append_entries" BY DEF Stores
  <2>2. <<T, inbox[n][l].from>> \in elected BY <1>1, <2>1 DEF OfficeInv, AppendsAreLeaders
  <2> QED BY <2>2 DEF Won
<1> HIDE DEF T, k
<1>4. \A p \in Node : p # n => log'[p] = log[p] /\ state'[p] = state[p]
                               /\ current_term'[p] = current_term[p]
  BY <1>1, <1>2
<1>5. state'[n] = "follower" BY <1>1, <1>2
<1>6. ASSUME NEW q \in Node, <<t, q, i>> \in acks', <<t, q, i>> \notin acks
      PROVE  /\ q = n /\ t = T /\ Holds(log'[n], t, i)
  <2>1. PICK j \in 1..k : <<t, q, i>> = <<T, n, j>> /\ log'[n][j].term = T
    BY <1>2, <1>6 DEF Acknowledged
  <2>2. Len(log'[n]) \in Nat /\ k <= Len(log'[n]) BY <1>2, LenProperties DEF Follows
  <2>3. j \in 1..Len(log'[n]) BY <1>2, <2>2
  <2> QED BY <2>1, <2>3 DEF Holds
<1>7. ASSUME <<t, n, i>> \in acks PROVE Holds(log'[n], t, i)
  <2>1. Holds(log[n], t, i) BY <1>7 DEF Kept, HoldersKeep
  <2>2. CASE log'[n] = log[n] BY <2>1, <2>2
  <2>3. CASE log'[n] # log[n]
    <3>1. t <= T
      <4>1. t <= current_term[n] BY <1>7 DEF AckInv, AcksAreOwn
      <4>2. current_term[n] \in Nat BY <1>1
      <4> QED BY <1>2, <4>1, <4>2
    <3>2. Holds(ledger[T], t, i)
      <4>1. CASE t = T BY <4>1 DEF Own
      <4>2. CASE t # T
        <5>1. T > t BY <1>2, <3>1, <4>2
        <5> QED BY <1>2, <1>3, <5>1 DEF Kept, WinnersKeep
      <4> QED BY <4>1, <4>2
    <3>3. /\ Len(log[n]) \in Nat /\ Len(ledger[T]) \in Nat BY <1>1, <1>2, LogTypes
    <3>4. i \in 1..Len(log[n]) /\ i \in 1..Len(ledger[T]) /\ log[n][i].term = ledger[T][i].term
      BY <2>1, <3>2 DEF Holds
    <3>5. i <= k /\ Len(log'[n]) = k BY <1>2, <2>3, <3>3, <3>4 DEF Follows
    <3>6. i \in 1..k BY <1>2, <3>3, <3>4, <3>5
    <3>7. log'[n][i] = ledger[T][i] BY <1>2, <3>6 DEF Follows
    <3> QED BY <3>2, <3>5, <3>6, <3>7 DEF Holds
  <2> QED BY <2>2, <2>3
<1>8. HoldersKeep(t, i)'
  <2> SUFFICES ASSUME NEW q \in Node, <<t, q, i>> \in acks' PROVE Holds(log'[q], t, i)
    BY DEF HoldersKeep
  <2>1. CASE <<t, q, i>> \notin acks BY <1>6, <2>1
  <2>2. CASE <<t, q, i>> \in acks /\ q = n BY <1>7, <2>2
  <2>3. CASE <<t, q, i>> \in acks /\ q # n BY <1>4, <2>3 DEF Kept, HoldersKeep
  <2> QED BY <2>1, <2>2, <2>3
<1>9. WinnersKeep(t, i)' BY <1>2 DEF Kept, WinnersKeep, Won
<1>10. CandidatesKeep(t, i)'
  <2> SUFFICES ASSUME NEW c \in Node, state'[c] = "candidate", current_term'[c] > t, NEW q \in Node,
                      <<current_term'[c], q, c>> \in ballots', <<t, q, i>> \in acks'
               PROVE  Holds(log'[c], t, i)
    BY DEF CandidatesKeep
  <2>1. c # n /\ log'[c] = log[c] /\ state[c] = "candidate" /\ current_term'[c] = current_term[c]
    BY <1>4, <1>5
  <2>2. <<current_term[c], q, c>> \in ballots BY <1>2, <2>1
  <2>3. <<t, q, i>> \in acks
    <3> SUFFICES ASSUME <<t, q, i>> \notin acks PROVE FALSE OBVIOUS
    <3>1. q = n /\ t = T BY <1>6
    <3>2. current_term[c] <= current_term[n]
      BY <1>1, <2>2, <3>1 DEF ElectionInv, VotesAreRemembered
    <3>3. current_term[c] \in Nat /\ current_term[n] \in Nat /\ current_term[c] > t BY <1>1, <2>1
    <3> QED BY <1>2, <3>1, <3>2, <3>3
  <2> QED BY <2>1, <2>2, <2>3 DEF Kept, CandidatesKeep
<1> QED BY <1>8, <1>9, <1>10 DEF Kept

(* An entry just written: its leader alone has acknowledged it, and if a    *)
(* later term has been won already, the voters of that term never will.    *)
LEMMA WritesOpens ==
  ASSUME AckInv, LedgerInv', NEW n \in Node, Writes(n),
         NEW t \in 1..MaxTerm, NEW i, Own(t, i)', ~Own(t, i)
  PROVE  Dead(t, i)' \/ Kept(t, i)'
<1> DEFINE T == current_term[n]
           k == Len(log[n]) + 1
<1>1. /\ LedgerInv /\ TypeOK /\ TypeOK' /\ log \in [Node -> Seq(Entry)] /\ ElectionInv
      /\ ledger \in [1..MaxTerm -> Seq(Entry)] /\ current_term \in [Node -> Nat]
      /\ acks \subseteq Nat \X Node \X Nat
  BY DEF AckInv, LedgerInv, ElectionInv, TypeOK
<1>2. /\ T \in 1..MaxTerm /\ log[n] = ledger[T] /\ acks' = acks \cup {<<T, n, k>>}
      /\ UNCHANGED <<state, current_term, elected, ballots>>
  BY <1>1, WritesAppends
<1>3. PICK e \in Entry : /\ e.term = T
                         /\ log' = [log EXCEPT ![n] = Append(log[n], e)]
                         /\ ledger' = [ledger EXCEPT ![T] = Append(log[n], e)]
  BY <1>1, WritesAppends
<1>4. log[n] \in Seq(Entry) /\ Len(log[n]) \in Nat BY <1>1, LogTypes
<1>5. /\ log'[n] = Append(log[n], e) /\ ledger'[T] = Append(log[n], e)
      /\ \A u \in 1..MaxTerm : u # T => ledger'[u] = ledger[u]
  BY <1>1, <1>2, <1>3
<1>6. /\ Len(Append(log[n], e)) = k /\ Append(log[n], e)[k] = e
      /\ \A j \in 1..Len(log[n]) : Append(log[n], e)[j] = log[n][j]
  BY <1>4, AppendProperties
<1>7. t = T /\ i = k
  <2>1. t = T BY <1>5 DEF Own
  <2>2. i \in 1..k /\ Append(log[n], e)[i].term = T BY <1>5, <1>6, <2>1 DEF Own, Holds
  <2>3. i \notin 1..Len(log[n])
    <3> SUFFICES ASSUME i \in 1..Len(log[n]) PROVE FALSE OBVIOUS
    <3>1. log[n][i].term = T BY <1>6, <2>2
    <3>2. i \in 1..Len(ledger[T]) /\ ledger[T][i].term = T BY <1>2, <3>1
    <3> QED BY <2>1, <3>2 DEF Own, Holds
  <2> QED BY <1>4, <2>1, <2>2, <2>3
<1>8. Holds(log'[n], t, i) BY <1>3, <1>4, <1>5, <1>6, <1>7 DEF Holds
<1> HIDE DEF T, k
<1>9. \A q \in Node : <<t, q, i>> \in acks' => q = n
  <2>1. \A q \in Node : <<t, q, i>> \notin acks BY DEF AckInv, AcksAreOwn
  <2> QED BY <1>2, <2>1
<1>10. CASE \E u \in 1..MaxTerm : u > t /\ Won(u)
  <2>1. PICK u \in 1..MaxTerm : u > t /\ Won(u) BY <1>10
  <2>2. PICK w \in elected : w[1] = u BY <2>1 DEF Won
  <2>3. PICK Q \in SUBSET Node : IsMajority(Q) /\ \A v \in Q : <<u, v, w[2]>> \in ballots
    BY <1>1, <2>2 DEF ElectionInv, VictoriesHaveMajorities
  <2>4. ASSUME NEW q \in Q PROVE current_term'[q] > t /\ <<t, q, i>> \notin acks'
    <3>1. q \in Node /\ <<u, q, w[2]>> \in ballots BY <2>3
    <3>2. u <= current_term[q] BY <1>1, <3>1 DEF ElectionInv, VotesAreRemembered
    <3>3. current_term[q] \in Nat BY <1>1, <3>1
    <3>4. current_term[q] > t BY <2>1, <3>2, <3>3
    <3>5. q # n BY <1>7, <3>3, <3>4 DEF T
    <3> QED BY <1>2, <1>9, <3>1, <3>4, <3>5
  <2>5. Dead(t, i)' BY <2>3, <2>4 DEF Dead
  <2> QED BY <2>5
<1>11. CASE ~\E u \in 1..MaxTerm : u > t /\ Won(u)
  <2>1. HoldersKeep(t, i)' BY <1>8, <1>9 DEF HoldersKeep
  <2>2. WinnersKeep(t, i)' BY <1>2, <1>11 DEF WinnersKeep, Won
  <2>3. CandidatesKeep(t, i)'
    <3> SUFFICES ASSUME NEW c \in Node, current_term[c] > t, NEW q \in Node,
                        <<current_term[c], q, c>> \in ballots, <<t, q, i>> \in acks'
                 PROVE  FALSE
      BY <1>2 DEF CandidatesKeep
    <3>1. current_term[c] <= current_term[n]
      BY <1>1, <1>9 DEF ElectionInv, VotesAreRemembered
    <3>2. current_term[c] \in Nat /\ current_term[n] \in Nat BY <1>1
    <3> QED BY <1>7, <3>1, <3>2 DEF T
  <2> QED BY <2>1, <2>2, <2>3 DEF Kept
<1> QED BY <1>10, <1>11

LEMMA OwnKeptNext ==
  ASSUME AckInv, LedgerInv', OfficeStep, AckStep, Step
  PROVE  OwnKept'
<1> SUFFICES ASSUME NEW t \in 1..MaxTerm, NEW i, Own(t, i)'
             PROVE  Dead(t, i)' \/ Kept(t, i)'
  BY DEF OwnKept
<1>1. TypeOK /\ TypeOK' /\ LedgerInv /\ t \in Nat
  BY DEF AckInv, LedgerInv, ElectionInv
<1>2. Own(t, i) => Dead(t, i) \/ Kept(t, i) BY DEF AckInv, OwnKept, Own, Holds
<1>3. Dead(t, i) => Dead(t, i)' BY <1>1, DeadStays
<1>4. ASSUME ledger' = ledger PROVE Own(t, i) BY <1>4 DEF Own
<1>5. CASE Moves
  <2>1. UNCHANGED <<log, ledger, acks, ballots, elected>> BY <1>5 DEF Moves, logVars
  <2>2. \A p \in Node : state'[p] = "candidate" =>
          state[p] = "candidate" /\ current_term'[p] = current_term[p]
    BY <1>5 DEF Moves
  <2> QED BY <1>2, <1>3, <1>4, <2>1, <2>2, QuietKeeps
<1>6. ASSUME NEW n \in Node, Stands(n) PROVE Dead(t, i)' \/ Kept(t, i)'
  <2>1. ledger' = ledger BY <1>6 DEF Stands, logVars
  <2> QED BY <1>2, <1>3, <1>4, <1>6, <2>1, StandsKeeps
<1>7. ASSUME NEW n \in Node, Writes(n) PROVE Dead(t, i)' \/ Kept(t, i)'
  BY <1>2, <1>3, <1>7, WritesKeeps, WritesOpens
<1>8. ASSUME NEW n \in Node, Wins(n) PROVE Dead(t, i)' \/ Kept(t, i)'
  <2> DEFINE T == current_term[n]
  <2>1. /\ T \in 1..MaxTerm /\ ledger[T] = <<>> /\ ledger'[T] = log[n]
        /\ \A u \in 1..MaxTerm : u # T => ledger'[u] = ledger[u]
    BY <1>1, <1>8, WinsOpens DEF LedgerInv
  <2>2. Own(t, i)
    <3>1. CASE t # T BY <2>1, <3>1 DEF Own
    <3>2. CASE t = T
      <4>1. i \in 1..Len(log[n]) /\ log[n][i].term = T BY <2>1, <3>2 DEF Own, Holds
      <4>2. Rooted(log[n], ledger) /\ Len(log[n]) \in Nat
        BY <1>1, LogTypes DEF LedgerInv, LogsInv, LogsAreRooted
      <4>3. i <= Len(ledger[T]) BY <4>1, <4>2 DEF Rooted
      <4>4. Len(ledger[T]) = 0 BY <2>1
      <4> QED BY <4>1, <4>2, <4>3, <4>4
    <3> QED BY <3>1, <3>2
  <2> QED BY <1>2, <1>3, <1>8, <2>2, WinsKeeps
<1>9. ASSUME NEW n \in Node, NEW l \in DOMAIN inbox[n], Grants(n, inbox[n][l])
      PROVE  Dead(t, i)' \/ Kept(t, i)'
  <2>1. ledger' = ledger BY <1>9 DEF Grants, logVars
  <2> QED BY <1>2, <1>3, <1>4, <1>9, <2>1, GrantsKeeps
<1>10. ASSUME NEW n \in Node, NEW l \in DOMAIN inbox[n], Stores(n, inbox[n][l])
       PROVE  Dead(t, i)' \/ Kept(t, i)'
  <2>1. ledger' = ledger BY <1>10 DEF Stores
  <2> QED BY <1>1, <1>2, <1>3, <1>4, <1>10, <2>1, StoresKeeps
<1>11. ASSUME NEW n \in Node, NEW l \in DOMAIN inbox[n], Counts(n, inbox[n][l])
       PROVE  Dead(t, i)' \/ Kept(t, i)'
  <2>1. UNCHANGED <<state, current_term, log, ledger, acks, ballots, elected>>
    BY <1>11 DEF Counts, logVars, electionVars
  <2> QED BY <1>2, <1>3, <1>4, <2>1, QuietKeeps
<1> QED BY <1>5, <1>6, <1>7, <1>8, <1>9, <1>10, <1>11 DEF Step

LEMMA AckInvInit == Init => AckInv
<1> SUFFICES ASSUME Init PROVE AckInv OBVIOUS
<1>1. LedgerInv BY LedgerInvInit
<1>2. acks = {} /\ ledger = [t \in 1..MaxTerm |-> <<>>] /\ \A n \in Node : inbox[n] = <<>>
  BY DEF Init, BusInit
<1>3. AcksAreOwn /\ RequestsShowLogs BY <1>2 DEF AcksAreOwn, RequestsShowLogs
<1>4. OwnKept BY <1>2 DEF OwnKept
<1> QED BY <1>1, <1>3, <1>4 DEF AckInv

LEMMA AckInvNext ==
  ASSUME AckInv, [Next]_vars
  PROVE  AckInv' /\ Step /\ Sends /\ OfficeStep /\ AckStep /\ Grown(ledger, ledger')
<1>1. LedgerInv BY DEF AckInv
<1>2. LedgerInv' /\ Step /\ Sends /\ OfficeStep /\ Grown(ledger, ledger') BY <1>1, LedgerInvNext
<1>3. AckStep BY <1>1, <1>2, StepAcks DEF LedgerInv, ElectionInv
<1>4. AcksAreOwn' BY <1>2, <1>3, AcksOwnNext
<1>5. RequestsShowLogs' BY <1>2, RequestsNext
<1>6. OwnKept' BY <1>2, <1>3, OwnKeptNext
<1> QED BY <1>2, <1>3, <1>4, <1>5, <1>6 DEF AckInv

(***************************************************************************)
(* Commits.  An own entry that a majority has acknowledged is chosen; it is *)
(* not dead, so every later ledger holds it and agrees with the ledger of   *)
(* its term up to it.  Until a step is tainted, what a node applies is what *)
(* some ledger holds up to a chosen entry.                                 *)
(***************************************************************************)

Chosen(L, A, t, i) == Holds(L[t], t, i) /\ IsMajority({q \in Node : <<t, q, i>> \in A})

(* p has acknowledged all of the own entries of t up to position k.         *)
AckedUpTo(L, A, t, p, k) ==
  k <= Len(L[t]) /\ \A i \in 1..k : Holds(L[t], t, i) => <<t, p, i>> \in A

(* An entry at k or later is chosen in a ledger of a term up to T, and the  *)
(* commands a are those of such a ledger.                                  *)
ChosenUpTo(L, A, T, k) ==
  \E t \in 1..MaxTerm : \E i \in 1..Len(L[t]) : t <= T /\ k <= i /\ Chosen(L, A, t, i)
ComeFrom(L, A, a, T) ==
  \E t \in 1..MaxTerm : \E i \in 1..Len(L[t]) :
    /\ t <= T /\ Len(a) <= i /\ Chosen(L, A, t, i)
    /\ \A j \in 1..Len(a) : a[j] = L[t][j].command

LeadersAck ==
  \A n \in Node : state[n] = "leader" =>
    AckedUpTo(ledger, acks, current_term[n], n, Len(ledger[current_term[n]]))

ResponsesAreAcks ==
  \A n \in Node : \A i \in DOMAIN inbox[n] :
    LET m == inbox[n][i]
    IN m.type = "append_response" /\ m.success =>
         m.term \in 1..MaxTerm /\ AckedUpTo(ledger, acks, m.term, m.from, m.match_index)

MatchesAreAcks ==
  \A n \in Node : state[n] = "leader" =>
    \A p \in Peers(n) : AckedUpTo(ledger, acks, current_term[n], p, match_index[n][p])

CommitsAreApplied == \A n \in Node : commit_index[n] <= Len(applied[n])

AppliedIsChosen ==
  \A n \in Node : applied[n] # <<>> => ComeFrom(ledger, acks, applied[n], current_term[n])

CommitsAreChosen ==
  \A n \in Node : \A i \in DOMAIN inbox[n] :
    LET m == inbox[n][i]
    IN m.type = "append_entries" /\ m.leader_commit > 0 =>
         ChosenUpTo(ledger, acks, m.term, m.leader_commit)

CommitInv ==
  /\ AckInv /\ LeadersAck /\ ResponsesAreAcks /\ CommitsAreApplied
  /\ tainted = {} => MatchesAreAcks /\ AppliedIsChosen /\ CommitsAreChosen

LEMMA ChosenIsKept ==
  ASSUME AckInv, NEW t \in 1..MaxTerm, NEW i, Chosen(ledger, acks, t, i)
  PROVE  Kept(t, i)
<1>1. ~Dead(t, i)
  <2> SUFFICES ASSUME NEW Q \in SUBSET Node, IsMajority(Q),
                      \A q \in Q : <<t, q, i>> \notin acks
               PROVE  FALSE
    BY DEF Dead
  <2> DEFINE A == {q \in Node : <<t, q, i>> \in acks}
  <2>1. A \in SUBSET Node /\ IsMajority(A) BY DEF Chosen
  <2>2. A \cap Q = {} OBVIOUS
  <2> HIDE DEF A
  <2> QED BY <2>1, <2>2, MajoritiesMeet
<1> QED BY <1>1 DEF AckInv, OwnKept, Chosen, Own, Holds

(* A ledger of a later term that was won agrees up to what is chosen.       *)
LEMMA ChosenAgrees ==
  ASSUME AckInv, NEW t \in 1..MaxTerm, NEW T \in 1..MaxTerm, t <= T, Won(T),
         NEW i, Chosen(ledger, acks, t, i)
  PROVE  /\ i \in 1..Len(ledger[T]) /\ i \in 1..Len(ledger[t])
         /\ \A j \in 1..i : ledger[T][j] = ledger[t][j]
<1>1. Own(t, i) BY DEF Chosen, Own
<1>2. CASE t = T BY <1>1, <1>2 DEF Own, Holds
<1>3. CASE t # T
  <2>1. T > t BY <1>3
  <2>2. Holds(ledger[T], t, i) BY <2>1, ChosenIsKept DEF Kept, WinnersKeep
  <2> DEFINE lg == ledger[T]
             lh == ledger[t]
  <2>3. Rooted(lg, ledger) /\ Rooted(lh, ledger) BY DEF AckInv, LedgerInv, LogsInv, LedgersAreRooted
  <2>4. i \in 1..Len(lg) /\ i \in 1..Len(lh) /\ lg[i].term = lh[i].term
    BY <1>1, <2>2 DEF Own, Holds
  <2> HIDE DEF lg, lh
  <2>5. \A j \in 1..i : lg[j] = lh[j] BY <2>3, <2>4 DEF Rooted
  <2> QED BY <2>4, <2>5 DEF lg, lh
<1> QED BY <1>2, <1>3

(* What a step adds to the own entries, and what it leaves.                 *)
LEMMA NewOwn ==
  ASSUME LedgerInv, LedgerInv', Step, NEW t \in 1..MaxTerm, NEW i, Own(t, i)', ~Own(t, i)
  PROVE  \E n \in Node : Writes(n) /\ t = current_term[n] /\ i = Len(log[n]) + 1
<1>1. TypeOK /\ TypeOK' BY DEF LedgerInv, ElectionInv
<1>2. ledger' # ledger BY DEF Own
<1>3. ASSUME NEW n \in Node, Writes(n)
      PROVE  Writes(n) /\ t = current_term[n] /\ i = Len(log[n]) + 1
  <2> DEFINE T == current_term[n]
             k == Len(log[n]) + 1
  <2>1. T \in 1..MaxTerm /\ log[n] = ledger[T] BY <1>1, <1>3, WritesAppends
  <2>2. PICK e \in Entry : e.term = T /\ ledger' = [ledger EXCEPT ![T] = Append(log[n], e)]
    BY <1>1, <1>3, WritesAppends
  <2>3. ledger \in [1..MaxTerm -> Seq(Entry)] BY <1>1 DEF TypeOK
  <2>4. /\ ledger'[T] = Append(log[n], e)
        /\ \A u \in 1..MaxTerm : u # T => ledger'[u] = ledger[u]
    BY <2>1, <2>2, <2>3
  <2>5. log[n] \in Seq(Entry) /\ Len(log[n]) \in Nat BY <1>1, LogTypes
  <2>6. /\ Len(Append(log[n], e)) = k /\ Append(log[n], e)[k] = e
        /\ \A j \in 1..Len(log[n]) : Append(log[n], e)[j] = log[n][j]
    BY <2>5, AppendProperties
  <2>7. t = T BY <2>4 DEF Own
  <2>8. i \in 1..k /\ Append(log[n], e)[i].term = T BY <2>4, <2>6, <2>7 DEF Own, Holds
  <2>9. i \notin 1..Len(log[n])
    <3> SUFFICES ASSUME i \in 1..Len(log[n]) PROVE FALSE OBVIOUS
    <3>1. log[n][i].term = T BY <2>6, <2>8
    <3>2. i \in 1..Len(ledger[T]) /\ ledger[T][i].term = T BY <2>1, <3>1
    <3> QED BY <2>7, <3>2 DEF Own, Holds
  <2> QED BY <1>3, <2>5, <2>7, <2>8, <2>9
<1>4. ASSUME NEW n \in Node, Wins(n) PROVE FALSE
  <2> DEFINE T == current_term[n]
  <2>1. /\ T \in 1..MaxTerm /\ ledger[T] = <<>> /\ ledger'[T] = log[n]
        /\ \A u \in 1..MaxTerm : u # T => ledger'[u] = ledger[u]
    BY <1>4, WinsOpens DEF LedgerInv
  <2>2. t = T BY <2>1 DEF Own
  <2>3. i \in 1..Len(log[n]) /\ log[n][i].term = T BY <2>1, <2>2 DEF Own, Holds
  <2>4. Rooted(log[n], ledger) /\ Len(log[n]) \in Nat
    BY <1>1, LogTypes DEF LedgerInv, LogsInv, LogsAreRooted
  <2>5. i <= Len(ledger[T]) BY <2>3, <2>4 DEF Rooted
  <2>6. Len(ledger[T]) = 0 BY <2>1
  <2> QED BY <2>3, <2>4, <2>5, <2>6
<1>5. ~Moves BY <1>2 DEF Moves, logVars
<1>6. \A n \in Node : ~Stands(n) BY <1>2 DEF Stands, logVars
<1>7. \A n \in Node : \A l \in DOMAIN inbox[n] : ~Grants(n, inbox[n][l])
  BY <1>2 DEF Grants, logVars
<1>8. \A n \in Node : \A l \in DOMAIN inbox[n] : ~Stores(n, inbox[n][l]) BY <1>2 DEF Stores
<1>9. \A n \in Node : \A l \in DOMAIN inbox[n] : ~Counts(n, inbox[n][l])
  BY <1>2 DEF Counts, logVars
<1> QED BY <1>3, <1>4, <1>5, <1>6, <1>7, <1>8, <1>9 DEF Step

(* Nothing that was acknowledged or chosen is lost.                         *)
LEMMA ChosenGrows ==
  ASSUME NEW L \in Ledgers, NEW K \in Ledgers, Grown(L, K), NEW A, NEW B, A \subseteq B
  PROVE  \A t \in 1..MaxTerm : \A i \in 1..Len(L[t]) :
           /\ i \in 1..Len(K[t]) /\ K[t][i] = L[t][i]
           /\ Holds(K[t], t, i) <=> Holds(L[t], t, i)
           /\ Chosen(L, A, t, i) => Chosen(K, B, t, i)
<1> SUFFICES ASSUME NEW t \in 1..MaxTerm, NEW i \in 1..Len(L[t])
             PROVE  /\ i \in 1..Len(K[t]) /\ K[t][i] = L[t][i]
                    /\ Holds(K[t], t, i) <=> Holds(L[t], t, i)
                    /\ Chosen(L, A, t, i) => Chosen(K, B, t, i)
  OBVIOUS
<1>1. L[t] \in Seq(Entry) /\ K[t] \in Seq(Entry) BY DEF Ledgers
<1>2. Len(L[t]) \in Nat /\ Len(K[t]) \in Nat /\ Len(L[t]) <= Len(K[t])
  BY <1>1, LenProperties DEF Grown
<1>3. i \in 1..Len(K[t]) /\ K[t][i] = L[t][i] BY <1>2 DEF Grown
<1>4. Holds(K[t], t, i) <=> Holds(L[t], t, i) BY <1>3 DEF Holds
<1>5. ASSUME Chosen(L, A, t, i) PROVE Chosen(K, B, t, i)
  <2> DEFINE S == {q \in Node : <<t, q, i>> \in A}
             T == {q \in Node : <<t, q, i>> \in B}
  <2>1. S \subseteq T /\ T \subseteq Node OBVIOUS
  <2>2. Cardinality(S) >= Cardinality(Node) \div 2 + 1 BY <1>5 DEF Chosen, IsMajority
  <2> HIDE DEF S, T
  <2>3. IsFiniteSet(Node) /\ IsFiniteSet(T) BY <2>1, BusAssumption, FS_Subset
  <2>4. Cardinality(S) <= Cardinality(T) /\ IsFiniteSet(S) BY <2>1, <2>3, FS_Subset
  <2>5. Cardinality(S) \in Nat /\ Cardinality(T) \in Nat /\ Cardinality(Node) \in Nat
    BY <2>3, <2>4, FS_CardinalityType
  <2>6. Cardinality(T) >= Cardinality(Node) \div 2 + 1 BY <2>2, <2>4, <2>5
  <2> QED BY <1>4, <1>5, <2>6 DEF Chosen, IsMajority, T
<1> QED BY <1>3, <1>4, <1>5

LEMMA AckedGrows ==
  ASSUME NEW L \in Ledgers, NEW K \in Ledgers, Grown(L, K), NEW A, NEW B, A \subseteq B,
         NEW t \in 1..MaxTerm, NEW p, NEW k \in Nat, AckedUpTo(L, A, t, p, k)
  PROVE  AckedUpTo(K, B, t, p, k)
<1>1. L[t] \in Seq(Entry) /\ K[t] \in Seq(Entry) BY DEF Ledgers
<1>2. Len(L[t]) \in Nat /\ Len(K[t]) \in Nat /\ Len(L[t]) <= Len(K[t])
  BY <1>1, LenProperties DEF Grown
<1>3. k <= Len(L[t]) /\ \A i \in 1..k : Holds(L[t], t, i) => <<t, p, i>> \in A BY DEF AckedUpTo
<1>4. \A i \in 1..k : i \in 1..Len(L[t]) BY <1>2, <1>3
<1>5. \A i \in 1..k : Holds(K[t], t, i) => <<t, p, i>> \in B BY <1>3, <1>4, ChosenGrows
<1> QED BY <1>2, <1>3, <1>5 DEF AckedUpTo

LEMMA ComesGrow ==
  ASSUME NEW L \in Ledgers, NEW K \in Ledgers, Grown(L, K), NEW A, NEW B, A \subseteq B,
         NEW T \in Nat, NEW U \in Nat, T <= U
  PROVE  /\ \A k : ChosenUpTo(L, A, T, k) => ChosenUpTo(K, B, U, k)
         /\ \A a \in Seq(Command) : ComeFrom(L, A, a, T) => ComeFrom(K, B, a, U)
<1>1. \A t \in 1..MaxTerm : \A i \in 1..Len(L[t]) :
        /\ i \in 1..Len(K[t]) /\ K[t][i] = L[t][i]
        /\ Holds(K[t], t, i) <=> Holds(L[t], t, i)
        /\ Chosen(L, A, t, i) => Chosen(K, B, t, i)
  BY ChosenGrows
<1>2. ASSUME NEW k, ChosenUpTo(L, A, T, k) PROVE ChosenUpTo(K, B, U, k)
  <2>1. PICK t \in 1..MaxTerm : \E i \in 1..Len(L[t]) : t <= T /\ k <= i /\ Chosen(L, A, t, i)
    BY <1>2 DEF ChosenUpTo
  <2>2. PICK i \in 1..Len(L[t]) : t <= T /\ k <= i /\ Chosen(L, A, t, i) BY <2>1
  <2>3. i \in 1..Len(K[t]) /\ Chosen(K, B, t, i) /\ t <= U BY <1>1, <2>2
  <2> QED BY <2>2, <2>3 DEF ChosenUpTo
<1>3. ASSUME NEW a \in Seq(Command), ComeFrom(L, A, a, T) PROVE ComeFrom(K, B, a, U)
  <2>1. PICK t \in 1..MaxTerm : \E i \in 1..Len(L[t]) :
          /\ t <= T /\ Len(a) <= i /\ Chosen(L, A, t, i)
          /\ \A j \in 1..Len(a) : a[j] = L[t][j].command
    BY <1>3 DEF ComeFrom
  <2>2. PICK i \in 1..Len(L[t]) :
          /\ t <= T /\ Len(a) <= i /\ Chosen(L, A, t, i)
          /\ \A j \in 1..Len(a) : a[j] = L[t][j].command
    BY <2>1
  <2>3. i \in 1..Len(K[t]) /\ Chosen(K, B, t, i) /\ t <= U BY <1>1, <2>2
  <2>4. L[t] \in Seq(Entry) BY DEF Ledgers
  <2>5. Len(a) \in Nat /\ Len(L[t]) \in Nat BY <2>4, LenProperties
  <2>6. \A j \in 1..Len(a) : a[j] = K[t][j].command
    <3>1. \A j \in 1..Len(a) : j \in 1..Len(L[t]) BY <2>2, <2>5
    <3> QED BY <1>1, <2>2, <3>1
  <2> QED BY <2>2, <2>3, <2>6 DEF ComeFrom
<1> QED BY <1>2, <1>3

(* _apply_committed lengthens what was applied, or leaves it.               *)
LEMMA ApplyApplied ==
  ASSUME TypeOK, NEW n \in Node, NEW lg \in Seq(Entry), NEW upto \in Nat,
         upto <= Len(lg), Apply(n, upto, lg)
  PROVE  /\ commit_index' = [commit_index EXCEPT ![n] = upto]
         /\ \A p \in Node \ {n} : applied'[p] = applied[p]
         /\ \/ applied'[n] = applied[n] /\ upto <= Len(applied[n])
            \/ /\ Len(applied'[n]) = upto /\ upto > Len(applied[n])
               /\ \A j \in 1..Len(applied[n]) : applied'[n][j] = applied[n][j]
               /\ \A j \in Len(applied[n]) + 1 .. upto : applied'[n][j] = lg[j].command
<1> DEFINE a == applied[n]
           b == applied'[n]
           fresh == Len(a) + 1 .. upto
<1>1. a \in Seq(Command) /\ Len(a) \in Nat /\ applied \in [Node -> Seq(Command)]
  BY LenProperties DEF TypeOK
<1>2. b \in Seq(Command) /\ Len(b) \in Nat /\ DOMAIN b = 1..Len(b)
  <2>1. applied' \in [Node -> Seq(Command)] BY ApplyType
  <2>2. b \in Seq(Command) BY <2>1
  <2> QED BY <2>2, LenProperties
<1>3. /\ b = [i \in 1..Len(a) \cup fresh |-> IF i \in fresh THEN lg[i].command ELSE a[i]]
      /\ \A p \in Node \ {n} : applied'[p] = applied[p]
      /\ commit_index' = [commit_index EXCEPT ![n] = upto]
  BY <1>1 DEF Apply
<1> HIDE DEF a, b
<1>4. CASE upto <= Len(a)
  <2>1. fresh = {} BY <1>1, <1>4
  <2>2. b = [i \in 1..Len(a) |-> a[i]] BY <1>3, <2>1
  <2>3. Len(b) = Len(a) /\ \A i \in 1..Len(a) : b[i] = a[i]
    <3>1. DOMAIN b = 1..Len(a) /\ \A i \in 1..Len(a) : b[i] = a[i] BY <2>2
    <3>2. 1..Len(a) = 1..Len(b) BY <1>2, <3>1
    <3>3. Len(b) = Len(a) BY <1>1, <1>2, <3>2
    <3> QED BY <3>1, <3>3
  <2>4. b = a BY <1>1, <1>2, <2>3, SeqEqual
  <2> QED BY <1>3, <1>4, <2>4 DEF a, b
<1>5. CASE upto > Len(a)
  <2>1. 1..Len(a) \cup fresh = 1..upto BY <1>1, <1>5
  <2>2. b = [i \in 1..upto |-> IF i \in fresh THEN lg[i].command ELSE a[i]] BY <1>3, <2>1
  <2>3. Len(b) = upto
    <3> DEFINE F(i) == IF i \in fresh THEN lg[i].command ELSE a[i]
    <3>1. b = [i \in 1..upto |-> F(i)] BY <2>2
    <3> HIDE DEF F
    <3> QED BY <1>2, <3>1, LenProperties
  <2>4. \A j \in 1..Len(a) : b[j] = a[j] BY <1>1, <1>5, <2>2
  <2>5. \A j \in Len(a) + 1 .. upto : b[j] = lg[j].command BY <1>1, <1>5, <2>2
  <2> QED BY <1>3, <1>5, <2>3, <2>4, <2>5 DEF a, b
<1> QED BY <1>1, <1>4, <1>5

(* Commands applied in two ways agree.                                      *)
LEMMA ComeFromAgree ==
  ASSUME AckInv, NEW a, NEW b, NEW T \in Nat, NEW U \in Nat, 
         ComeFrom(ledger, acks, a, T), ComeFrom(ledger, acks, b, U),
         NEW j \in 1..Len(a), j \in 1..Len(b), Len(a) \in Nat, Len(b) \in Nat
  PROVE  a[j] = b[j]
<1>1. PICK t \in 1..MaxTerm : \E i \in 1..Len(ledger[t]) :
        Len(a) <= i /\ Chosen(ledger, acks, t, i) /\ \A k \in 1..Len(a) : a[k] = ledger[t][k].command
  BY DEF ComeFrom
<1>2. PICK i \in 1..Len(ledger[t]) :
        Len(a) <= i /\ Chosen(ledger, acks, t, i) /\ \A k \in 1..Len(a) : a[k] = ledger[t][k].command
  BY <1>1
<1>3. PICK u \in 1..MaxTerm : \E l \in 1..Len(ledger[u]) :
        Len(b) <= l /\ Chosen(ledger, acks, u, l) /\ \A k \in 1..Len(b) : b[k] = ledger[u][k].command
  BY DEF ComeFrom
<1>4. PICK l \in 1..Len(ledger[u]) :
        Len(b) <= l /\ Chosen(ledger, acks, u, l) /\ \A k \in 1..Len(b) : b[k] = ledger[u][k].command
  BY <1>3
<1>5. Won(t) /\ Won(u) /\ Len(ledger[t]) \in Nat /\ Len(ledger[u]) \in Nat
  <2>1. TypeOK BY DEF AckInv, LedgerInv, ElectionInv
  <2>2. Len(ledger[t]) \in Nat /\ Len(ledger[u]) \in Nat BY <2>1, LogTypes
  <2>3. ledger[t] # <<>> /\ ledger[u] # <<>> BY <1>2, <1>4, <2>2, EmptySeq
  <2> QED BY <2>2, <2>3 DEF AckInv, LedgerInv, LogsInv, LedgersAreWon
<1>6. j \in 1..i /\ j \in 1..l BY <1>2, <1>4, <1>5
<1>7. ledger[t][j] = ledger[u][j]
  <2>1. CASE t <= u
    <3>1. \A k \in 1..i : ledger[u][k] = ledger[t][k] BY <1>2, <1>5, <2>1, ChosenAgrees
    <3> QED BY <1>6, <3>1
  <2>2. CASE u <= t
    <3>1. \A k \in 1..l : ledger[t][k] = ledger[u][k] BY <1>4, <1>5, <2>2, ChosenAgrees
    <3> QED BY <1>6, <3>1
  <2> QED BY <2>1, <2>2
<1> QED BY <1>2, <1>4, <1>7

(* Leaders acknowledge what they write, followers what they matched.        *)
LEMMA LeadersAckNext ==
  ASSUME CommitInv, LedgerInv', Step, OfficeStep, AckStep, Grown(ledger, ledger')
  PROVE  LeadersAck'
<1>1. /\ AckInv /\ LedgerInv /\ TypeOK /\ TypeOK' /\ OfficeInv /\ OfficeInv' /\ ElectionInv
      /\ acks \subseteq acks'
  BY DEF CommitInv, AckInv, LedgerInv, ElectionInv, AckStep
<1> SUFFICES ASSUME NEW p \in Node, state'[p] = "leader"
             PROVE  AckedUpTo(ledger', acks', current_term'[p], p, Len(ledger'[current_term'[p]]))
  BY DEF LeadersAck
<1>0. PICK T : T = current_term[p] OBVIOUS
<1>2. current_term'[p] = T BY <1>0 DEF OfficeStep
<1>3. T \in 1..MaxTerm
  <2>1. <<current_term'[p], p>> \in elected' BY <1>1 DEF OfficeInv, LeadersHaveWon
  <2>2. current_term'[p] > 0 /\ current_term'[p] <= MaxTerm /\ current_term'[p] \in Nat
    BY <1>1, <2>1 DEF OfficeInv, VictoriesAreReached, TermsAreBounded, TypeOK
  <2> QED BY <1>2, <2>2, RaftAssumption
<1>4. state[p] = "leader" \/ ledger[T] = <<>>
  <2>1. CASE state[p] = "leader" BY <2>1
  <2>2. CASE state[p] # "leader"
    <3>1. state[p] = "candidate" /\ <<T, p>> \in elected' /\ <<T, p>> \notin elected
      BY <1>0, <1>1, <2>2 DEF OfficeStep, OfficeInv, CandidatesHaveNot
    <3>2. ~Won(T)
      <4> SUFFICES ASSUME NEW e \in elected, e[1] = T PROVE FALSE BY DEF Won
      <4>1. elected \subseteq elected' /\ elected \subseteq Nat \X Node
        BY <1>1 DEF OfficeStep, TypeOK
      <4>2. ElectionSafety' BY ElectionInvImpliesSafety, PTL DEF LedgerInv
      <4>3. e[2] = p BY <3>1, <4>1, <4>2 DEF ElectionSafety
      <4>4. e = <<T, p>> BY <4>1, <4>3
      <4> QED BY <3>1, <4>4
    <3> QED BY <1>1, <1>3, <3>2 DEF LedgerInv, LogsInv, LedgersAreWon
  <2> QED BY <2>1, <2>2
<1>5. ASSUME NEW i \in 1..Len(ledger'[T]), Holds(ledger'[T], T, i) PROVE <<T, p, i>> \in acks'
  <2>1. CASE Own(T, i)
    <3>1. ledger[T] # <<>>
      <4>1. Len(<<>>) = 0 OBVIOUS
      <4> QED BY <2>1, <4>1 DEF Own, Holds
    <3>2. state[p] = "leader" BY <1>4, <3>1
    <3>3. i \in 1..Len(ledger[T]) BY <2>1 DEF Own, Holds
    <3>4. AckedUpTo(ledger, acks, T, p, Len(ledger[T])) BY <1>0, <3>2 DEF CommitInv, LeadersAck
    <3>5. <<T, p, i>> \in acks BY <2>1, <3>3, <3>4 DEF Own, AckedUpTo
    <3> QED BY <1>1, <3>5
  <2>2. CASE ~Own(T, i)
    <3>1. PICK n \in Node : Writes(n) /\ T = current_term[n] /\ i = Len(log[n]) + 1
      <4>1. Own(T, i)' BY <1>5 DEF Own
      <4> QED BY <1>1, <1>3, <2>2, <4>1, NewOwn
    <3>2. state' = state /\ <<T, n>> \in elected /\ acks' = acks \cup {<<T, n, i>>}
      BY <1>1, <3>1, WritesAppends
    <3>3. p = n
      <4>1. OneLeads BY <1>1, OneLeader
      <4>2. state[p] = "leader" BY <3>2
      <4> QED BY <1>0, <3>1, <3>2, <4>1, <4>2 DEF OneLeads
    <3> QED BY <3>2, <3>3
  <2> QED BY <2>1, <2>2
<1>6. Len(ledger'[T]) \in Nat
  <2>1. ledger'[T] \in Seq(Entry) BY <1>1, <1>3 DEF TypeOK
  <2> QED BY <2>1, LenProperties
<1>7. AckedUpTo(ledger', acks', T, p, Len(ledger'[T])) BY <1>5, <1>6 DEF AckedUpTo
<1> QED BY <1>2, <1>7

LEMMA ResponsesNext ==
  ASSUME CommitInv, LedgerInv', AckStep, Sends, Grown(ledger, ledger')
  PROVE  ResponsesAreAcks'
<1>1. AckInv /\ LedgerInv /\ TypeOK /\ TypeOK' /\ OfficeInv
  BY DEF CommitInv, AckInv, LedgerInv, ElectionInv
<1> SUFFICES ASSUME NEW p \in Node, NEW i \in DOMAIN inbox'[p],
                    inbox'[p][i].type = "append_response", inbox'[p][i].success
             PROVE  /\ inbox'[p][i].term \in 1..MaxTerm
                    /\ AckedUpTo(ledger', acks', inbox'[p][i].term, inbox'[p][i].from,
                                 inbox'[p][i].match_index)
  BY DEF ResponsesAreAcks
<1>2. CASE \E j \in DOMAIN inbox[p] : inbox'[p][i] = inbox[p][j]
  <2>1. PICK j \in DOMAIN inbox[p] : inbox'[p][i] = inbox[p][j] BY <1>2
  <2> DEFINE m == inbox[p][j]
  <2>2. m \in Message /\ m.type = "append_response" /\ m.success /\ m.from \in Node
    BY <1>1, <2>1, MessageFacts
  <2>3. m.match_index \in Nat BY <2>2 DEF Message
  <2> DEFINE t == m.term
             q == m.from
             k == m.match_index
  <2>4. t \in 1..MaxTerm /\ q \in Node /\ k \in Nat /\ AckedUpTo(ledger, acks, t, q, k)
    BY <2>2, <2>3 DEF CommitInv, ResponsesAreAcks
  <2>5. inbox'[p][i].term = t /\ inbox'[p][i].from = q /\ inbox'[p][i].match_index = k BY <2>1
  <2> HIDE DEF m, t, q, k
  <2>6. ledger \in Ledgers /\ ledger' \in Ledgers /\ acks \subseteq acks'
    BY <1>1 DEF AckStep, TypeOK, Ledgers
  <2>7. AckedUpTo(ledger', acks', t, q, k) BY <2>4, <2>6, AckedGrows
  <2> QED BY <2>4, <2>5, <2>7
<1>3. CASE \E n \in Node : SentTo(p, n, inbox'[p][i])
  <2>1. PICK n \in Node : SentTo(p, n, inbox'[p][i]) BY <1>3
  <2>2. PICK l \in DOMAIN inbox[n] :
          /\ Stores(n, inbox[n][l]) /\ inbox'[p][i].from = n
          /\ inbox'[p][i].term = inbox[n][l].term
          /\ inbox'[p][i].match_index = Matched(inbox[n][l])
    BY <2>1 DEF SentTo
  <2> DEFINE t == inbox[n][l].term
             k == Matched(inbox[n][l])
  <2>3. /\ t \in 1..MaxTerm /\ k \in Nat /\ k <= Len(ledger[t]) /\ ledger' = ledger
        /\ acks' = acks \cup Acknowledged(n, t, log'[n], k)
        /\ Follows(log'[n], log[n], k, ledger[t])
    BY <1>1, <2>2, StoresFollow
  <2>4. inbox'[p][i].from = n /\ inbox'[p][i].term = t /\ inbox'[p][i].match_index = k BY <2>2
  <2> HIDE DEF t, k
  <2>5. ASSUME NEW j \in 1..k, Holds(ledger'[t], t, j) PROVE <<t, n, j>> \in acks'
    <3>1. ledger[t][j].term = t BY <2>3, <2>5 DEF Holds
    <3>2. log'[n][j] = ledger[t][j] BY <2>3 DEF Follows
    <3> QED BY <2>3, <3>1, <3>2 DEF Acknowledged
  <2> QED BY <2>3, <2>4, <2>5 DEF AckedUpTo
<1> QED BY <1>2, <1>3 DEF Sends

LEMMA SameLeaders ==
  ASSUME OfficeInv, OfficeStep, elected' = elected, NEW p \in Node, state'[p] = "leader"
  PROVE  state[p] = "leader" /\ current_term'[p] = current_term[p]
BY DEF OfficeInv, OfficeStep, CandidatesHaveNot

(* Types, and what only grows, for the steps below.                         *)
LEMMA CommitTypes ==
  ASSUME CommitInv, LedgerInv', AckStep
  PROVE  /\ AckInv /\ LedgerInv /\ TypeOK /\ TypeOK' /\ OfficeInv /\ OfficeInv' /\ ElectionInv
         /\ ledger \in Ledgers /\ ledger' \in Ledgers /\ acks \subseteq acks'
         /\ \A n \in Node : /\ current_term[n] \in Nat /\ current_term'[n] \in Nat
                            /\ commit_index[n] \in Nat /\ applied[n] \in Seq(Command)
                            /\ Len(applied[n]) \in Nat /\ \A p \in Node : match_index[n][p] \in Nat
<1>1. /\ AckInv /\ LedgerInv /\ TypeOK /\ TypeOK' /\ OfficeInv /\ OfficeInv' /\ ElectionInv
      /\ acks \subseteq acks'
  BY DEF CommitInv, AckInv, LedgerInv, ElectionInv, AckStep
<1>2. ledger \in Ledgers /\ ledger' \in Ledgers BY <1>1 DEF TypeOK, Ledgers
<1>3. \A n \in Node : /\ current_term[n] \in Nat /\ current_term'[n] \in Nat
                      /\ commit_index[n] \in Nat /\ applied[n] \in Seq(Command)
                      /\ \A p \in Node : match_index[n][p] \in Nat
  <2>1. /\ current_term \in [Node -> Nat] /\ current_term' \in [Node -> Nat]
        /\ commit_index \in [Node -> Nat] /\ applied \in [Node -> Seq(Command)]
    BY <1>1 DEF TypeOK
  <2>2. match_index \in [Node -> [Node -> Nat]] BY <1>1 DEF TypeOK
  <2> SUFFICES ASSUME NEW n \in Node
               PROVE  /\ current_term[n] \in Nat /\ current_term'[n] \in Nat
                      /\ commit_index[n] \in Nat /\ applied[n] \in Seq(Command)
                      /\ \A p \in Node : match_index[n][p] \in Nat
    OBVIOUS
  <2>3. match_index[n] \in [Node -> Nat] BY <2>2
  <2> QED BY <2>1, <2>3
<1>4. \A n \in Node : Len(applied[n]) \in Nat BY <1>3, LenProperties
<1> QED BY <1>1, <1>2, <1>3, <1>4

LEMMA MatchesNext ==
  ASSUME CommitInv, LedgerInv', Step, OfficeStep, AckStep, Grown(ledger, ledger'), tainted' = {}
  PROVE  MatchesAreAcks'
<1>1. /\ AckInv /\ LedgerInv /\ TypeOK /\ TypeOK' /\ OfficeInv /\ OfficeInv' /\ ElectionInv
      /\ ledger \in Ledgers /\ ledger' \in Ledgers /\ acks \subseteq acks'
      /\ \A n \in Node : \A p \in Node : match_index[n][p] \in Nat
  BY CommitTypes
<1> SUFFICES ASSUME NEW p \in Node, state'[p] = "leader", NEW q \in Peers(p)
             PROVE  AckedUpTo(ledger', acks', current_term'[p], q, match_index'[p][q])
  BY DEF MatchesAreAcks
<1>2. q \in Node /\ q # p BY DEF Peers
<1>3. ASSUME tainted = {}, state[p] = "leader", current_term'[p] = current_term[p],
             match_index'[p][q] = match_index[p][q]
      PROVE  AckedUpTo(ledger', acks', current_term'[p], q, match_index'[p][q])
  <2> DEFINE T == current_term[p]
             k == match_index[p][q]
  <2>1. T \in 1..MaxTerm BY <1>1, <1>3, LeaderTerms
  <2>2. AckedUpTo(ledger, acks, T, q, k) BY <1>3 DEF CommitInv, MatchesAreAcks
  <2>3. k \in Nat BY <1>1, <1>2
  <2>4. T = current_term'[p] /\ k = match_index'[p][q] BY <1>3
  <2> HIDE DEF T, k
  <2> QED BY <1>1, <2>1, <2>2, <2>3, <2>4, AckedGrows
<1>4. ASSUME tainted' = tainted, match_index' = match_index, elected' = elected
      PROVE  AckedUpTo(ledger', acks', current_term'[p], q, match_index'[p][q])
  BY <1>1, <1>3, <1>4, SameLeaders
<1>5. CASE Silent /\ Moves BY <1>4, <1>5 DEF Silent, Moves
<1>6. ASSUME NEW n \in Node, Silent, Stands(n) \/ Writes(n)
      PROVE  AckedUpTo(ledger', acks', current_term'[p], q, match_index'[p][q])
  <2>1. elected' = elected BY <1>6 DEF Stands, Writes, electionVars
  <2> QED BY <1>4, <1>6, <2>1 DEF Silent
<1>7. ASSUME NEW n \in Node, NEW l \in DOMAIN inbox[n], Silent, Grants(n, inbox[n][l])
      PROVE  AckedUpTo(ledger', acks', current_term'[p], q, match_index'[p][q])
  <2>1. elected' = elected BY <1>7 DEF Grants
  <2> QED BY <1>4, <1>7, <2>1 DEF Silent
<1>8. ASSUME NEW n \in Node, Wins(n)
      PROVE  AckedUpTo(ledger', acks', current_term'[p], q, match_index'[p][q])
  <2>1. /\ state' = [state EXCEPT ![n] = "leader"] /\ current_term' = current_term
        /\ match_index' = [match_index EXCEPT ![n] = [r \in Node |-> IF r = n THEN @[r] ELSE 0]]
        /\ tainted' = tainted
    BY <1>8 DEF Wins
  <2>2. CASE p = n
    <3>1. match_index'[p][q] = 0 BY <1>1, <1>2, <2>1, <2>2 DEF TypeOK
    <3>2. current_term'[p] \in 1..MaxTerm BY <1>1, <1>8, <2>1, <2>2, WinsOpens DEF LedgerInv
    <3>3. Len(ledger'[current_term'[p]]) \in Nat
      <4>1. ledger'[current_term'[p]] \in Seq(Entry) BY <1>1, <3>2 DEF Ledgers
      <4> QED BY <4>1, LenProperties
    <3> QED BY <3>1, <3>3 DEF AckedUpTo
  <2>3. CASE p # n
    <3>1. state[p] = "leader" /\ match_index'[p] = match_index[p]
      BY <1>1, <2>1, <2>3 DEF TypeOK
    <3> QED BY <1>3, <2>1, <3>1
  <2> QED BY <2>2, <2>3
<1>9. ASSUME NEW n \in Node, NEW l \in DOMAIN inbox[n], Stores(n, inbox[n][l])
      PROVE  AckedUpTo(ledger', acks', current_term'[p], q, match_index'[p][q])
  <2>1. elected' = elected /\ match_index' = match_index BY <1>9 DEF Stores
  <2>2. tainted = {} BY <1>9 DEF Stores
  <2> QED BY <1>1, <1>3, <2>1, <2>2, SameLeaders
<1>10. ASSUME NEW n \in Node, NEW l \in DOMAIN inbox[n], Counts(n, inbox[n][l])
       PROVE  AckedUpTo(ledger', acks', current_term'[p], q, match_index'[p][q])
  <2> DEFINE m == inbox[n][l]
  <2>1. /\ m.type = "append_response" /\ m.term <= current_term[n] /\ m.success
        /\ match_index' = [match_index EXCEPT ![n][m.from] = m.match_index]
        /\ tainted' = tainted \cup (IF m.term < current_term[n] /\ m.match_index > match_index[n][m.from]
                                      THEN {"stale ack"} ELSE {})
        /\ UNCHANGED <<elected, state, current_term, ledger, acks>>
    BY <1>10 DEF Counts, electionVars, logVars
  <2>2. tainted = {} BY <2>1
  <2>3. state[p] = "leader" /\ current_term'[p] = current_term[p] BY <2>1
  <2>4. m \in Message /\ m.from \in Node /\ m.term \in Nat BY <1>1, MessageFacts
  <2>5. m.match_index \in Nat BY <2>1, <2>4 DEF Message
  <2>8. match_index \in [Node -> [Node -> Nat]] BY <1>1 DEF TypeOK
  <2> DEFINE r == m.from
             k == m.match_index
  <2>9. r \in Node /\ k \in Nat /\ match_index' = [match_index EXCEPT ![n][r] = k]
    BY <2>1, <2>4, <2>5
  <2>10. p = n /\ q = r => match_index'[p][q] = k
    <3> HIDE DEF m, r, k
    <3> QED BY <1>2, <2>8, <2>9
  <2>11. ~(p = n /\ q = r) => match_index'[p][q] = match_index[p][q]
    <3> HIDE DEF m, r, k
    <3>1. p # n => match_index'[p] = match_index[p] BY <2>8, <2>9
    <3>2. p = n /\ q # r => match_index'[p][q] = match_index[p][q]
      <4>1. match_index'[n] = [match_index[n] EXCEPT ![r] = k] BY <2>8, <2>9
      <4>2. match_index[n] \in [Node -> Nat] BY <2>8
      <4> QED BY <1>2, <4>1, <4>2
    <3> QED BY <3>1, <3>2
  <2> HIDE DEF m
  <2>6. CASE p # n \/ q # m.from
    <3>1. match_index'[p][q] = match_index[p][q] BY <2>6, <2>11
    <3> QED BY <1>3, <2>2, <2>3, <3>1
  <2>7. CASE p = n /\ q = m.from
    <3>1. match_index'[p][q] = m.match_index BY <2>7, <2>10
    <3> DEFINE T == current_term[p]
    <3>2. T \in Nat /\ m.term <= T BY <1>1, <2>1, <2>7 DEF TypeOK
    <3>3. CASE m.term = T
      <4>1. AckedUpTo(ledger, acks, T, q, k)
        BY <2>1, <2>7, <3>3 DEF CommitInv, ResponsesAreAcks, m
      <4> QED BY <2>1, <3>1, <4>1
    <3>4. CASE m.term # T
      <4>1. m.term < T BY <2>4, <3>2, <3>4
      <4>2. k <= match_index[p][q]
        <5>1. ~(m.match_index > match_index[n][m.from]) BY <2>1, <2>7, <4>1
        <5>2. match_index[n][m.from] \in Nat BY <1>1, <2>4
        <5> QED BY <2>5, <2>7, <5>1, <5>2
      <4>3. AckedUpTo(ledger, acks, T, q, match_index[p][q])
        BY <2>2, <2>3 DEF CommitInv, MatchesAreAcks
      <4>4. match_index[p][q] \in Nat /\ T \in 1..MaxTerm BY <1>1, <1>2, <2>3, LeaderTerms
      <4>5. Len(ledger[T]) \in Nat BY <1>1, <4>4, LogTypes
      <4> HIDE DEF T, k
      <4>6. k \in Nat BY <2>5 DEF k
      <4>7. AckedUpTo(ledger, acks, T, q, k) BY <4>2, <4>3, <4>4, <4>5, <4>6 DEF AckedUpTo
      <4> QED BY <2>1, <3>1, <4>7 DEF T, k
    <3> QED BY <3>3, <3>4
  <2> QED BY <2>6, <2>7
<1> QED BY <1>5, <1>6, <1>7, <1>8, <1>9, <1>10 DEF Step

LEMMA CommitsAppliedNext ==
  ASSUME CommitInv, LedgerInv', Step, AckStep
  PROVE  CommitsAreApplied'
<1>1. /\ TypeOK /\ TypeOK' /\ LedgerInv
      /\ \A n \in Node : commit_index[n] \in Nat /\ Len(applied[n]) \in Nat
  BY CommitTypes
<1>2. CASE UNCHANGED <<commit_index, applied>> BY <1>2 DEF CommitInv, CommitsAreApplied
<1>3. ASSUME NEW n \in Node, NEW lg \in Seq(Entry), NEW upto \in Nat, upto <= Len(lg),
             Apply(n, upto, lg)
      PROVE  CommitsAreApplied'
  <2>1. /\ commit_index' = [commit_index EXCEPT ![n] = upto]
        /\ \A p \in Node \ {n} : applied'[p] = applied[p]
        /\ \/ applied'[n] = applied[n] /\ upto <= Len(applied[n])
           \/ Len(applied'[n]) = upto
    BY <1>1, <1>3, ApplyApplied
  <2> SUFFICES ASSUME NEW p \in Node PROVE commit_index'[p] <= Len(applied'[p])
    BY DEF CommitsAreApplied
  <2>2. CASE p = n
    <3>1. commit_index'[p] = upto BY <1>1, <2>1, <2>2 DEF TypeOK
    <3> QED BY <1>3, <2>1, <2>2, <3>1
  <2>3. CASE p # n
    <3>1. commit_index'[p] = commit_index[p] /\ applied'[p] = applied[p]
      BY <1>1, <2>1, <2>3 DEF TypeOK
    <3> QED BY <3>1 DEF CommitInv, CommitsAreApplied
  <2> QED BY <2>2, <2>3
<1>4. CASE Silent BY <1>2, <1>4 DEF Silent
<1>5. ASSUME NEW n \in Node, Wins(n) PROVE CommitsAreApplied' BY <1>2, <1>5 DEF Wins
<1>6. ASSUME NEW n \in Node, NEW l \in DOMAIN inbox[n], Stores(n, inbox[n][l])
      PROVE  CommitsAreApplied'
  <2> DEFINE lg == log'[n]
  <2>1. lg \in Seq(Entry) /\ Len(lg) \in Nat
    <3>1. lg \in Seq(Entry) BY <1>1 DEF TypeOK
    <3> QED BY <3>1, LenProperties
  <2>2. UNCHANGED <<commit_index, applied>> \/ \E upto \in 0..Len(lg) : Apply(n, upto, lg)
    BY <1>6 DEF Stores
  <2> HIDE DEF lg
  <2>3. CASE \E upto \in 0..Len(lg) : Apply(n, upto, lg)
    <3>1. PICK upto \in 0..Len(lg) : Apply(n, upto, lg) BY <2>3
    <3>2. upto \in Nat /\ upto <= Len(lg) BY <2>1
    <3> QED BY <1>3, <2>1, <3>1, <3>2
  <2> QED BY <1>2, <2>2, <2>3
<1>7. ASSUME NEW n \in Node, NEW l \in DOMAIN inbox[n], Counts(n, inbox[n][l])
      PROVE  CommitsAreApplied'
  <2> DEFINE lg == log[n]
  <2>1. lg \in Seq(Entry) /\ Len(lg) \in Nat BY <1>1, LogTypes
  <2>2. UNCHANGED <<commit_index, applied>> \/ \E i \in Committable(n, match_index'[n]) : Apply(n, i, lg)
    BY <1>7 DEF Counts
  <2>3. Committable(n, match_index'[n]) \subseteq commit_index[n] + 1 .. Len(lg)
    BY DEF Committable
  <2> HIDE DEF lg
  <2>4. CASE \E i \in Committable(n, match_index'[n]) : Apply(n, i, lg)
    <3>1. PICK i \in Committable(n, match_index'[n]) : Apply(n, i, lg) BY <2>4
    <3>2. i \in Nat /\ i <= Len(lg) BY <1>1, <2>1, <2>3
    <3> QED BY <1>3, <2>1, <3>1, <3>2
  <2> QED BY <1>2, <2>2, <2>4
<1> QED BY <1>4, <1>5, <1>6, <1>7 DEF Step


(***************************************************************************)
(* What is applied.                                                        *)
(***************************************************************************)

LEMMA MajorityGrows ==
  ASSUME NEW S, NEW T \in SUBSET Node, S \subseteq T, IsMajority(S)
  PROVE  IsMajority(T)
<1>1. IsFiniteSet(Node) /\ IsFiniteSet(T) BY BusAssumption, FS_Subset
<1>2. Cardinality(S) <= Cardinality(T) /\ IsFiniteSet(S) BY <1>1, FS_Subset
<1>3. Cardinality(S) \in Nat /\ Cardinality(T) \in Nat /\ Cardinality(Node) \in Nat
  BY <1>1, <1>2, FS_CardinalityType
<1> QED BY <1>2, <1>3 DEF IsMajority

(* What was applied by term U stays in every ledger won from then on.       *)
LEMMA ComeFromLedger ==
  ASSUME AckInv, NEW T \in 1..MaxTerm, Won(T), NEW U \in Nat, U <= T,
         NEW a \in Seq(Command), a # <<>> => ComeFrom(ledger, acks, a, U)
  PROVE  \A j \in 1..Len(a) : j \in 1..Len(ledger[T]) /\ a[j] = ledger[T][j].command
<1> SUFFICES ASSUME NEW j \in 1..Len(a)
             PROVE  j \in 1..Len(ledger[T]) /\ a[j] = ledger[T][j].command
  OBVIOUS
<1>1. ComeFrom(ledger, acks, a, U)
  <2>1. Len(<<>>) = 0 OBVIOUS
  <2>2. Len(a) # 0 OBVIOUS
  <2> QED BY <2>1, <2>2
<1>2. PICK t \in 1..MaxTerm : \E i \in 1..Len(ledger[t]) :
        /\ t <= U /\ Len(a) <= i /\ Chosen(ledger, acks, t, i)
        /\ \A k \in 1..Len(a) : a[k] = ledger[t][k].command
  BY <1>1 DEF ComeFrom
<1>3. PICK i \in 1..Len(ledger[t]) :
        /\ t <= U /\ Len(a) <= i /\ Chosen(ledger, acks, t, i)
        /\ \A k \in 1..Len(a) : a[k] = ledger[t][k].command
  BY <1>2
<1>4. t <= T BY <1>3
<1>5. i \in 1..Len(ledger[T]) /\ \A k \in 1..i : ledger[T][k] = ledger[t][k]
  BY <1>3, <1>4, ChosenAgrees
<1>6. Len(a) \in Nat /\ Len(ledger[T]) \in Nat
  <2>1. TypeOK BY DEF AckInv, LedgerInv, ElectionInv
  <2> QED BY <2>1, LogTypes
<1>7. j \in 1..i /\ j \in 1..Len(ledger[T]) BY <1>3, <1>5, <1>6
<1> QED BY <1>3, <1>5, <1>7

(* _apply_committed of a log that agrees with the ledger of T up to a       *)
(* position that is chosen by T.                                           *)
LEMMA ApplyChosen ==
  ASSUME AckInv, AppliedIsChosen, NEW n \in Node, NEW T \in 1..MaxTerm, Won(T),
         current_term[n] <= T, NEW lg \in Seq(Entry), NEW upto \in Nat, upto <= Len(lg),
         Apply(n, upto, lg), \A j \in 1..upto : lg[j] = ledger[T][j],
         ChosenUpTo(ledger, acks, T, upto)
  PROVE  /\ \A p \in Node \ {n} : applied'[p] = applied[p]
         /\ applied'[n] # <<>> => ComeFrom(ledger, acks, applied'[n], T)
<1> DEFINE a == applied[n]
           b == applied'[n]
           U == current_term[n]
<1>1. TypeOK /\ ledger \in Ledgers /\ a \in Seq(Command) /\ U \in Nat /\ Len(a) \in Nat
  <2>1. TypeOK BY DEF AckInv, LedgerInv, ElectionInv
  <2>2. applied \in [Node -> Seq(Command)] /\ current_term \in [Node -> Nat] BY <2>1 DEF TypeOK
  <2> QED BY <2>1, <2>2, LogTypes, LenProperties
<1>2. /\ \A p \in Node \ {n} : applied'[p] = applied[p]
      /\ \/ b = a /\ upto <= Len(a)
         \/ /\ Len(b) = upto /\ upto > Len(a)
            /\ \A j \in 1..Len(a) : b[j] = a[j]
            /\ \A j \in Len(a) + 1 .. upto : b[j] = lg[j].command
  BY <1>1, ApplyApplied
<1>3. U <= T /\ (a # <<>> => ComeFrom(ledger, acks, a, U)) BY DEF AppliedIsChosen
<1> HIDE DEF a, b, U
<1>4. CASE b = a
  <2> DEFINE L == ledger
             A == acks
  <2>1. L \in Ledgers /\ Grown(L, L) /\ A \subseteq A /\ T \in Nat
    BY <1>1, LogTypes DEF Grown
  <2>2. a # <<>> => ComeFrom(L, A, a, U) BY <1>3
  <2> HIDE DEF L, A
  <2>3. a # <<>> => ComeFrom(L, A, a, T) BY <1>1, <1>3, <2>1, <2>2, ComesGrow
  <2> QED BY <1>2, <1>4, <2>3 DEF L, A, b
<1>5. CASE /\ Len(b) = upto /\ upto > Len(a)
           /\ \A j \in 1..Len(a) : b[j] = a[j]
           /\ \A j \in Len(a) + 1 .. upto : b[j] = lg[j].command
  <2>1. \A j \in 1..Len(a) : a[j] = ledger[T][j].command
    BY <1>1, <1>3, ComeFromLedger
  <2>2. \A j \in 1..upto : b[j] = ledger[T][j].command
    <3> SUFFICES ASSUME NEW j \in 1..upto PROVE b[j] = ledger[T][j].command OBVIOUS
    <3>1. CASE j <= Len(a)
      <4>1. j \in 1..Len(a) BY <1>1, <3>1
      <4> QED BY <1>5, <2>1, <4>1
    <3>2. CASE j > Len(a)
      <4>1. j \in Len(a) + 1 .. upto BY <1>1, <3>2
      <4>2. b[j] = lg[j].command BY <1>5, <4>1
      <4> QED BY <4>2
    <3> QED BY <1>1, <3>1, <3>2
  <2>3. PICK t \in 1..MaxTerm : \E i \in 1..Len(ledger[t]) :
          t <= T /\ upto <= i /\ Chosen(ledger, acks, t, i)
    BY DEF ChosenUpTo
  <2>4. PICK i \in 1..Len(ledger[t]) : t <= T /\ upto <= i /\ Chosen(ledger, acks, t, i)
    BY <2>3
  <2>5. \A j \in 1..i : ledger[T][j] = ledger[t][j] BY <2>4, ChosenAgrees
  <2>6. \A j \in 1..upto : j \in 1..i BY <2>4
  <2>7. \A j \in 1..Len(b) : b[j] = ledger[t][j].command BY <1>5, <2>2, <2>5, <2>6
  <2>8. Len(b) <= i BY <1>5, <2>4
  <2>9. ComeFrom(ledger, acks, b, T) BY <2>4, <2>7, <2>8 DEF ComeFrom
  <2> QED BY <1>2, <2>9 DEF b
<1> QED BY <1>2, <1>4, <1>5 

(* What was applied stays chosen when it does not change.                   *)
LEMMA AppliedStays ==
  ASSUME CommitInv, AppliedIsChosen, LedgerInv', AckStep, OfficeStep, Grown(ledger, ledger'),
         NEW p \in Node, applied'[p] = applied[p], applied'[p] # <<>>
  PROVE  ComeFrom(ledger', acks', applied'[p], current_term'[p])
<1> DEFINE L == ledger
           K == ledger'
           A == acks
           B == acks'
           T == current_term[p]
           U == current_term'[p]
           a == applied[p]
<1>1. L \in Ledgers /\ K \in Ledgers /\ A \subseteq B /\ T \in Nat /\ U \in Nat /\ a \in Seq(Command)
  BY CommitTypes
<1>2. Grown(L, K) /\ T <= U BY <1>1 DEF OfficeStep
<1>3. ComeFrom(L, A, a, T) BY DEF AppliedIsChosen
<1>4. applied'[p] = a OBVIOUS
<1> HIDE DEF L, K, A, B, T, U, a
<1>5. ComeFrom(K, B, a, U) BY <1>1, <1>2, <1>3, ComesGrow
<1> QED BY <1>4, <1>5 DEF K, B, U

LEMMA CountsChosen ==
  ASSUME CommitInv, tainted = {}, LedgerInv', AckStep, OfficeStep, Grown(ledger, ledger'),
         MatchesAreAcks', NEW n \in Node, NEW l \in DOMAIN inbox[n], Counts(n, inbox[n][l]),
         NEW i \in Committable(n, match_index'[n]), Apply(n, i, log[n])
  PROVE  AppliedIsChosen'
<1> DEFINE T == current_term[n]
           lg == ledger[T]
           S == {n} \cup {p \in Peers(n) : match_index'[n][p] >= i}
           Q == {q \in Node : <<T, q, i>> \in acks}
<1>1. /\ AckInv /\ LedgerInv /\ TypeOK /\ TypeOK' /\ OfficeInv /\ AppliedIsChosen
      /\ commit_index[n] \in Nat
  BY CommitTypes DEF CommitInv
<1>2. /\ state[n] = "leader" /\ UNCHANGED <<elected, state, current_term, log, ledger, acks>>
  BY DEF Counts, electionVars, logVars
<1>3. T \in 1..MaxTerm /\ log[n] = lg BY <1>1, <1>2, LeaderTerms DEF LedgerInv, LogsInv, LeadersKeepLedgers
<1>4. Won(T)
  <2>1. <<T, n>> \in elected BY <1>1, <1>2 DEF OfficeInv, LeadersHaveWon
  <2> QED BY <2>1 DEF Won
<1>5. lg \in Seq(Entry) /\ Len(lg) \in Nat BY <1>1, <1>3, LogTypes
<1>6. i \in commit_index[n] + 1 .. Len(log[n]) /\ log[n][i].term = T /\ IsMajority(S)
  BY DEF Committable
<1>7. i \in 1..Len(lg) /\ i \in Nat /\ Holds(lg, T, i) BY <1>1, <1>3, <1>5, <1>6 DEF Holds
<1>8. S \subseteq Q
  <2>1. n \in Q
    <3>1. AckedUpTo(ledger, acks, T, n, Len(lg)) BY <1>2 DEF CommitInv, LeadersAck
    <3> QED BY <1>7, <3>1 DEF AckedUpTo
  <2>2. ASSUME NEW p \in Peers(n), match_index'[n][p] >= i PROVE p \in Q
    <3>1. p \in Node BY DEF Peers
    <3>2. state'[n] = "leader" /\ current_term'[n] = T /\ ledger' = ledger /\ acks' = acks BY <1>2
    <3>3. AckedUpTo(ledger', acks', current_term'[n], p, match_index'[n][p])
      BY <3>2 DEF MatchesAreAcks
    <3> DEFINE k == match_index'[n][p]
    <3>4. AckedUpTo(ledger, acks, T, p, k) BY <3>2, <3>3
    <3>5. k \in Nat
      <4>1. match_index' \in [Node -> [Node -> Nat]] BY <1>1 DEF TypeOK
      <4> QED BY <3>1, <4>1
    <3> HIDE DEF k
    <3>6. k >= i BY <2>2 DEF k
    <3>7. i \in 1..k BY <1>7, <3>5, <3>6
    <3> QED BY <1>7, <3>1, <3>4, <3>7 DEF AckedUpTo
  <2> QED BY <2>1, <2>2
<1>9. IsMajority(Q)
  <2>1. Q \in SUBSET Node OBVIOUS
  <2> HIDE DEF S, Q
  <2> QED BY <1>6, <1>8, <2>1, MajorityGrows
<1>10. Chosen(ledger, acks, T, i) BY <1>7, <1>9 DEF Chosen
<1>11. ChosenUpTo(ledger, acks, T, i) BY <1>3, <1>7, <1>10 DEF ChosenUpTo
<1>12. /\ \A p \in Node \ {n} : applied'[p] = applied[p]
       /\ applied'[n] # <<>> => ComeFrom(ledger, acks, applied'[n], T)
  <2>1. Apply(n, i, lg) /\ i <= Len(lg) /\ \A j \in 1..i : lg[j] = ledger[T][j] BY <1>3, <1>7
  <2>2. current_term[n] <= T BY <1>3
  <2> HIDE DEF lg, T
  <2> QED BY <1>1, <1>3, <1>4, <1>5, <1>7, <1>11, <2>1, <2>2, ApplyChosen
<1> SUFFICES ASSUME NEW p \in Node, applied'[p] # <<>>
             PROVE  ComeFrom(ledger', acks', applied'[p], current_term'[p])
  BY DEF AppliedIsChosen
<1>13. CASE p = n BY <1>2, <1>12, <1>13
<1>14. CASE p # n BY <1>1, <1>12, <1>14, AppliedStays
<1> QED BY <1>13, <1>14

LEMMA StoresChosen ==
  ASSUME CommitInv, tainted = {}, LedgerInv', AckStep, OfficeStep, Grown(ledger, ledger'),
         NEW n \in Node, NEW l \in DOMAIN inbox[n], Stores(n, inbox[n][l]),
         NEW upto \in 0..Len(log'[n]), inbox[n][l].leader_commit > commit_index[n],
         upto <= inbox[n][l].leader_commit, upto <= Matched(inbox[n][l]),
         Apply(n, upto, log'[n])
  PROVE  AppliedIsChosen'
<1> DEFINE T == inbox[n][l].term
           k == Matched(inbox[n][l])
           c == inbox[n][l].leader_commit
           lg == log'[n]
<1>1. /\ AckInv /\ LedgerInv /\ TypeOK /\ TypeOK' /\ OfficeInv /\ AppliedIsChosen
      /\ CommitsAreChosen /\ commit_index[n] \in Nat
  BY CommitTypes DEF CommitInv
<1>2. /\ T \in 1..MaxTerm /\ current_term[n] <= T /\ k \in Nat /\ k <= Len(ledger[T])
      /\ ledger' = ledger /\ current_term' = [current_term EXCEPT ![n] = T]
      /\ Follows(lg, log[n], k, ledger[T])
  BY <1>1, StoresFollow, LogTypes
<1>3. /\ inbox[n][l] \in Message /\ inbox[n][l].type = "append_entries"
  BY <1>1, MessageFacts DEF Stores
<1>4. c \in Nat /\ c > 0 BY <1>1, <1>3 DEF Message
<1>5. Won(T)
  <2>1. <<T, inbox[n][l].from>> \in elected BY <1>1, <1>3 DEF OfficeInv, AppendsAreLeaders
  <2> QED BY <2>1 DEF Won
<1>6. lg \in Seq(Entry) /\ Len(lg) \in Nat /\ \A j \in 1..k : lg[j] = ledger[T][j]
  <2>1. lg \in Seq(Entry) /\ \A j \in 1..k : lg[j] = ledger[T][j] BY <1>2 DEF Follows
  <2> QED BY <2>1, LenProperties
<1>7. upto \in Nat /\ upto <= Len(lg) /\ upto <= c /\ upto <= k BY <1>6
<1>8. ChosenUpTo(ledger, acks, T, c) BY <1>1, <1>3, <1>4 DEF CommitsAreChosen
<1>9. ChosenUpTo(ledger, acks, T, upto)
  <2>1. PICK t \in 1..MaxTerm : \E i \in 1..Len(ledger[t]) : 
          t <= T /\ c <= i /\ Chosen(ledger, acks, t, i)
    BY <1>8 DEF ChosenUpTo
  <2>2. PICK i \in 1..Len(ledger[t]) : t <= T /\ c <= i /\ Chosen(ledger, acks, t, i) BY <2>1
  <2>3. upto <= i
    <3> HIDE DEF c
    <3> QED BY <1>4, <1>7, <2>2
  <2> QED BY <2>2, <2>3 DEF ChosenUpTo
<1>10. /\ \A p \in Node \ {n} : applied'[p] = applied[p]
       /\ applied'[n] # <<>> => ComeFrom(ledger, acks, applied'[n], T)
  <2>1. Apply(n, upto, lg) /\ \A j \in 1..upto : lg[j] = ledger[T][j] 
    <3>1. \A j \in 1..upto : j \in 1..k BY <1>2, <1>7
    <3> QED BY <1>6, <3>1
  <2> HIDE DEF lg, T, k, c
  <2> QED BY <1>1, <1>2, <1>5, <1>6, <1>7, <1>9, <2>1, ApplyChosen
<1> SUFFICES ASSUME NEW p \in Node, applied'[p] # <<>>
             PROVE  ComeFrom(ledger', acks', applied'[p], current_term'[p])
  BY DEF AppliedIsChosen
<1>11. CASE p = n
  <2>1. current_term'[p] = T BY <1>1, <1>2, <1>11 DEF TypeOK
  <2> DEFINE L == ledger
             K == ledger'
             A == acks
             B == acks'
             b == applied'[n]
  <2>2. L \in Ledgers /\ K \in Ledgers /\ A \subseteq B /\ T \in Nat /\ T <= T
    BY <1>2, CommitTypes
  <2>3. Grown(L, K) /\ ComeFrom(L, A, b, T) BY <1>10, <1>11
  <2>4. b \in Seq(Command) BY <1>1 DEF TypeOK
  <2> HIDE DEF L, K, A, B, b, T
  <2>5. ComeFrom(K, B, b, T) BY <2>2, <2>3, <2>4, ComesGrow
  <2> QED BY <1>11, <2>1, <2>5 DEF K, B, b, T
<1>12. CASE p # n BY <1>1, <1>10, <1>12, AppliedStays
<1> QED BY <1>11, <1>12

LEMMA AppliedNext ==
  ASSUME CommitInv, LedgerInv', Step, OfficeStep, AckStep, Grown(ledger, ledger'),
         tainted' = {}, MatchesAreAcks'
  PROVE  AppliedIsChosen'
<1>1. ASSUME tainted = {}, applied' = applied PROVE AppliedIsChosen'
  BY <1>1, AppliedStays DEF CommitInv, AppliedIsChosen
<1>2. CASE Silent BY <1>1, <1>2 DEF Silent
<1>3. ASSUME NEW n \in Node, Wins(n) PROVE AppliedIsChosen' BY <1>1, <1>3 DEF Wins
<1>4. ASSUME NEW n \in Node, NEW l \in DOMAIN inbox[n], Stores(n, inbox[n][l])
      PROVE  AppliedIsChosen'
  <2> DEFINE m == inbox[n][l]
  <2>1. \/ UNCHANGED <<commit_index, applied, tainted>>
        \/ \E upto \in 0..Len(log'[n]) :
             /\ m.leader_commit > commit_index[n] /\ upto <= m.leader_commit
             /\ Apply(n, upto, log'[n])
             /\ tainted' = tainted \cup (IF upto > Matched(m) THEN {"unmatched tail"} ELSE {})
    BY <1>4 DEF Stores
  <2>2. CASE UNCHANGED <<commit_index, applied, tainted>> BY <1>1, <2>2
  <2>3. CASE \E upto \in 0..Len(log'[n]) :
               /\ m.leader_commit > commit_index[n] /\ upto <= m.leader_commit
               /\ Apply(n, upto, log'[n])
               /\ tainted' = tainted \cup (IF upto > Matched(m) THEN {"unmatched tail"} ELSE {})
    <3>1. PICK upto \in 0..Len(log'[n]) :
            /\ m.leader_commit > commit_index[n] /\ upto <= m.leader_commit
            /\ Apply(n, upto, log'[n])
            /\ tainted' = tainted \cup (IF upto > Matched(m) THEN {"unmatched tail"} ELSE {})
      BY <2>3
    <3>2. tainted = {} /\ ~(upto > Matched(m)) BY <3>1
    <3>3. upto <= Matched(m)
      <4>1. Matched(m) \in Nat BY <1>4, CommitTypes, StoresFollow
      <4> QED BY <3>2, <4>1
    <3> QED BY <1>4, <3>1, <3>2, <3>3, StoresChosen
  <2> QED BY <2>1, <2>2, <2>3
<1>5. ASSUME NEW n \in Node, NEW l \in DOMAIN inbox[n], Counts(n, inbox[n][l])
      PROVE  AppliedIsChosen'
  <2>1. tainted = {} BY <1>5 DEF Counts
  <2>2. \/ \E i \in Committable(n, match_index'[n]) : Apply(n, i, log[n])
        \/ UNCHANGED <<commit_index, applied>>
    BY <1>5 DEF Counts
  <2>3. CASE \E i \in Committable(n, match_index'[n]) : Apply(n, i, log[n])
    BY <1>5, <2>1, <2>3, CountsChosen
  <2> QED BY <1>1, <2>1, <2>2, <2>3
<1> QED BY <1>2, <1>3, <1>4, <1>5 DEF Step

(* A leader sends what it has committed, which it has applied.              *)
LEMMA CommitsNext ==
  ASSUME CommitInv, tainted = {}, LedgerInv', OfficeStep, AckStep, Sends, Grown(ledger, ledger')
  PROVE  CommitsAreChosen'
<1>1. /\ AckInv /\ LedgerInv /\ TypeOK /\ TypeOK' /\ OfficeInv
      /\ ledger \in Ledgers /\ ledger' \in Ledgers /\ acks \subseteq acks'
  BY CommitTypes
<1> DEFINE L == ledger
           K == ledger'
           A == acks
           B == acks'
<1>2. L \in Ledgers /\ K \in Ledgers /\ A \subseteq B /\ Grown(L, K) BY <1>1
<1> SUFFICES ASSUME NEW p \in Node, NEW i \in DOMAIN inbox'[p],
                    inbox'[p][i].type = "append_entries", inbox'[p][i].leader_commit > 0
             PROVE  ChosenUpTo(K, B, inbox'[p][i].term, inbox'[p][i].leader_commit)
  BY DEF CommitsAreChosen
<1>3. CASE \E j \in DOMAIN inbox[p] : inbox'[p][i] = inbox[p][j]
  <2>1. PICK j \in DOMAIN inbox[p] : inbox'[p][i] = inbox[p][j] BY <1>3
  <2> DEFINE t == inbox[p][j].term
             c == inbox[p][j].leader_commit
  <2>2. inbox'[p][i].term = t /\ inbox'[p][i].leader_commit = c /\ t \in Nat /\ t <= t
    BY <1>1, <2>1, MessageFacts
  <2>3. ChosenUpTo(L, A, t, c) BY <2>1 DEF CommitInv, CommitsAreChosen
  <2> HIDE DEF L, K, A, B, t, c
  <2>4. t \in Nat /\ t <= t BY <2>2
  <2>5. \A k : ChosenUpTo(L, A, t, k) => ChosenUpTo(K, B, t, k) BY <1>2, <2>4, ComesGrow
  <2>6. ChosenUpTo(K, B, t, c) BY <2>3, <2>5
  <2> QED BY <2>2, <2>6
<1>4. CASE \E n \in Node : SentTo(p, n, inbox'[p][i])
  <2>1. PICK n \in Node : SentTo(p, n, inbox'[p][i]) BY <1>4
  <2> DEFINE T == current_term[n]
             a == applied[n]
             c == commit_index[n]
  <2>2. /\ inbox'[p][i].term = T /\ inbox'[p][i].leader_commit = c
    <3>1. /\ inbox'[p][i].term = current_term'[n] /\ current_term'[n] = current_term[n]
          /\ \E next \in Nat \ {0} : inbox'[p][i] = AppendEntries(n, next, log'[n])
      BY <2>1 DEF SentTo
    <3>2. inbox'[p][i].leader_commit = commit_index[n] BY <3>1 DEF AppendEntries
    <3> QED BY <3>1, <3>2
  <2>3. T \in Nat /\ a \in Seq(Command) /\ Len(a) \in Nat /\ c \in Nat /\ c <= Len(a)
    BY CommitTypes DEF CommitInv, CommitsAreApplied
  <2>4. c > 0 BY <2>2
  <2>5. a # <<>> => ComeFrom(L, A, a, T) BY DEF CommitInv, AppliedIsChosen
  <2> HIDE DEF L, K, A, B, T, a, c
  <2>6. a # <<>>
    <3>1. Len(<<>>) = 0 OBVIOUS
    <3> QED BY <2>3, <2>4, <3>1
  <2>7. PICK t \in 1..MaxTerm : \E l \in 1..Len(L[t]) :
          t <= T /\ Len(a) <= l /\ Chosen(L, A, t, l)
    BY <2>5, <2>6 DEF ComeFrom
  <2>8. PICK l \in 1..Len(L[t]) : t <= T /\ Len(a) <= l /\ Chosen(L, A, t, l) BY <2>7
  <2>9. c <= l
    <3>1. l \in Int OBVIOUS
    <3> QED BY <2>3, <2>8, <3>1
  <2>10. ChosenUpTo(L, A, T, c) BY <2>8, <2>9 DEF ChosenUpTo
  <2>11. T <= T BY <2>3
  <2>12. ChosenUpTo(K, B, T, c) BY <1>2, <2>3, <2>10, <2>11, ComesGrow
  <2> QED BY <2>2, <2>12
<1> QED BY <1>3, <1>4 DEF Sends

LEMMA CommitInvInit == Init => CommitInv
<1> SUFFICES ASSUME Init PROVE CommitInv OBVIOUS
<1>1. AckInv BY AckInvInit
<1>2. /\ \A n \in Node : /\ state[n] = "follower" /\ inbox[n] = <<>>
                         /\ commit_index[n] = 0 /\ applied[n] = <<>>
  BY DEF Init, BusInit
<1>3. LeadersAck /\ MatchesAreAcks BY <1>2 DEF LeadersAck, MatchesAreAcks
<1>4. ResponsesAreAcks /\ CommitsAreChosen BY <1>2 DEF ResponsesAreAcks, CommitsAreChosen
<1>5. CommitsAreApplied
  <2>1. Len(<<>>) = 0 OBVIOUS
  <2> QED BY <1>2, <2>1 DEF CommitsAreApplied
<1>6. AppliedIsChosen BY <1>2 DEF AppliedIsChosen
<1> QED BY <1>1, <1>3, <1>4, <1>5, <1>6 DEF CommitInv

LEMMA CommitInvNext ==
  ASSUME CommitInv, [Next]_vars
  PROVE  CommitInv'
<1>1. AckInv BY DEF CommitInv
<1>2. AckInv' /\ Step /\ Sends /\ OfficeStep /\ AckStep /\ Grown(ledger, ledger')
  BY <1>1, AckInvNext
<1>3. LedgerInv' BY <1>2 DEF AckInv
<1>4. LeadersAck' /\ ResponsesAreAcks' /\ CommitsAreApplied'
  BY <1>2, <1>3, LeadersAckNext, ResponsesNext, CommitsAppliedNext
<1>5. tainted \subseteq tainted'
  <2>1. CASE Silent BY <2>1 DEF Silent
  <2>2. ASSUME NEW n \in Node, Wins(n) PROVE tainted \subseteq tainted' BY <2>2 DEF Wins
  <2>3. ASSUME NEW n \in Node, NEW l \in DOMAIN inbox[n], Stores(n, inbox[n][l])
        PROVE  tainted \subseteq tainted'
    BY <2>3 DEF Stores
  <2>4. ASSUME NEW n \in Node, NEW l \in DOMAIN inbox[n], Counts(n, inbox[n][l])
        PROVE  tainted \subseteq tainted'
    BY <2>4 DEF Counts
  <2> QED BY <1>2, <2>1, <2>2, <2>3, <2>4 DEF Step
<1>6. ASSUME tainted' = {} PROVE MatchesAreAcks' /\ AppliedIsChosen' /\ CommitsAreChosen'
  <2>1. tainted = {} BY <1>5, <1>6
  <2>2. MatchesAreAcks' BY <1>2, <1>3, <1>6, MatchesNext
  <2>3. AppliedIsChosen' BY <1>2, <1>3, <1>6, <2>2, AppliedNext
  <2>4. CommitsAreChosen' BY <1>2, <1>3, <2>1, CommitsNext
  <2> QED BY <2>2, <2>3, <2>4
<1> QED BY <1>2, <1>4, <1>6 DEF CommitInv

LEMMA CommitInvSafe == CommitInv => SafeUntilTainted
<1> SUFFICES ASSUME CommitInv, tainted = {} PROVE StateMachineSafety BY DEF SafeUntilTainted
<1>1. AckInv /\ LedgerInv /\ TypeOK /\ OfficeInv /\ AppliedIsChosen
  BY DEF CommitInv, AckInv, LedgerInv, ElectionInv
<1>2. \A n \in Node : /\ applied[n] \in Seq(Command) /\ Len(applied[n]) \in Nat
                      /\ DOMAIN applied[n] = 1..Len(applied[n]) /\ current_term[n] \in Nat
  <2>1. applied \in [Node -> Seq(Command)] /\ current_term \in [Node -> Nat] BY <1>1 DEF TypeOK
  <2>2. \A n \in Node : applied[n] \in Seq(Command) BY <2>1
  <2> QED BY <2>1, <2>2, LenProperties
<1>3. \A n \in Node : \A j \in 1..Len(applied[n]) :
        ComeFrom(ledger, acks, applied[n], current_term[n])
  <2>1. Len(<<>>) = 0 OBVIOUS
  <2>2. \A n \in Node : \A j \in 1..Len(applied[n]) : applied[n] # <<>> BY <2>1
  <2> QED BY <1>1, <2>2 DEF AppliedIsChosen
<1>4. AppliedAgree
  <2> SUFFICES ASSUME NEW m \in Node, NEW n \in Node,
                      NEW j \in 1..Len(applied[m]), j \in 1..Len(applied[n])
               PROVE  applied[m][j] = applied[n][j]
    BY <1>2 DEF AppliedAgree
  <2> DEFINE a == applied[m]
             b == applied[n]
             T == current_term[m]
             U == current_term[n]
  <2>1. /\ ComeFrom(ledger, acks, a, T) /\ ComeFrom(ledger, acks, b, U) /\ T \in Nat /\ U \in Nat
        /\ j \in 1..Len(a) /\ j \in 1..Len(b) /\ Len(a) \in Nat /\ Len(b) \in Nat
    BY <1>2, <1>3
  <2> HIDE DEF a, b, T, U
  <2>2. a[j] = b[j] BY <1>1, <2>1, ComeFromAgree
  <2> QED BY <2>2 DEF a, b
<1>5. LeadersHoldApplied
  <2> SUFFICES ASSUME NEW m \in Node, NEW n \in Node, state[n] = "leader",
                      current_term[n] >= current_term[m], NEW j \in 1..Len(applied[m])
               PROVE  j \in DOMAIN log[n] /\ log[n][j].command = applied[m][j]
    BY <1>2 DEF LeadersHoldApplied
  <2> DEFINE T == current_term[n]
             U == current_term[m]
             a == applied[m]
  <2>1. T \in 1..MaxTerm /\ Won(T) /\ log[n] = ledger[T]
    <3>1. <<T, n>> \in elected BY <1>1 DEF OfficeInv, LeadersHaveWon
    <3> QED BY <1>1, <3>1, LeaderTerms DEF Won, LedgerInv, LogsInv, LeadersKeepLedgers
  <2>2. U \in Nat /\ U <= T /\ a \in Seq(Command) /\ ComeFrom(ledger, acks, a, U)
    BY <1>2, <1>3, <2>1
  <2> HIDE DEF T, U, a
  <2>3. \A k \in 1..Len(a) : k \in 1..Len(ledger[T]) /\ a[k] = ledger[T][k].command
    BY <1>1, <2>1, <2>2, ComeFromLedger
  <2>4. j \in 1..Len(ledger[T]) /\ applied[m][j] = ledger[T][j].command BY <2>3 DEF a
  <2>5. DOMAIN log[n] = 1..Len(log[n])
    <3>1. log[n] \in Seq(Entry) BY <1>1, LogTypes
    <3> QED BY <3>1, LenProperties
  <2> QED BY <2>1, <2>4, <2>5
<1> QED BY <1>4, <1>5 DEF StateMachineSafety

(***************************************************************************)
(* State Machine Safety (architecture.md:66-71), until a step is tainted:   *)
(* no two nodes apply different commands at one position, and whatever a    *)
(* node applied is in the log of every later leader.                       *)
(***************************************************************************)
THEOREM StateMachineSafe == Spec => []SafeUntilTainted
<1>1. Init => CommitInv BY CommitInvInit
<1>2. CommitInv /\ [Next]_vars => CommitInv' BY CommitInvNext
<1>3. CommitInv => SafeUntilTainted BY CommitInvSafe
<1> QED BY <1>1, <1>2, <1>3, PTL DEF Spec

(***************************************************************************)
(* The futures of submit().                                                *)
(***************************************************************************)

(* What AnswersAreOwn promises, and why it lasts: a future stands at the    *)
(* position of its own command, on a node that was elected; no other node   *)
(* was, so nobody sends that node entries.                                  *)
OneVictory == \A e, f \in elected : e = f
FuturesStandAtEntries ==
  \A n \in Node : \A i \in DOMAIN pending[n] :
    /\ i \in DOMAIN log[n] /\ log[n][i].command = pending[n][i]
    /\ \E e \in elected : e[2] = n
OwnAnswers ==
  \A c \in Command :
    /\ request[c].status = "answered" => request[c].result = c
    /\ request[c].status = "waiting" =>
         /\ request[c].index \in DOMAIN pending[request[c].node]
         /\ pending[request[c].node][request[c].index] = c
AnswerInv ==
  /\ LedgerInv /\ IsFiniteSet(elected)
  /\ OneVictory => FuturesStandAtEntries /\ OwnAnswers

LEMMA ApplyAnswers ==
  ASSUME TypeOK, FuturesStandAtEntries, OwnAnswers, elected \subseteq elected',
         NEW n \in Node, NEW upto, NEW lg, Apply(n, upto, lg),
         \A i \in DOMAIN pending[n] : lg[i].command = pending[n][i],
         \A p \in Node : \A i \in DOMAIN pending[p] :
           i \in DOMAIN log'[p] /\ log'[p][i].command = pending[p][i]
  PROVE  FuturesStandAtEntries' /\ OwnAnswers'
<1> DEFINE fresh == Len(applied[n]) + 1 .. upto
           served == DOMAIN pending[n] \cap fresh
<1>1. /\ pending' = [pending EXCEPT ![n] = [i \in DOMAIN pending[n] \ fresh |-> pending[n][i]]]
      /\ request' = [c \in Command |->
          IF \E i \in served : pending[n][i] = c
          THEN [status |-> "answered",
                result |-> lg[CHOOSE i \in served : pending[n][i] = c].command]
          ELSE request[c]]
  BY DEF Apply
<1>2. DOMAIN pending = Node BY DEF TypeOK
<1> HIDE DEF fresh
<1>3. ASSUME NEW p \in Node, NEW i \in DOMAIN pending'[p]
      PROVE  i \in DOMAIN pending[p] /\ pending'[p][i] = pending[p][i]
  BY <1>1, <1>2, <1>3
<1>4. FuturesStandAtEntries' BY <1>3 DEF FuturesStandAtEntries
<1>5. ASSUME NEW p \in Node, NEW i \in DOMAIN pending[p], p # n \/ i \notin served
      PROVE  i \in DOMAIN pending'[p] /\ pending'[p][i] = pending[p][i]
  BY <1>1, <1>2, <1>5
<1>6. ASSUME NEW c \in Command, request'[c].status = "answered" PROVE request'[c].result = c
  <2>1. CASE \E i \in served : pending[n][i] = c
    <3> DEFINE k == CHOOSE i \in served : pending[n][i] = c
    <3>1. k \in served /\ pending[n][k] = c BY <2>1
    <3>2. request'[c] = [status |-> "answered", result |-> lg[k].command] BY <1>1, <2>1
    <3> HIDE DEF k
    <3>3. lg[k].command = c BY <3>1
    <3>4. request'[c].result = lg[k].command BY <3>2
    <3> QED BY <3>3, <3>4
  <2>2. CASE ~\E i \in served : pending[n][i] = c
    <3>1. request'[c] = request[c] BY <1>1, <2>2
    <3> QED BY <1>6, <3>1 DEF OwnAnswers
  <2> QED BY <2>1, <2>2
<1>7. ASSUME NEW c \in Command, request'[c].status = "waiting"
      PROVE  /\ request'[c].index \in DOMAIN pending'[request'[c].node]
             /\ pending'[request'[c].node][request'[c].index] = c
  <2>1. ~(\E i \in served : pending[n][i] = c) /\ request'[c] = request[c]
    BY <1>1, <1>7
  <2> DEFINE p == request[c].node
             i == request[c].index
  <2>2. i \in DOMAIN pending[p] /\ pending[p][i] = c BY <1>7, <2>1 DEF OwnAnswers
  <2>3. p \in Node BY <1>7, <2>1 DEF TypeOK, Request
  <2>4. p # n \/ i \notin served BY <2>1, <2>2
  <2> HIDE DEF p, i
  <2>5. i \in DOMAIN pending'[p] /\ pending'[p][i] = c BY <1>5, <2>2, <2>3, <2>4
  <2> QED BY <2>1, <2>5 DEF p, i
<1> QED BY <1>4, <1>6, <1>7 DEF OwnAnswers

LEMMA AnswersKept ==
  ASSUME FuturesStandAtEntries, OwnAnswers, elected \subseteq elected',
         UNCHANGED <<pending, request>>,
         \A p \in Node : \A i \in DOMAIN pending[p] :
           i \in DOMAIN log'[p] /\ log'[p][i].command = pending[p][i]
  PROVE  FuturesStandAtEntries' /\ OwnAnswers'
BY DEF FuturesStandAtEntries, OwnAnswers

LEMMA SubmitAnswers ==
  ASSUME TypeOK, LeadersHaveWon, FuturesStandAtEntries, OwnAnswers,
         NEW n \in Node, NEW c \in Command, Submit(n, c)
  PROVE  FuturesStandAtEntries' /\ OwnAnswers'
<1> DEFINE e == [term |-> current_term[n], command |-> c]
           k == Len(log[n]) + 1
<1>1. /\ log[n] \in Seq(Entry) /\ log \in [Node -> Seq(Entry)] /\ DOMAIN pending = Node
      /\ request \in [Command -> Request] /\ e \in Entry
  BY DEF TypeOK, Entry
<1>2. /\ Append(log[n], e) \in Seq(Entry) /\ Len(Append(log[n], e)) = k /\ Len(log[n]) \in Nat
      /\ Append(log[n], e)[k] = e
      /\ \A i \in 1..Len(log[n]) : Append(log[n], e)[i] = log[n][i]
      /\ DOMAIN Append(log[n], e) = 1..k /\ DOMAIN log[n] = 1..Len(log[n])
  BY <1>1, AppendProperties, LenProperties
<1>3. /\ state[n] = "leader" /\ request[c].status = "new" /\ elected' = elected
      /\ log' = [log EXCEPT ![n] = Append(log[n], e)]
      /\ pending' = [pending EXCEPT ![n] = [i \in DOMAIN pending[n] \cup {k} |->
                       IF i = k THEN c ELSE pending[n][i]]]
      /\ request' = [request EXCEPT ![c] = [status |-> "waiting", node |-> n, index |-> k]]
  BY <1>2 DEF Submit, electionVars
<1>4. \E f \in elected : f[2] = n
  <2> DEFINE f == <<current_term[n], n>>
  <2>1. f \in elected /\ f[2] = n BY <1>3 DEF LeadersHaveWon
  <2> QED BY <2>1
<1>5. e.command = c OBVIOUS
<1> HIDE DEF e
<1>6. k \notin DOMAIN pending[n] BY <1>2 DEF FuturesStandAtEntries
<1>7. FuturesStandAtEntries'
  <2> SUFFICES ASSUME NEW p \in Node, NEW i \in DOMAIN pending'[p]
               PROVE  /\ i \in DOMAIN log'[p] /\ log'[p][i].command = pending'[p][i]
                      /\ \E f \in elected' : f[2] = p
    BY DEF FuturesStandAtEntries
  <2>1. CASE p # n
    <3>1. log'[p] = log[p] /\ pending'[p] = pending[p] BY <1>1, <1>3, <2>1
    <3> QED BY <1>3, <3>1 DEF FuturesStandAtEntries
  <2>2. CASE p = n
    <3>1. log'[n] = Append(log[n], e) /\ DOMAIN pending'[n] = DOMAIN pending[n] \cup {k}
          /\ pending'[n][i] = IF i = k THEN c ELSE pending[n][i]
      BY <1>1, <1>3, <2>2
    <3>2. CASE i = k BY <1>2, <1>3, <1>4, <1>5, <2>2, <3>1, <3>2
    <3>3. CASE i # k
      <4>1. i \in DOMAIN log[n] /\ log[n][i].command = pending[n][i]
        BY <2>2, <3>1, <3>3 DEF FuturesStandAtEntries
      <4>2. i \in 1..k /\ log'[n][i] = log[n][i] BY <1>2, <3>1, <4>1
      <4> QED BY <1>2, <1>3, <1>4, <2>2, <3>1, <3>3, <4>1, <4>2
    <3> QED BY <3>2, <3>3
  <2> QED BY <2>1, <2>2
<1>8. OwnAnswers'
  <2> SUFFICES ASSUME NEW d \in Command
               PROVE  /\ request'[d].status = "answered" => request'[d].result = d
                      /\ request'[d].status = "waiting" =>
                           /\ request'[d].index \in DOMAIN pending'[request'[d].node]
                           /\ pending'[request'[d].node][request'[d].index] = d
    BY DEF OwnAnswers
  <2>1. CASE d = c
    <3>1. request'[d] = [status |-> "waiting", node |-> n, index |-> k] BY <1>1, <1>3, <2>1
    <3>2. k \in DOMAIN pending'[n] /\ pending'[n][k] = c BY <1>1, <1>3
    <3> QED BY <2>1, <3>1, <3>2
  <2>2. CASE d # c
    <3>1. request'[d] = request[d] BY <1>1, <1>3, <2>2
    <3> DEFINE p == request[d].node
               i == request[d].index
    <3>2. ASSUME request[d].status = "waiting" PROVE i \in DOMAIN pending'[p] /\ pending'[p][i] = d
      <4>1. i \in DOMAIN pending[p] /\ pending[p][i] = d BY <3>2 DEF OwnAnswers
      <4>2. p \in Node BY <1>1, <3>2 DEF Request
      <4> HIDE DEF p, i
      <4>3. CASE p # n BY <1>1, <1>3, <4>1, <4>2, <4>3
      <4>4. CASE p = n
        <5>1. i # k BY <1>6, <4>1, <4>4
        <5> QED BY <1>1, <1>3, <4>1, <4>4, <5>1
      <4> QED BY <4>3, <4>4
    <3> QED BY <3>1, <3>2 DEF OwnAnswers
  <2> QED BY <2>1, <2>2
<1> QED BY <1>7, <1>8

LEMMA TimeoutAnswers ==
  ASSUME TypeOK, FuturesStandAtEntries, OwnAnswers, NEW c \in Command, SubmitTimeout(c)
  PROVE  FuturesStandAtEntries' /\ OwnAnswers'
<1> DEFINE r == request[c]
<1>1. request \in [Command -> Request] /\ DOMAIN pending = Node BY DEF TypeOK
<1>2. /\ r.status = "waiting" /\ elected' = elected /\ log' = log
      /\ request' = [request EXCEPT ![c] = [status |-> "expired"]]
      /\ pending' = [pending EXCEPT ![r.node] =
                       [i \in DOMAIN pending[r.node] \ {r.index} |-> pending[r.node][i]]]
  BY DEF SubmitTimeout, electionVars, logVars
<1>3. pending[r.node][r.index] = c BY <1>2 DEF OwnAnswers
<1> HIDE DEF r
<1>4. FuturesStandAtEntries' BY <1>1, <1>2 DEF FuturesStandAtEntries
<1>5. OwnAnswers'
  <2> SUFFICES ASSUME NEW d \in Command
               PROVE  /\ request'[d].status = "answered" => request'[d].result = d
                      /\ request'[d].status = "waiting" =>
                           /\ request'[d].index \in DOMAIN pending'[request'[d].node]
                           /\ pending'[request'[d].node][request'[d].index] = d
    BY DEF OwnAnswers
  <2>1. CASE d = c
    <3>1. request'[d] = [status |-> "expired"] BY <1>1, <1>2, <2>1
    <3> QED BY <3>1
  <2>2. CASE d # c
    <3>1. request'[d] = request[d] BY <1>1, <1>2, <2>2
    <3> DEFINE p == request[d].node
               i == request[d].index
    <3>2. ASSUME request[d].status = "waiting" PROVE i \in DOMAIN pending'[p] /\ pending'[p][i] = d
      <4>1. i \in DOMAIN pending[p] /\ pending[p][i] = d BY <3>2 DEF OwnAnswers
      <4>2. p \in Node BY <1>1, <3>2 DEF Request
      <4>3. p # r.node \/ i # r.index BY <1>3, <2>2, <4>1
      <4> HIDE DEF p, i
      <4> QED BY <1>1, <1>2, <4>1, <4>2, <4>3
    <3> QED BY <3>1, <3>2 DEF OwnAnswers
  <2> QED BY <2>1, <2>2
<1> QED BY <1>4, <1>5

(* A node that was sent entries was not elected, when only the sender was.  *)
LEMMA AppendAnswers ==
  ASSUME TypeOK, OneVictory, AppendsAreLeaders, FuturesStandAtEntries, OwnAnswers,
         NEW n \in Node, inbox[n] # <<>>, HandleAppendEntries(n, Head(inbox[n]))
  PROVE  FuturesStandAtEntries' /\ OwnAnswers'
<1> DEFINE m == Head(inbox[n])
<1>1. m \in Message /\ 1 \in DOMAIN inbox[n] /\ m = inbox[n][1] BY HeadIsMessage
<1>2. log \in [Node -> Seq(Entry)] BY DEF TypeOK
<1> HIDE DEF m
<1>3. /\ m.type = "append_entries" /\ elected' = elected
      /\ \E lg : log' = [log EXCEPT ![n] = lg]
      /\ \/ UNCHANGED commitVars
         \/ \E upto, lg : Apply(n, upto, lg)
  BY DEF HandleAppendEntries, m
<1>4. DOMAIN pending[n] = {}
  <2> SUFFICES ASSUME NEW i \in DOMAIN pending[n] PROVE FALSE OBVIOUS
  <2>1. PICK e \in elected : e[2] = n BY DEF FuturesStandAtEntries
  <2> DEFINE f == <<m.term, m.from>>
  <2>2. m.from # n /\ f \in elected BY <1>1, <1>3 DEF AppendsAreLeaders
  <2>3. e = f BY <2>2 DEF OneVictory
  <2> QED BY <2>1, <2>2, <2>3
<1>5. \A p \in Node : \A i \in DOMAIN pending[p] :
        i \in DOMAIN log'[p] /\ log'[p][i].command = pending[p][i]
  <2> SUFFICES ASSUME NEW p \in Node, NEW i \in DOMAIN pending[p]
               PROVE  i \in DOMAIN log'[p] /\ log'[p][i].command = pending[p][i]
    OBVIOUS
  <2>1. log'[p] = log[p] BY <1>2, <1>3, <1>4
  <2> QED BY <2>1 DEF FuturesStandAtEntries
<1>6. CASE UNCHANGED commitVars BY <1>3, <1>5, <1>6, AnswersKept DEF commitVars
<1>7. CASE \E upto, lg : Apply(n, upto, lg)
  <2>1. PICK upto, lg : Apply(n, upto, lg) BY <1>7
  <2> QED BY <1>3, <1>4, <1>5, <2>1, ApplyAnswers
<1> QED BY <1>3, <1>6, <1>7

LEMMA ResponseAnswers ==
  ASSUME TypeOK, FuturesStandAtEntries, OwnAnswers,
         NEW n \in Node, NEW m, HandleAppendResponse(n, m)
  PROVE  FuturesStandAtEntries' /\ OwnAnswers'
<1>1. /\ elected' = elected /\ log' = log
      /\ \/ UNCHANGED <<pending, request>>
         \/ \E upto : Apply(n, upto, log[n])
  BY DEF HandleAppendResponse, StepDown, Ignore, raftVars, electionVars, logVars, commitVars
<1>2. CASE UNCHANGED <<pending, request>>
  BY <1>1, <1>2, AnswersKept DEF FuturesStandAtEntries
<1>3. CASE \E upto : Apply(n, upto, log[n])
  <2>1. PICK upto : Apply(n, upto, log[n]) BY <1>3
  <2>2. /\ \A i \in DOMAIN pending[n] : log[n][i].command = pending[n][i]
        /\ \A p \in Node : \A i \in DOMAIN pending[p] :
             i \in DOMAIN log'[p] /\ log'[p][i].command = pending[p][i]
    BY <1>1 DEF FuturesStandAtEntries
  <2> QED BY <1>1, <2>1, <2>2, ApplyAnswers
<1> QED BY <1>1, <1>2, <1>3

LEMMA NextAnswers ==
  ASSUME LedgerInv, OneVictory, FuturesStandAtEntries, OwnAnswers, [Next]_vars
  PROVE  FuturesStandAtEntries' /\ OwnAnswers'
<1>1. TypeOK /\ LeadersHaveWon /\ AppendsAreLeaders BY DEF LedgerInv, ElectionInv, OfficeInv
<1>2. elected \subseteq elected' BY <1>1, NextStep, StepOffices DEF OfficeStep
<1>3. ASSUME UNCHANGED <<log, commitVars>> PROVE FuturesStandAtEntries' /\ OwnAnswers'
  <2>1. UNCHANGED <<pending, request>> /\ log' = log BY <1>3 DEF commitVars
  <2>2. \A p \in Node : \A i \in DOMAIN pending[p] :
          i \in DOMAIN log'[p] /\ log'[p][i].command = pending[p][i]
    BY <2>1 DEF FuturesStandAtEntries
  <2> QED BY <1>2, <2>1, <2>2, AnswersKept
<1>4. ASSUME NEW n \in Node, Dispatch(n) PROVE FuturesStandAtEntries' /\ OwnAnswers'
  <2> DEFINE m == Head(inbox[n])
  <2>1. inbox[n] # <<>> BY <1>4 DEF Dispatch
  <2>2. CASE HandleAppendEntries(n, m) BY <1>1, <2>1, <2>2, AppendAnswers
  <2>3. CASE HandleAppendResponse(n, m) BY <1>1, <2>3, ResponseAnswers
  <2>4. CASE HandleRequestVote(n, m) BY <1>3, <2>4 DEF HandleRequestVote, logVars
  <2>5. CASE HandleVoteResponse(n, m)
    BY <1>3, <2>5 DEF HandleVoteResponse, StepDown, CountVote, Ignore, raftVars, logVars
  <2> QED BY <1>4, <2>2, <2>3, <2>4, <2>5 DEF Dispatch
<1> QED BY <1>1, <1>3, <1>4, SubmitAnswers, TimeoutAnswers
     DEF Next, ElectionTimeout, BecomeCandidate, StartElection, LeaderTick, Cut, Heal, vars, raftVars, logVars

LEMMA AtMostOneVictory ==
  ASSUME IsFiniteSet(elected), Cardinality(elected) <= 1
  PROVE  OneVictory
<1> SUFFICES ASSUME NEW e \in elected, NEW f \in elected, e # f PROVE FALSE BY DEF OneVictory
<1>1. {e, f} \subseteq elected /\ Cardinality({e, f}) = 2
  <2>1. IsFiniteSet({e}) /\ Cardinality({e}) = 1 /\ f \notin {e} BY FS_Singleton
  <2>2. Cardinality({e} \cup {f}) = 2 BY <2>1, FS_AddElement
  <2>3. {e} \cup {f} = {e, f} OBVIOUS
  <2> QED BY <2>2, <2>3
<1>2. Cardinality({e, f}) <= Cardinality(elected) BY <1>1, FS_Subset
<1>3. Cardinality(elected) \in Nat BY FS_CardinalityType
<1> QED BY <1>1, <1>2, <1>3

LEMMA AnswerInvNext == AnswerInv /\ [Next]_vars => AnswerInv'
<1> SUFFICES ASSUME AnswerInv, [Next]_vars PROVE AnswerInv' OBVIOUS
<1>1. LedgerInv' /\ OfficeStep BY LedgerInvNext DEF AnswerInv
<1>3. IsFiniteSet(elected')
  <2>1. CASE elected' = elected BY <2>1 DEF AnswerInv
  <2>2. CASE elected' # elected
    <3>1. PICK n \in Node : elected' = elected \cup {<<current_term[n], n>>}
      BY <1>1, <2>2 DEF OfficeStep
    <3> QED BY <3>1, FS_AddElement DEF AnswerInv
  <2> QED BY <2>1, <2>2
<1>4. ASSUME OneVictory' PROVE FuturesStandAtEntries' /\ OwnAnswers'
  <2>1. OneVictory BY <1>1, <1>4 DEF OneVictory, OfficeStep
  <2> QED BY <2>1, NextAnswers DEF AnswerInv
<1> QED BY <1>1, <1>3, <1>4 DEF AnswerInv

(* As long as nobody but one node was elected once, a caller of submit()    *)
(* gets the result of its own command or waits on a future registered for   *)
(* it (raft.py:399-435), however many callers and timeouts.                  *)
THEOREM AnswersOwn == Spec => []AnswersAreOwn
<1>1. Init => AnswerInv
  <2> SUFFICES ASSUME Init PROVE AnswerInv OBVIOUS
  <2>1. LedgerInv BY LedgerInvInit
  <2>2. IsFiniteSet(elected) BY FS_EmptySet DEF Init
  <2>3. FuturesStandAtEntries /\ OwnAnswers BY DEF Init, FuturesStandAtEntries, OwnAnswers
  <2> QED BY <2>1, <2>2, <2>3 DEF AnswerInv
<1>2. AnswerInv /\ [Next]_vars => AnswerInv' BY AnswerInvNext
<1>3. AnswerInv => AnswersAreOwn
  <2> SUFFICES ASSUME AnswerInv, Cardinality(elected) <= 1 PROVE OwnAnswers
    BY DEF AnswersAreOwn, OwnAnswers
  <2> QED BY AtMostOneVictory DEF AnswerInv
<1> QED BY <1>1, <1>2, <1>3, PTL DEF Spec

(***************************************************************************)
(* Candidates.                                                             *)
(***************************************************************************)

CandidacyStep ==
  \A p \in Node : state'[p] = "candidate" =>
    \/ state[p] = "candidate" /\ votes_received'[p] = votes_received[p]
    \/ votes_received'[p] = {p}
    \/ ~IsMajority(votes_received'[p])

LEMMA NextCandidacies == TypeOK /\ [Next]_vars => CandidacyStep
<1> SUFFICES ASSUME TypeOK, [Next]_vars PROVE CandidacyStep OBVIOUS
<1>1. /\ state \in [Node -> {"follower", "candidate", "leader"}]
      /\ votes_received \in [Node -> SUBSET Node]
  BY DEF TypeOK
<1>2. ASSUME UNCHANGED votes_received,
             \A p \in Node : state'[p] = "candidate" => state[p] = "candidate"
      PROVE  CandidacyStep
  BY <1>2 DEF CandidacyStep
<1>3. ASSUME UNCHANGED electionVars PROVE CandidacyStep BY <1>2, <1>3 DEF electionVars
<1>4. ASSUME NEW n \in Node, ElectionTimeout(n) PROVE CandidacyStep
  BY <1>1, <1>4 DEF ElectionTimeout, BecomeCandidate, CandidacyStep
<1>5. ASSUME NEW n \in Node, Dispatch(n) PROVE CandidacyStep
  <2> DEFINE m == Head(inbox[n])
  <2>1. CASE StepDown(n, m) BY <1>1, <1>2, <2>1 DEF StepDown
  <2>2. CASE HandleRequestVote(n, m) BY <1>1, <1>2, <2>2 DEF HandleRequestVote
  <2>3. CASE HandleAppendEntries(n, m) BY <1>1, <1>2, <2>3 DEF HandleAppendEntries
  <2>4. CASE CountVote(n, m) /\ state[n] = "candidate"
    <3> DEFINE votes == votes_received[n] \cup {m.from}
    <3>1. /\ votes_received' = [votes_received EXCEPT ![n] = votes]
          /\ \/ IsMajority(votes) /\ state' = [state EXCEPT ![n] = "leader"]
             \/ ~IsMajority(votes) /\ UNCHANGED state
      BY <2>4 DEF CountVote
    <3> HIDE DEF votes
    <3> QED BY <1>1, <3>1 DEF CandidacyStep
  <2>5. CASE HandleVoteResponse(n, m)
    BY <1>3, <2>1, <2>4, <2>5 DEF HandleVoteResponse, Ignore, raftVars
  <2>6. CASE HandleAppendResponse(n, m)
    BY <1>3, <2>1, <2>6 DEF HandleAppendResponse, Ignore, raftVars
  <2> QED BY <1>5, <2>2, <2>3, <2>5, <2>6 DEF Dispatch
<1> QED BY <1>3, <1>4, <1>5
     DEF Next, LeaderTick, Submit, SubmitTimeout, Cut, Heal, vars, raftVars

(* A candidate with a majority of votes is no candidate any more: the       *)
(* answer that completes the majority makes it leader (raft.py:252-265).    *)
(* A cluster of one node never counts an answer, so it is left out: its     *)
(* only candidate has its majority from the start and waits for ever.       *)
THEOREM MajorityIsLeader ==
  ASSUME Cardinality(Node) >= 2
  PROVE  Spec => []MajorityLeads
<1>1. \A n \in Node : ~IsMajority({n})
  <2>1. Cardinality(Node) \in Nat BY FS_CardinalityType, BusAssumption
  <2>2. Cardinality(Node) \div 2 >= 1 BY <2>1
  <2>3. \A n \in Node : Cardinality({n}) = 1 BY FS_Singleton
  <2> QED BY <2>1, <2>2, <2>3 DEF IsMajority
<1>2. Init => TypeOK /\ MajorityLeads
  <2> SUFFICES ASSUME Init PROVE TypeOK /\ MajorityLeads OBVIOUS
  <2> QED BY InitType DEF Init, MajorityLeads
<1>3. TypeOK /\ MajorityLeads /\ [Next]_vars => TypeOK' /\ MajorityLeads'
  <2> SUFFICES ASSUME TypeOK, MajorityLeads, [Next]_vars PROVE TypeOK' /\ MajorityLeads'
    OBVIOUS
  <2>1. TypeOK' BY NextType
  <2>2. CandidacyStep BY NextCandidacies
  <2>3. ASSUME NEW n \in Node, state'[n] = "candidate" PROVE ~IsMajority(votes_received'[n])
    BY <1>1, <2>2, <2>3 DEF CandidacyStep, MajorityLeads
  <2> QED BY <2>1, <2>3 DEF MajorityLeads, IsMajority
<1> QED BY <1>2, <1>3, PTL DEF Spec
=============================================================================
