-------------------------------- MODULE Raft --------------------------------
(***************************************************************************)
(* The Raft implementation of tugas-3/src/consensus/raft.py as it is, not  *)
(* as the paper has it.  Handlers, ticks and the synchronous part of       *)
(* submit() run without suspending, so each is one action.                 *)
(*                                                                         *)
(* Log positions are shifted by one: position i of the code is i + 1 here, *)
(* and the code's -1 ("none") is 0.  Time is abstracted: a deadline may    *)
(* pass at any moment.                                                     *)
(***************************************************************************)
EXTENDS MessageBus

CONSTANTS
  Command,   \* the commands clients submit, each at most once
  None,      \* Python's None
  MaxTerm,   \* bound: no election starts beyond this term
  MaxBatch,  \* entries per AppendEntries message (50 in the code)
  MaxCut     \* bound: nodes cut off at one time

ASSUME RaftAssumption ==
  /\ None \notin Node \cup Command
  /\ MaxTerm \in Nat
  /\ MaxBatch \in Nat \ {0}
  /\ MaxCut \in Nat

VARIABLES
  state, current_term, voted_for, votes_received,
  log,             \* persistent.log: node -> sequence of [term, command]
  commit_index,
  applied,         \* the commands apply_callback was called with; last_applied is its length
  next_index, match_index,
  pending,         \* _pending_commands: node -> position -> the command whose future waits there
  request,         \* command -> where its submit() call stands
  \* History, never read by an action:
  ballots,         \* every vote cast: <<term, voter, candidate>>
  elected,         \* every victory: <<term, winner>>
  ledger,          \* term -> the log of the term's leader, as long as it became
  acks,            \* <<term, node, position>>: the entries of a term that a node, its
                   \* leader included, acknowledged in that term
  tainted          \* the unsound steps taken so far

electionVars == <<state, current_term, voted_for, votes_received, ballots, elected>>
leaderVars   == <<next_index, match_index>>
logVars      == <<log, ledger, acks>>
commitVars   == <<commit_index, applied, pending, request, tainted>>
raftVars     == <<electionVars, logVars, leaderVars, commitVars>>
vars         == <<busVars, raftVars>>

Entry == [term : Nat, command : Command]

Message ==
  [type : {"request_vote"}, from : Node, term : Nat,
   last_log_index : Nat, last_log_term : Nat]
  \cup
  [type : {"vote_response"}, from : Node, term : Nat, vote_granted : BOOLEAN]
  \cup
  [type : {"append_entries"}, from : Node, term : Nat, prev_log_index : Nat,
   prev_log_term : Nat, entries : Seq(Entry), leader_commit : Nat]
  \cup
  [type : {"append_response"}, from : Node, term : Nat,
   success : BOOLEAN, match_index : Nat]

Request ==
  [status : {"new", "expired"}]
  \cup [status : {"waiting"}, node : Node, index : Nat]
  \cup [status : {"answered"}, result : Command]

IsMajority(S) == Cardinality(S) >= Cardinality(Node) \div 2 + 1

LastTerm(lg) == IF lg = <<>> THEN 0 ELSE lg[Len(lg)].term
TermAt(lg, i) == IF i \in 1..Len(lg) THEN lg[i].term ELSE 0

Init ==
  /\ BusInit
  /\ state = [n \in Node |-> "follower"]
  /\ current_term = [n \in Node |-> 0]
  /\ voted_for = [n \in Node |-> None]
  /\ votes_received = [n \in Node |-> {}]
  /\ log = [n \in Node |-> <<>>]
  /\ commit_index = [n \in Node |-> 0]
  /\ applied = [n \in Node |-> <<>>]
  /\ next_index = [n \in Node |-> [p \in Node |-> 1]]
  /\ match_index = [n \in Node |-> [p \in Node |-> 0]]
  /\ pending = [n \in Node |-> [i \in {} |-> None]]
  /\ request = [c \in Command |-> [status |-> "new"]]
  /\ ballots = {}
  /\ elected = {}
  /\ ledger = [t \in 1..MaxTerm |-> <<>>]
  /\ acks = {}
  /\ tainted = {}

-----------------------------------------------------------------------------
(* Elections.                                                              *)

BecomeCandidate(n) ==
  /\ state' = [state EXCEPT ![n] = "candidate"]
  /\ current_term' = [current_term EXCEPT ![n] = @ + 1]
  /\ voted_for' = [voted_for EXCEPT ![n] = n]
  /\ votes_received' = [votes_received EXCEPT ![n] = {n}]
  /\ ballots' = ballots \cup {<<current_term[n] + 1, n, n>>}

(* _start_election, in the new term. *)
StartElection(n) ==
  Send(n, [p \in Peers(n) |->
             [type |-> "request_vote", from |-> n, term |-> current_term[n] + 1,
              last_log_index |-> Len(log[n]), last_log_term |-> LastTerm(log[n])]])

(* _follower_tick and _candidate_tick after the deadline. *)
ElectionTimeout(n) ==
  /\ state[n] \in {"follower", "candidate"}
  /\ current_term[n] < MaxTerm
  /\ BecomeCandidate(n) /\ StartElection(n)
  /\ UNCHANGED <<partitions, elected, logVars, leaderVars, commitVars>>

LogIsUpToDate(n, m) ==
  \/ m.last_log_term > LastTerm(log[n])
  \/ m.last_log_term = LastTerm(log[n]) /\ m.last_log_index >= Len(log[n])

(* Faulty: a second candidate of the term gets a vote too. *)
AlreadyVoted_Never(vote, candidate) == FALSE

AlreadyVoted(vote, candidate) == vote \notin {None, candidate}

(* _handle_request_vote *)
HandleRequestVote(n, m) ==
  LET newer   == m.term > current_term[n]
      vote    == IF newer THEN None ELSE voted_for[n]
      granted == /\ m.term >= current_term[n]
                 /\ LogIsUpToDate(n, m)
                 /\ ~AlreadyVoted(vote, m.from)
      term    == IF newer THEN m.term ELSE current_term[n]
  IN /\ m.type = "request_vote"
     /\ current_term' = [current_term EXCEPT ![n] = term]
     /\ state' = [state EXCEPT ![n] = IF newer THEN "follower" ELSE @]
     /\ voted_for' = [voted_for EXCEPT ![n] = IF granted THEN m.from ELSE vote]
     /\ ballots' = IF granted THEN ballots \cup {<<term, n, m.from>>} ELSE ballots
     /\ Reply(n, m.from, [type |-> "vote_response", from |-> n, term |-> term,
                          vote_granted |-> granted])
     /\ UNCHANGED <<partitions, votes_received, elected, logVars, leaderVars, commitVars>>

(* Faulty: a response of the same term makes the node forget its vote.      *)
StepDown_SameTerm(n, m) ==
  /\ m.term >= current_term[n]
  /\ current_term' = [current_term EXCEPT ![n] = m.term]
  /\ voted_for' = [voted_for EXCEPT ![n] = None]
  /\ state' = [state EXCEPT ![n] = "follower"]
  /\ Handle(n)
  /\ UNCHANGED <<partitions, votes_received, ballots, elected, logVars, leaderVars, commitVars>>

(* _become_follower with a later term, by a response that is then dropped.  *)
StepDown(n, m) ==
  /\ m.term > current_term[n]
  /\ current_term' = [current_term EXCEPT ![n] = m.term]
  /\ voted_for' = [voted_for EXCEPT ![n] = None]
  /\ state' = [state EXCEPT ![n] = "follower"]
  /\ Handle(n)
  /\ UNCHANGED <<partitions, votes_received, ballots, elected, logVars, leaderVars, commitVars>>

Ignore(n) == Handle(n) /\ UNCHANGED <<partitions, raftVars>>

(* Faulty: takes the position before the previous one. *)
AppendEntries_PrevTooLow(n, next, lg) ==
  [type |-> "append_entries", from |-> n, term |-> current_term[n],
   prev_log_index |-> next - 2, prev_log_term |-> TermAt(lg, next - 2),
   entries |-> SubSeq(lg, next, IF next + MaxBatch - 1 < Len(lg)
                                  THEN next + MaxBatch - 1 ELSE Len(lg)),
   leader_commit |-> commit_index[n]]

(* _send_append_entries: what n sends to a peer whose next_index is "next". *)
AppendEntries(n, next, lg) ==
  [type |-> "append_entries", from |-> n, term |-> current_term[n],
   prev_log_index |-> next - 1, prev_log_term |-> TermAt(lg, next - 1),
   entries |-> SubSeq(lg, next, IF next + MaxBatch - 1 < Len(lg)
                                  THEN next + MaxBatch - 1 ELSE Len(lg)),
   leader_commit |-> commit_index[n]]

(* _broadcast_heartbeat *)
Broadcast(n, next, lg) == [p \in Peers(n) |-> AppendEntries(n, next[p], lg)]

(* Faulty: compares the votes before it counts the new one. *)
CountVote_Late(n, m) ==
  LET next  == [p \in Node |-> IF p = n THEN next_index[n][p] ELSE Len(log[n]) + 1]
  IN /\ m.term = current_term[n] /\ m.vote_granted
     /\ votes_received' = [votes_received EXCEPT ![n] = @ \cup {m.from}]
     /\ IF IsMajority(votes_received[n])
        THEN /\ state' = [state EXCEPT ![n] = "leader"]
             /\ elected' = elected \cup {<<current_term[n], n>>}
             /\ next_index' = [next_index EXCEPT ![n] = next]
             /\ match_index' = [match_index EXCEPT ![n] = [p \in Node |-> IF p = n THEN @[p] ELSE 0]]
             /\ ledger' = [ledger EXCEPT ![current_term[n]] = log[n]]
             /\ HandleAndSend(n, Broadcast(n, next, log[n]))
        ELSE /\ Handle(n)
             /\ UNCHANGED <<state, elected, ledger, leaderVars>>
     /\ UNCHANGED <<partitions, current_term, voted_for, ballots, log, acks, commitVars>>

(* _handle_vote_response counts a vote of the candidate's own term; at a    *)
(* majority it becomes leader and broadcasts at once.                       *)
CountVote(n, m) ==
  LET votes == votes_received[n] \cup {m.from}
      next  == [p \in Node |-> IF p = n THEN next_index[n][p] ELSE Len(log[n]) + 1]
  IN /\ m.term = current_term[n] /\ m.vote_granted
     /\ votes_received' = [votes_received EXCEPT ![n] = votes]
     /\ IF IsMajority(votes)
        THEN /\ state' = [state EXCEPT ![n] = "leader"]
             /\ elected' = elected \cup {<<current_term[n], n>>}
             /\ next_index' = [next_index EXCEPT ![n] = next]
             /\ match_index' = [match_index EXCEPT ![n] = [p \in Node |-> IF p = n THEN @[p] ELSE 0]]
             /\ ledger' = [ledger EXCEPT ![current_term[n]] = log[n]]
             /\ HandleAndSend(n, Broadcast(n, next, log[n]))
        ELSE /\ Handle(n)
             /\ UNCHANGED <<state, elected, ledger, leaderVars>>
     /\ UNCHANGED <<partitions, current_term, voted_for, ballots, log, acks, commitVars>>

HandleVoteResponse(n, m) ==
  /\ m.type = "vote_response"
  /\ IF state[n] = "candidate"
     THEN \/ StepDown(n, m)
          \/ CountVote(n, m)
          \/ /\ m.term < current_term[n] \/ (m.term = current_term[n] /\ ~m.vote_granted)
             /\ Ignore(n)
     ELSE Ignore(n)

-----------------------------------------------------------------------------
(* Replication.                                                            *)

(* Faulty: appends what arrives, whatever the log already holds. *)
Overwritten_Appended(lg, prev, entries) == lg \o entries

(* The follower's log once "entries" were written after its first "prev"    *)
(* positions: an entry of another term cuts off the log from there on, and  *)
(* an entry of the same term is left as it is.                              *)
Overwritten(lg, prev, entries) ==
  LET end       == prev + Len(entries)
      conflicts == {i \in prev + 1 .. end : i <= Len(lg) /\ lg[i].term # entries[i - prev].term}
      kept(i)   == i <= Len(lg) /\ \A j \in conflicts : i < j
      len       == IF conflicts = {} /\ end < Len(lg) THEN Len(lg) ELSE end
  IN [i \in 1..len |-> IF kept(i) THEN lg[i] ELSE entries[i - prev]]

(* Faulty: gives every future the result of the last command. *)
Apply_LastResult(n, upto, lg) ==
  LET fresh  == Len(applied[n]) + 1 .. upto
      served == DOMAIN pending[n] \cap fresh
  IN /\ commit_index' = [commit_index EXCEPT ![n] = upto]
     /\ applied' = [applied EXCEPT ![n] = [i \in 1..Len(@) \cup fresh |->
                      IF i \in fresh THEN lg[i].command ELSE @[i]]]
     /\ pending' = [pending EXCEPT ![n] = [i \in DOMAIN @ \ fresh |-> @[i]]]
     /\ request' = [c \in Command |->
          IF \E i \in served : pending[n][i] = c
          THEN [status |-> "answered", result |-> lg[upto].command]
          ELSE request[c]]

(* _apply_committed, after commit_index[n] became "upto" and the log "lg":  *)
(* each newly committed command goes to apply_callback, and the future      *)
(* registered at its position, whatever it was submitted for, gets its      *)
(* result.                                                                  *)
Apply(n, upto, lg) ==
  LET fresh  == Len(applied[n]) + 1 .. upto
      served == DOMAIN pending[n] \cap fresh
  IN /\ commit_index' = [commit_index EXCEPT ![n] = upto]
     /\ applied' = [applied EXCEPT ![n] = [i \in 1..Len(@) \cup fresh |->
                      IF i \in fresh THEN lg[i].command ELSE @[i]]]
     /\ pending' = [pending EXCEPT ![n] = [i \in DOMAIN @ \ fresh |-> @[i]]]
     /\ request' = [c \in Command |->
          IF \E i \in served : pending[n][i] = c
          THEN [status |-> "answered",
                result |-> lg[CHOOSE i \in served : pending[n][i] = c].command]
          ELSE request[c]]

(* The entries of the leader's own term in what the follower matched.       *)
Acknowledged(n, term, lg, matched) ==
  {<<term, n, i>> : i \in {j \in 1..matched : lg[j].term = term}}

(* _handle_append_entries.  The follower commits up to its own last entry,  *)
(* which may lie beyond the entries the message matched: that is recorded   *)
(* in "tainted".                                                            *)
HandleAppendEntries(n, m) ==
  LET current == m.term >= current_term[n]
      newer   == m.term > current_term[n]
      success == /\ current
                 /\ \/ m.prev_log_index = 0
                    \/ /\ m.prev_log_index <= Len(log[n])
                       /\ log[n][m.prev_log_index].term = m.prev_log_term
      matched == m.prev_log_index + Len(m.entries)
      lg      == IF success THEN Overwritten(log[n], m.prev_log_index, m.entries) ELSE log[n]
      upto    == IF m.leader_commit < Len(lg) THEN m.leader_commit ELSE Len(lg)
  IN /\ m.type = "append_entries"
     /\ current_term' = [current_term EXCEPT ![n] = IF newer THEN m.term ELSE @]
     /\ voted_for' = [voted_for EXCEPT ![n] = IF newer THEN None ELSE @]
     /\ state' = [state EXCEPT ![n] = IF current THEN "follower" ELSE @]
     /\ log' = [log EXCEPT ![n] = lg]
     /\ acks' = acks \cup (IF success THEN Acknowledged(n, m.term, lg, matched) ELSE {})
     /\ IF success /\ m.leader_commit > commit_index[n]
        THEN /\ Apply(n, upto, lg)
             /\ tainted' = tainted \cup (IF upto > matched THEN {"unmatched tail"} ELSE {})
        ELSE UNCHANGED commitVars
     /\ Reply(n, m.from, [type |-> "append_response", from |-> n, term |-> current_term'[n],
                          success |-> success, match_index |-> IF success THEN matched ELSE 0])
     /\ UNCHANGED <<partitions, votes_received, ballots, elected, ledger, leaderVars>>

(* Faulty: counts a follower that has everything but the entry itself. *)
Committable_OffByOne(n, match) ==
  {i \in commit_index[n] + 1 .. Len(log[n]) :
     /\ log[n][i].term = current_term[n]
     /\ IsMajority({n} \cup {p \in Peers(n) : match[p] >= i - 1})}

(* _update_commit_index: the largest position of the current term that a    *)
(* majority, n itself counted, is known to hold.                            *)
Committable(n, match) ==
  {i \in commit_index[n] + 1 .. Len(log[n]) :
     /\ log[n][i].term = current_term[n]
     /\ IsMajority({n} \cup {p \in Peers(n) : match[p] >= i})}

(* _handle_append_response: a success of an earlier term counts like one of *)
(* the current term (nothing compares m.term from below); recorded in       *)
(* "tainted" when it raises match_index, which a later commit may count.    *)
HandleAppendResponse(n, m) ==
  /\ m.type = "append_response"
  /\ IF state[n] = "leader"
     THEN \/ StepDown(n, m)
          \/ LET match == [match_index[n] EXCEPT ![m.from] = m.match_index]
                 ready == Committable(n, match)
             IN /\ m.term <= current_term[n] /\ m.success
                /\ match_index' = [match_index EXCEPT ![n] = match]
                /\ next_index' = [next_index EXCEPT ![n][m.from] = m.match_index + 1]
                /\ IF ready # {}
                   THEN \E i \in ready : (\A j \in ready : j <= i) /\ Apply(n, i, log[n])
                   ELSE UNCHANGED <<commit_index, applied, pending, request>>
                /\ tainted' = tainted \cup (IF /\ m.term < current_term[n]
                                                /\ m.match_index > match_index[n][m.from]
                                             THEN {"stale ack"} ELSE {})
                /\ Handle(n)
                /\ UNCHANGED <<partitions, electionVars, logVars>>
          \/ /\ m.term <= current_term[n] /\ ~m.success
             /\ next_index' = [next_index EXCEPT ![n][m.from] = IF @ > 1 THEN @ - 1 ELSE 1]
             /\ Handle(n)
             /\ UNCHANGED <<partitions, electionVars, logVars, match_index, commitVars>>
     ELSE Ignore(n)

(* _leader_tick *)
LeaderTick(n) ==
  /\ state[n] = "leader"
  /\ Send(n, Broadcast(n, next_index[n], log[n]))
  /\ UNCHANGED <<partitions, raftVars>>

-----------------------------------------------------------------------------
(* Clients.                                                                *)

(* submit() up to its await: on a node that is not the leader it returns    *)
(* None and changes nothing.  A future already registered at the position   *)
(* is overwritten and will never be set.                                    *)
Submit(n, c) ==
  LET lg == Append(log[n], [term |-> current_term[n], command |-> c])
  IN /\ state[n] = "leader"
     /\ request[c].status = "new"
     /\ log' = [log EXCEPT ![n] = lg]
     /\ ledger' = [ledger EXCEPT ![current_term[n]] = lg]
     /\ acks' = acks \cup {<<current_term[n], n, Len(lg)>>}
     /\ pending' = [pending EXCEPT ![n] = [i \in DOMAIN @ \cup {Len(lg)} |->
                      IF i = Len(lg) THEN c ELSE @[i]]]
     /\ request' = [request EXCEPT ![c] = [status |-> "waiting", node |-> n, index |-> Len(lg)]]
     /\ Send(n, Broadcast(n, next_index[n], lg))
     /\ UNCHANGED <<partitions, electionVars, leaderVars, commit_index, applied, tainted>>

(* wait_for in submit() times out and pops whatever future is registered at *)
(* the position by then.                                                    *)
SubmitTimeout(c) ==
  LET r == request[c]
  IN /\ r.status = "waiting"
     /\ request' = [request EXCEPT ![c] = [status |-> "expired"]]
     /\ pending' = [pending EXCEPT ![r.node] = [i \in DOMAIN @ \ {r.index} |-> @[i]]]
     /\ UNCHANGED <<busVars, electionVars, logVars, leaderVars, commit_index, applied, tainted>>

-----------------------------------------------------------------------------
(* One turn of n's dispatch loop.                                          *)
Dispatch(n) ==
  /\ inbox[n] # <<>>
  /\ LET m == Head(inbox[n])
     IN \/ HandleRequestVote(n, m)
        \/ HandleVoteResponse(n, m)
        \/ HandleAppendEntries(n, m)
        \/ HandleAppendResponse(n, m)

Cut(S) ==
  /\ Cardinality(partitions \cup S) <= MaxCut
  /\ PartitionNodes(S)
  /\ UNCHANGED raftVars

Heal == partitions # {} /\ HealPartition /\ UNCHANGED raftVars

Next ==
  \/ \E n \in Node : ElectionTimeout(n) \/ LeaderTick(n) \/ Dispatch(n)
  \/ \E n \in Node, c \in Command : Submit(n, c)
  \/ \E c \in Command : SubmitTimeout(c)
  \/ \E S \in SUBSET Node : Cut(S)
  \/ Heal

Spec == Init /\ [][Next]_vars

-----------------------------------------------------------------------------
(* Properties.                                                             *)

(* Every variable holds values of the kind the code gives it. *)
TypeOK ==
  /\ inbox \in [Node -> Seq(Message)]
  /\ partitions \subseteq Node
  /\ state \in [Node -> {"follower", "candidate", "leader"}]
  /\ current_term \in [Node -> Nat]
  /\ voted_for \in [Node -> Node \cup {None}]
  /\ votes_received \in [Node -> SUBSET Node]
  /\ log \in [Node -> Seq(Entry)]
  /\ commit_index \in [Node -> Nat]
  /\ applied \in [Node -> Seq(Command)]
  /\ next_index \in [Node -> [Node -> Nat \ {0}]]
  /\ match_index \in [Node -> [Node -> Nat]]
  /\ DOMAIN pending = Node
  /\ \A n \in Node :
       DOMAIN pending[n] \subseteq Nat /\ \A i \in DOMAIN pending[n] : pending[n][i] \in Command
  /\ request \in [Command -> Request]
  /\ ballots \subseteq Nat \X Node \X Node
  /\ elected \subseteq Nat \X Node
  /\ ledger \in [1..MaxTerm -> Seq(Entry)]
  /\ acks \subseteq Nat \X Node \X Nat
  /\ tainted \subseteq {"stale ack", "unmatched tail"}

(* Election Safety (architecture.md:66-71): no term is ever won by two      *)
(* nodes, even if the first winner has stepped down since: every victory    *)
(* needs a majority of votes and a node's voted_for allows one per term.    *)
ElectionSafety ==
  \A e, f \in elected : e[1] = f[1] => e[2] = f[2]

(* Log Matching (architecture.md:66-71): two logs with an entry of one term *)
(* at one position hold the same entries up to there, through every         *)
(* truncation and every re-sent or reordered AppendEntries.                 *)
LogMatching ==
  \A m, n \in Node :
    \A i \in DOMAIN log[m] \cap DOMAIN log[n] :
      log[m][i].term = log[n][i].term => SubSeq(log[m], 1, i) = SubSeq(log[n], 1, i)

(* Leader Completeness and State Machine Safety (architecture.md:66-71),    *)
(* until a step commits on evidence the protocol does not allow: no two     *)
(* nodes apply different commands at one position, and what a node applied  *)
(* stays in every later leader's log.                                       *)
AppliedAgree ==
  \A m, n \in Node :
    \A i \in DOMAIN applied[m] \cap DOMAIN applied[n] : applied[m][i] = applied[n][i]

LeadersHoldApplied ==
  \A m, n \in Node :
    state[n] = "leader" /\ current_term[n] >= current_term[m] =>
      \A i \in DOMAIN applied[m] : i \in DOMAIN log[n] /\ log[n][i].command = applied[m][i]

StateMachineSafety == AppliedAgree /\ LeadersHoldApplied
SafeUntilTainted == tainted = {} => StateMachineSafety

(* A candidate that holds a majority of votes does not wait for more: the   *)
(* transition CANDIDATE --(majority votes)--> LEADER of algorithms.md:19    *)
(* is taken in the step that completes the majority.                        *)
MajorityLeads == \A n \in Node : state[n] = "candidate" => ~IsMajority(votes_received[n])

(* Until a second leader is elected, submit() hands its caller the result   *)
(* of the caller's own command, and a caller that waits has its future      *)
(* registered (algorithms.md:26-30).  After that _apply_committed resolves  *)
(* the future at a position for whatever command has come to stand there.   *)
AnswersAreOwn ==
  Cardinality(elected) <= 1 =>
    \A c \in Command :
      /\ request[c].status = "answered" => request[c].result = c
      /\ request[c].status = "waiting" =>
           LET n == request[c].node
               i == request[c].index
           IN i \in DOMAIN pending[n] /\ pending[n][i] = c

(* A node never takes back a vote nor goes back in time: its term only      *)
(* grows, and a vote given in a term stays until the term is left, whatever *)
(* mix of requests, responses and heartbeats arrives.                       *)
VotesAreFinal ==
  [][\A n \in Node :
       /\ current_term'[n] >= current_term[n]
       /\ voted_for[n] # None /\ current_term'[n] = current_term[n] =>
            voted_for'[n] = voted_for[n]]_vars
=============================================================================
