---------------------------- MODULE MCRaftStale ----------------------------
(***************************************************************************)
(* Raft along one schedule: every step is a step of Raft, "Schedule" only  *)
(* says which.  An AppendEntries message of term 3 waits in B's channel    *)
(* while its sender A loses the term, has its log overwritten and wins     *)
(* term 5; B's late acknowledgement then makes A commit an entry that only *)
(* A holds, and C goes on to commit another one in its place.              *)
(***************************************************************************)
EXTENDS Raft, SequencesExt

CONSTANTS A, B, C,             \* the three nodes
          a0, a1, c0, d, e     \* the commands, in the order they are submitted

VARIABLE step                  \* how much of the schedule has been followed

Timeout(n) == <<"timeout", n>>
Turn(n)    == <<"dispatch", n>>
Tick(n)    == <<"tick", n>>
Call(n, c) == <<"submit", n, c>>
CutOff(S)  == <<"cut", S>>
HealAll    == <<"heal">>

Schedule == FlattenSeq(<<
  \* A wins term 1 with B's vote and appends a0, a1 alone.
  <<Timeout(A), Turn(B), CutOff({A}), Turn(C), Turn(A), Call(A, a0), Call(A, a1)>>,
  \* C wins term 2 with B's vote and appends c0 alone.
  <<Timeout(C), Turn(B), CutOff({B}), Turn(C), Call(C, c0), HealAll>>,
  \* A learns of term 2, wins term 3 with B's vote and backs up to B's log:
  \* its AppendEntries with a0, a1 is left in B's channel.
  <<Tick(A), Turn(B), Turn(C), Turn(A), Turn(A)>>,
  <<Timeout(A), Turn(B), Turn(C), CutOff({C}), Turn(A), Turn(A)>>,
  <<Turn(B), Turn(A), Tick(A), Turn(B), Turn(A), Tick(A), HealAll>>,
  \* C wins term 4 with A's vote and overwrites A's log with c0.
  <<CutOff({B}), Timeout(C), Turn(A), Turn(C), Turn(A), Turn(C), Tick(C), Turn(A), Turn(C)>>,
  \* A wins term 5 with C's vote and appends d alone.
  <<Timeout(A), Turn(C), CutOff({C}), Turn(A), Call(A, d), HealAll>>,
  \* B takes the message of term 3 and acknowledges position 2: A commits d.
  <<Turn(B), Turn(A), CutOff({A})>>,
  \* C wins term 6 with B's vote and commits e at d's position.
  <<Timeout(C), Turn(B), Turn(C), Call(C, e), Turn(B), Turn(C), Turn(B), Turn(C)>>,
  <<Tick(C), Turn(B), Turn(C)>> >>)

Follow(s) ==
  \/ s[1] = "timeout"  /\ ElectionTimeout(s[2])
  \/ s[1] = "dispatch" /\ Dispatch(s[2])
  \/ s[1] = "tick"     /\ LeaderTick(s[2])
  \/ s[1] = "submit"   /\ Submit(s[2], s[3])
  \/ s[1] = "cut"      /\ Cut(s[2])
  \/ s[1] = "heal"     /\ Heal

ScheduledInit == Init /\ step = 0
ScheduledNext == step < Len(Schedule) /\ step' = step + 1 /\ Follow(Schedule[step + 1])
ScheduledSpec == ScheduledInit /\ [][ScheduledNext]_<<vars, step>>
=============================================================================
