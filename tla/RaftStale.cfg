CONSTANTS
  A = A
  B = B
  C = C
  a0 = a0
  a1 = a1
  c0 = c0
  d = d
  e = e
  Node = {A, B, C}
  Command = {a0, a1, c0, d, e}
  None = None
  MaxInbox = 5
  MaxTerm = 6
  MaxBatch = 50
  MaxCut = 2
SPECIFICATION ScheduledSpec
CHECK_DEADLOCK FALSE
INVARIANT AppliedAgree
