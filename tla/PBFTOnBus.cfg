CONSTANTS
  n0 = n0
  n1 = n1
  n2 = n2
  n3 = n3
  r1 = r1
  r2 = r2
  Node = {n0, n1, n2, n3}
  Primary = n0
  Request = {r1, r2}
  Faults = {{}}
  MaxSeq = 2
  MaxInbox = 9
  Cut = {{n3}}
SPECIFICATION FairSpecOnBus
INVARIANTS
  TypeOKOnBus
  ExecutedInOrder
PROPERTIES
  SubmittedIsExecuted
CHECK_DEADLOCK FALSE
