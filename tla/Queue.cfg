CONSTANTS
  n1 = n1
  n2 = n2
  m1 = m1
  m2 = m2
  Node = {n1, n2}
  MaxInbox = 1
  Msg = {m1, m2}
  ReplicationFactor = 2
  Cuttable = {n1, n2}
  MaxAsked = 1
  MaxRestarts = 1
SPECIFICATION Spec
INVARIANTS
  TypeOK
  LoggedIsHeld
  OneCopy
SYMMETRY Symmetry
