CONSTANTS
  n1 = n1
  n2 = n2
  n3 = n3
  k1 = k1
  k2 = k2
  c1 = c1
  c2 = c2
  NoClient = NoClient
  Node = {n1, n2, n3}
  MaxInbox = 2
  Key = {k1, k2}
  Client = {c1, c2}
  MaxSize = 1
  MaxWrites = 2
  MaxReads = 2
SPECIFICATION Spec
INVARIANTS
  TypeOK
  PolicyMirrorsCache
  StaleIsDoomed
  OwnerIsAlone
SYMMETRY Symmetry
CHECK_DEADLOCK FALSE
