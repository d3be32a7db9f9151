CONSTANTS
  k1 = k1
  k2 = k2
  r1 = r1
  Client = {k1,k2}
  Resource = {r1}
  Mode = {"shared", "exclusive"}
  MaxUnderWay = 2
  MaxAbandoned = 1
  Reacquire = TRUE
SPECIFICATION Spec
SYMMETRY Symmetry
CONSTRAINT Explored
INVARIANTS
  TypeOK
  ExclusiveIsAlone
  FirstWaiterIsBlocked
  GrantStands
