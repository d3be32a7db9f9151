CONSTANTS
  k1 = k1
  k2 = k2
  r1 = r1
  Client = {k1,k2}
  Resource = {r1}
  Mode = {"shared", "exclusive"}
  MaxUnderWay = 1
  MaxAbandoned = 0
  Reacquire = FALSE
SPECIFICATION Spec
CONSTRAINT Explored
PROPERTIES
  BlocksUntilGranted
