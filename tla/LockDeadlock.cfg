CONSTANTS
  k1 = k1
  k2 = k2
  r1 = r1
  r2 = r2
  Client = {k1,k2}
  Resource = {r1,r2}
  Mode = {"exclusive"}
  MaxUnderWay = 1
  MaxAbandoned = 0
  Reacquire = FALSE
SPECIFICATION FairSpec
INVARIANTS
  ClientLocksMirrorHolders
PROPERTIES
  DeadlockIsBroken
