CONSTANTS
  e1 = e1
  e2 = e2
  p1 = p1
  p2 = p2
  Event = {e1, e2}
  Run = {p1, p2}
  Plans <- ShortPlans
  MaxRestarts = 1
SPECIFICATION FairSpec
INVARIANTS
  TypeOK
  EveryEventIsAccounted
PROPERTIES
  ImplementsEventLog
  QueuedIsStored
CHECK_DEADLOCK FALSE
