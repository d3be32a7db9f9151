CONSTANTS
  e1 = e1
  e2 = e2
  e3 = e3
  b1 = b1
  w1 = w1
  w2 = w2
  Event = {e1, e2, e3}
  Refused = {e3}
  Batch = {b1}
  Bodies <- Pairs
  Worker = {w1, w2}
  Count = 2
  ClaimEvery = 2
  MaxAttempts = 2
  MaxFaults = 1
SPECIFICATION FairSpec
INVARIANTS
  TypeOK
  AcknowledgedIsProcessed
  AcceptedIsInStream
  CountersCoverAcknowledged
PROPERTIES
  ImplementsEventLog
  AcceptedIsProcessed
