CONSTANTS
  a = a
  b = b
  c = c
  Nodes = {a, b, c}
  MaxRequests = 5
  Topics = {"cuaca", "berita", "saham", "olahraga"}
  MaxPubs = 3
  Burst = 2
  MaxMessages = 5
  MaxResets = 2
SPECIFICATION FairSpec
INVARIANTS
  TypeOK
  OneAtATime
  DeliveredInOrder
PROPERTIES
  ClientIsUnblocked
CHECK_DEADLOCK FALSE
