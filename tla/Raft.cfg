CONSTANTS
  n1 = n1
  n2 = n2
  n3 = n3
  c1 = c1
  c2 = c2
  Node = {n1, n2, n3}
  Command = {c1, c2}
  None = None
  MaxInbox = 1
  MaxTerm = 2
  MaxBatch = 2
  MaxCut = 1
  MaxCandidacies = 2
  MaxExpired = 0
SPECIFICATION Spec
CONSTRAINT Explored
SYMMETRY Symmetry
VIEW View
INVARIANTS
  TypeOK
  ElectionSafety
  LogMatching
  SafeUntilTainted
  MajorityLeads
  AnswersAreOwn
PROPERTIES
  VotesAreFinal
