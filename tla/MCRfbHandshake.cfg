SPECIFICATION Spec
CONSTANTS
  Clients = {c1, c2}
  Minors = {3, 6, 7, 8, 889}
  MaxRequests = 2
  NoClient = NoClient
INVARIANTS
  InSync
  NoMutualWait
PROPERTIES
  OpeningEnds
CHECK_DEADLOCK FALSE
