SPECIFICATION Spec
CONSTANTS
  Clients = {c1, c2, c3}
  Fds = {1, 2, 3, 4}
  Listeners = {4}
  Nil = Nil
SYMMETRY ClientSymmetry
INVARIANTS
  ListWellFormed
  WorkerOnLiveRecord
  PointerHolderLives
  ClosedAreCollected
CHECK_DEADLOCK FALSE
