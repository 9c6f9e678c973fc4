SPECIFICATION Spec
CONSTANTS
  Clients = {c1, c2}
  Fds = {1, 2, 3}
  Listeners = {4, 6}
  Nil = Nil
INVARIANTS
  ListWellFormed
  WorkerOnLiveRecord
  SelectWatches
  NeverBlocks
PROPERTIES
  EventsSpec
  LeaverReported
CHECK_DEADLOCK FALSE
