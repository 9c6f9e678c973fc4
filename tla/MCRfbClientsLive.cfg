SPECIFICATION Spec
CONSTANTS
  Clients = {c1, c2}
  Fds = {1, 2, 3}
  Listeners = {4}
  Nil = Nil
INVARIANTS
  TypeOK
PROPERTIES
  ShutdownEnds
CHECK_DEADLOCK FALSE
