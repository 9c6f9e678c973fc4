SPECIFICATION Spec
CONSTANTS
  Clients = {c1, c2}
  MaxFrames = 3
  NULL = NULL
SYMMETRY ClientSymmetry
INVARIANTS
  TypeOK
  NoTearing
  LockDiscipline
  NewestKept
  ClientsUpToDate
