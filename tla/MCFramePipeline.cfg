SPECIFICATION Spec
CONSTANTS
  Clients = {c1}
  MaxFrames = 3
  NULL = NULL
INVARIANTS
  NoTearing
  LockDiscipline
  NewestKept
  ClientsUpToDate
PROPERTIES
  MailboxSpec
  FrameConsumed
  StopReturns
  UpdateDelivered
