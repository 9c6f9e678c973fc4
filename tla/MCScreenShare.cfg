SPECIFICATION ShareSpec
CONSTANTS
  SettingNames = {}
  Clients = {c1}
  MaxQueue = 2
  Rotations = {0, 1, 3}
  MaxAsked = 2
INVARIANTS
  OffWillStop
  NoStaleService
  RotationPassedOn
PROPERTIES
  ServiceSpec
