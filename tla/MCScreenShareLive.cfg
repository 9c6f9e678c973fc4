SPECIFICATION ShareSpec
CONSTANTS
  SettingNames = {}
  Clients = {c1}
  MaxQueue = 2
  Rotations = {0}
  MaxAsked = 1
INVARIANTS
  ShareTypeOK
PROPERTIES
  UnwantedServerEnds
