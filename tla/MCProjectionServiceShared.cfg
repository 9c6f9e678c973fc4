SPECIFICATION Spec
CONSTANTS
  SettingNames = {"brightness", "orientation"}
  Clients = {c1, c2}
  MaxQueue = 4
INVARIANTS
  ProjectingWhileConnected
