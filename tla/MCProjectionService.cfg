SPECIFICATION Spec
CONSTANTS
  SettingNames = {"brightness", "orientation"}
  Clients = {c1}
  MaxQueue = 6
INVARIANTS
  ProjectingWhileConnected
  SettingsRestored
  RendererHasBuffers
PROPERTIES
  CrashOnlyAfterDestroy
  ViewerIsServed
