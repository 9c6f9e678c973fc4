SPECIFICATION ShareSpec
CONSTANTS
  SettingNames = {}
  Clients = {c1}
  MaxQueue = 2
  Rotations = {0, 1}
  MaxAsked = 1
INVARIANT PictureFitsRotation
