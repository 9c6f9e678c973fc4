SPECIFICATION FairSpec
CONSTANTS
  Width = 2
  Height = 2
  Wrap = 4
  CursorWidth = 1
  CursorHeight = 1
  Once = {"identity"}
  MaxFrames = 2
INVARIANTS
  NoLostChange
  NoGhostCursor
PROPERTIES
  PictureCatchesUp
CHECK_DEADLOCK FALSE
