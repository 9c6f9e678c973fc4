SPECIFICATION Spec
CONSTANTS
  Width = 2
  Height = 2
  Wrap = 4
  CursorWidth = 1
  CursorHeight = 1
  Once = {"identity"}
  MaxFrames = 2
CHECK_DEADLOCK FALSE
INVARIANTS
  CursorPutUp
