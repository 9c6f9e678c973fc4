SPECIFICATION Spec
CONSTANTS
  Width = 3
  Height = 3
  Colours = {0, 1}
  CorreMax = 2
  MaxRectSize = 5
  TightRectSize = 4
  TightRectWidth = 2
  MinSplit = 4
  MinSolid = 2
  Tile = 2
  MaxEmpty = 4
INVARIANTS
  SentExactlyOnce
  AnnouncedUnlessEmpty
  SolidIsSolid
CHECK_DEADLOCK FALSE
