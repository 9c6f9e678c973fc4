SPECIFICATION Spec
CONSTANTS
  Width = 4
  Height = 3
  Colours = {0, 1}
  CorreMax = 2
  MaxRectSize = 5
  TightRectSize = 6
  TightRectWidth = 3
  MinSplit = 4
  MinSolid = 2
  Tile = 2
  MaxEmpty = 4
INVARIANTS
  SentExactlyOnce
  AnnouncedUnlessEmpty
  SolidIsSolid
  FitsTightBuffer
  BestAsTheLoop
CHECK_DEADLOCK FALSE
