SPECIFICATION RegionSpec
CONSTANTS
  Columns = 3
  Rows = 2
  MinSide = 1
  NULL = NULL
INVARIANTS
  BBoxCovers
