SPECIFICATION RegionSpec
CONSTANTS
  Columns = 3
  Rows = 2
  MinSide = 0
  NULL = NULL
INVARIANTS
  UpdateRectsValid
