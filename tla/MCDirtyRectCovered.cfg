SPECIFICATION Spec
CONSTANTS
  Width = 3
  Height = 3
  Stride = 3
  Shift = 0
INVARIANTS
  Covered
