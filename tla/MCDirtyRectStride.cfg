SPECIFICATION Spec
CONSTANTS
  Width = 3
  Height = 3
  Stride = 4
  Shift = 0
INVARIANTS
  MarkedIffChanged
