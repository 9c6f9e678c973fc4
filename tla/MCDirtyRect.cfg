SPECIFICATION Spec
CONSTANTS
  Width = 4
  Height = 3
  Stride = 4
  Shift = 1
INVARIANTS
  MarkedIffChanged
  CoveredButEdges
PROPERTIES
  Terminates
