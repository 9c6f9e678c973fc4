SPECIFICATION Spec
CONSTANTS
  Clients = {c1, c2, c3}
  Full = full
  Sizes = {half, third}
  MaxLeaks = 1
SYMMETRY ScaleSymmetry
INVARIANTS
  NoUntoldPixels
