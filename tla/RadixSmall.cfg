\* Fewer elements than the middle digit has values that the last table lacks.
CONSTANTS
  N = 2
  LowBase = 2
  MidBase = 8
  HighBase = 2
  Spare = 1
  Junk = {0, 1}
  Stray = {0}
SPECIFICATION SafeSpec
INVARIANTS
  ResetsInside
