\* ParallelCacheMiss.c, the sentinel that is a segment; three cursors.
CONSTANTS
  NSegs = 4
  Empty = 0
  Cursors = 3
  MinDone = 1
  RatioPct = 60
  Large = TRUE
SPECIFICATION Spec
INVARIANTS
  Chain
  Ring
  LoadsAreParallel
PROPERTIES
  SetupEnds
