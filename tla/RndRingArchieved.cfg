\* mem_lat.c on a buffer of five segments, below 256M.
CONSTANTS
  NSegs = 5
  Empty = NULL
  Cursors = 1
  MinDone = 0
  RatioPct = 50
  Large = FALSE
SPECIFICATION Spec
INVARIANTS
  ArchievedIsWhole
