\* Addresses of base 3: two networks of nine before the hole, nine in it.
CONSTANTS
  Byte = 3
  Jump = 2
  First = 9
  Hole = 3
  Window = 3
  Total = 17
  FdLimit = 5
  MaxLeaks = 2
SPECIFICATION Spec
INVARIANTS
  CountsMatch
  WindowHeld
  NoBroadcast
PROPERTIES
  ScanCompletes
  EachIsClosed
