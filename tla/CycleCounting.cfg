CONSTANTS
  NumThreads = 3
  MaxWork = 2
SPECIFICATION Spec
INVARIANTS
  CntIsWork
  StopsAtTimeout
  AllReport
PROPERTIES
  Ends
