CONSTANTS
  Threads = 2
  NumThreads = 2
  Part = 7
  Stride = 2
  LargeWords = 10
  RatioPct = 80
  Hops = 2
  Null = Null
  One = One
  Junk = Junk
SPECIFICATION Spec
INVARIANTS
  CursorsOnHeads
  RingsStartClean
  PartsKeepApart
PROPERTIES
  FillKeepsRing
  ProgramEnds
