\* Stream: three elements, a first iteration and a counted one.
\* freqLat: strides that divide the size and strides that do not.
\* result_parser: any of four files missing or without rows.  pagefault_test: a remainder.
\* tlbShootDownBench: a page per thread and one that no thread writes to.
\* memOpsLat: arrays on the heap and mapped, sizes an int cuts down.
CONSTANTS
  N = 3
  NTimes = 2
  Elapsed = {1, 3}
  Junk = {0, 7}
  FltMax = 9
  NBytes = 12
  Strides = {1, 2, 3, 4, 5, 6, 7, 8, 9, 10, 11, 12}
  Hops = 8
  MaxSlices = 3
  NFiles = 4
  Latency = {1, 2, 5}
  Empty = Empty
  Absent = Absent
  PageSize = 4
  Size = 28
  Threads = {1, 2, 3}
  Nodes = 2
  IntMax = 16
  TypeSize = 2
  ArraySizes = {1, 3, 6, 7, 8, 17}
  MapThreshold = 8
  NumThreads = 2
  NumPages = 3
  PerPage = 1
  Cnt = 2
  MaxReports = 2
SPECIFICATION ProgramsSpec
INVARIANTS
  StreamTells
  RingIsWhole
  DeltasAddUp
  StatsAreOfFiles
  EachPageOnce
  NodesGetTheirOwn
  PagesGivenBack
  PassesTell
  EveryFaultIsTold
  FaultsAreCaused
