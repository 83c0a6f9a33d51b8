\* Five elements with up to three values for quicksort, five of two bits
\* for AVX2 with vectors of two words, three of digits with two, four and two values for radix.
CONSTANTS
  N = 5
  Value = {1, 2, 3}
  Middle = {TRUE, FALSE}
  Cut = 0
  RadixN = 3
  LowBase = 2
  MidBase = 4
  HighBase = 2
  Spare = 1
  Junk = {0, 1}
  Stray = {0, 3, 12, 99}
  AvxN = 5
  Small = 2
  Lanes = 2
  Half = 2
SPECIFICATION BenchSpec
INVARIANTS
  ReadsInRange
  CallsAreSmaller
  SlotsAreOwn
PROPERTIES
  Sorts
  RadixSorts
  AvxSorts
