\* Both programs; the first iteration may be the faster of two.
CONSTANTS
  N = 1
  NTimes = 2
  Elapsed = {1, 3}
  Junk = {0}
  FltMax = 9
SPECIFICATION Spec
INVARIANT BestAfterFirst
