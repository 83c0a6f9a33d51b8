CONSTANTS
  N = 5
  Value = {1, 2, 3}
  Middle = {FALSE}
  Cut = 1
SPECIFICATION SafeSpec
PROPERTIES
  Sorts
