SPECIFICATION FairSpec
CONSTANTS
  mem_start_brk = 2
  MAX_HEAP = 16
  CHUNKSIZE = 8
  INT_MAX = 1023
  Ids = {1, 2}
  Sizes = {0, 1, 24, 40, 1023}
  Pattern <- MCPattern
  Garbage <- MCGarbage
PROPERTIES
  CallReturns
  KeepsPromise
