SPECIFICATION Spec
CONSTANTS
  mem_start_brk = 2
  MAX_HEAP = 18
  CHUNKSIZE = 6
  INT_MAX = 1023
  Ids = {1, 2, 3}
  Sizes = {0, 1, 24, 1023}
  Pattern <- MCPattern
  Garbage <- MCGarbage
INVARIANTS
  BlocksHaveRoom
  ReallocPreserves
  FirstFit
  NullMeansFull
  BlocksDisjoint
  ContentsIntact
  ListWellFormed
  Coalesced
  NoLeak
