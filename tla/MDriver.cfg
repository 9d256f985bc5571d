SPECIFICATION FairSpec
CONSTANTS
  Ids = {0, 1}
  Traces <- MCTraces
  NumTraces = 2
  Top = 8
  Breaks = {4, 8}
  ALIGNMENT = 2
  Low = 2
  Repeats = 2
INVARIANTS
  RangesAreTheBlocks
  PointersOfThisPass
  NoFalseAlarm
  OverlapOnlyAround
  UtilizationIsHonest
PROPERTIES
  Ends
CHECK_DEADLOCK FALSE
