SPECIFICATION FairSpec
CONSTANTS
  c1 = c1
  c2 = c2
  Captures = {}
  MaxThreads = 1
  MaxFaults = 0
  Unloads = FALSE
PROPERTY ExitEnds
CHECK_DEADLOCK FALSE
