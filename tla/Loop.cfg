SPECIFICATION FairSpec
CONSTANTS
  c1 = c1
  c2 = c2
  Captures = {c1, c2}
  MaxThreads = 2
  MaxFaults = 1
  Unloads = TRUE
INVARIANTS TypeOK OneThread  
 
CHECK_DEADLOCK FALSE
