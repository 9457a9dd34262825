SPECIFICATION FairSpec
CONSTANTS
  t1 = t1
  t2 = t2
  s1 = s1
  s2 = s2
  Sessions = {s1}
  Threads = {t1, t2}
  Bootstrap = TRUE
  MaxLeases = 3
  MaxFaults = 2
INVARIANTS BeatsAreOwned ReleasedOnce 
PROPERTY LeasesEnd
CHECK_DEADLOCK FALSE
