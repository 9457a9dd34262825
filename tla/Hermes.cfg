SPECIFICATION Spec
CONSTANTS
  t1 = t1
  t2 = t2
  c1 = c1
  c2 = c2
  Threads = {t1, t2}
  Calls = {c1}
  NamedCalls = TRUE
  Turns = 2
  MaxOverlaps = 1
  MaxRounds = 4
SYMMETRY Alike
INVARIANTS ClosedIsCaptured NoneForgotten   ResultsPaired
CHECK_DEADLOCK FALSE
