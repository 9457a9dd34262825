SPECIFICATION Spec
CONSTANTS
  Rounds = {1}
  MaxAttempts = 2
  MaxFiles = 3
  MaxBytes = 100
  RoundBytes = 4
  StampBytes = 1
  Producers = {p1}
  Workers = {w1, w2}
  PopLimit = 1
  MaxEnqueues = 1
  MaxCrashes = 0
  p1 = p1
  p2 = p2
  w1 = w1
  w2 = w2
INVARIANTS NoRoundLost
