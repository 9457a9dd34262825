SPECIFICATION FairSpec
CONSTANTS
  Rounds = {1, 2}
  MaxAttempts = 2
  MaxFiles = 2
  MaxBytes = 100
  RoundBytes = 4
  StampBytes = 1
  Producers = {p1}
  Workers = {w1}
  PopLimit = 2
  MaxEnqueues = 1
  MaxCrashes = 1
  p1 = p1
  p2 = p2
  w1 = w1
  w2 = w2
INVARIANTS SubmissionsBounded
PROPERTIES AcceptedSettles
