SPECIFICATION FairSpec
CONSTANTS
  r1 = r1
  r2 = r2
  w1 = w1
  w2 = w2
  Captures = {r1, r2}
  Workers = {w1}
  MaxAttempts = 2
  MaxFiles = 2
  MaxBytes = 6
  EvidenceBytes = 2
  NoteBytes = 1
  RoundBytes = 3
  MaxCaptures = 1
  MaxCrashes = 1
INVARIANTS CaptureKept PromotionsBounded
  
CHECK_DEADLOCK FALSE
