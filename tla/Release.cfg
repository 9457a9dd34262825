SPECIFICATION Spec
CONSTANTS
  Commits = {"A", "B"}
  Artifacts = 3
  MaxBuilds = 2
  MaxMoves = 2
  MaxDamages = 1
INVARIANTS ManifestWhole AcceptedIntact AcceptedCurrent
CHECK_DEADLOCK FALSE
