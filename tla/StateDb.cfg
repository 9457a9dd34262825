SPECIFICATION TableSpec
CONSTANTS
  MaxTurns = 2
  MaxRows = 7
INVARIANTS ExactlyOneRound RecoveredIsValid ResultsAnswer StableRecovery 
CHECK_DEADLOCK FALSE
