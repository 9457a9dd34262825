SPECIFICATION Spec
CONSTANTS
  Items = {1, 2}
  Forms = {"old", "new", "bad"}
  MaxPasses = 2
INVARIANTS  SpoolCurrent SecondIsIdle
CHECK_DEADLOCK FALSE
