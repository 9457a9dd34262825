SPECIFICATION Spec
CONSTANTS
  Hooks = {h1, h2}
  Turns = 2
  Calls = {c1}
  Anonymous = {}
  Capacity = 1
  MaxKills = 1
  MaxOutages = 1
  MaxOverlaps = 1
  h1 = h1
  h2 = h2
  c1 = c1
  c2 = c2
INVARIANTS PromptKept    LeaseAccounted
SYMMETRY HookSymmetry
CHECK_DEADLOCK FALSE
CONSTRAINT FewMishaps
