SPECIFICATION Spec
CONSTANTS
  Calls = {c1, c2}
  Procs = {p1, p2}
  None = None
  MaxPushes = 0
  MaxCrashes = 0
  Worked = FALSE
SYMMETRY Symmetry
INVARIANTS
  Exclusive
CHECK_DEADLOCK FALSE
