SPECIFICATION Spec
CONSTANTS
  MaxUpdates = 3
  Kinds = {"clear"}
  Pollers = {w1, w2}
  None = None
  MaxReloads = 0
  MaxCrashes = 0
INVARIANTS
  OneRestart
CHECK_DEADLOCK FALSE
