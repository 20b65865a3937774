SPECIFICATION Spec
CONSTANTS
  Calls = {c1, c2, c3}
  Procs = {p1, p2}
  None = None
  MaxPushes = 1
  MaxCrashes = 1
  Worked = TRUE
SYMMETRY Symmetry
INVARIANTS
  ExclusiveUnlessMistaken
  NoLockLeftBehind
  WedgedOnlyByRivals
  CommitsKept
  RestartsInstalled
CHECK_DEADLOCK FALSE
