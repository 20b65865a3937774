SPECIFICATION FairSpec
CONSTANTS
  Pids = {p1, p2, u1}
  Units = {u1}
  NoPid = NoPid
  Empty = Empty
  Overlap = 3
  Restarts = TRUE
  Crashes = TRUE
  Recycled = FALSE
  Reused = TRUE
PROPERTIES
  Converges
  SettledStays
  AloneTakesOver
CHECK_DEADLOCK FALSE
