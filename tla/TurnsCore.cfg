SPECIFICATION Spec
CONSTANTS
  Jobs = {j1, j2, j3}
  Sessions = {main, other}
  Main = main
  Agents = {a1, a2}
  None = None
  Kinds = {"message", "reset", "startup"}
  Channels = {"telegram"}
  Hooked = {"SessionStart", "SessionEnd"}
  MaxBoots = 1
SYMMETRY Symmetry
INVARIANTS
  QueueExact
  NoStrandedQueue
  LockHasHolder
  ExclusiveUntilQueued
  StateMatchesTurns
CHECK_DEADLOCK FALSE
