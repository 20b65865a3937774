SPECIFICATION FairSpec
CONSTANTS
  Jobs = {j1, j2}
  Sessions = {main, other}
  Main = main
  Agents = {a1}
  None = None
  Kinds = {"stop", "reset", "config", "update"}
  Channels = {"cli", "telegram"}
  Hooked = {}
  MaxBoots = 0
INVARIANTS
  RequestsServed
PROPERTIES
  QueuedIsServed
  AwaitedStopStops
CHECK_DEADLOCK FALSE
