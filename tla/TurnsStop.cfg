SPECIFICATION FairSpec
CONSTANTS
  Jobs = {j1, j2}
  Sessions = {main}
  Main = main
  Agents = {a1}
  None = None
  Kinds = {"stop"}
  Channels = {"cli", "telegram"}
  Hooked = {}
  MaxBoots = 0
PROPERTIES
  StopTakesEffect
CHECK_DEADLOCK FALSE
