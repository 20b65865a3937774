SPECIFICATION FairSpec
CONSTANTS
  MaxUpdates = 2
  Kinds = {"text", "menu", "ask", "clear", "toggle"}
  Pollers = {w1, w2}
  None = None
  MaxReloads = 1
  MaxCrashes = 1
INVARIANTS
  ConfirmedIsHandled
  InOrder
  OncePerPoller
  OneLivePoller
PROPERTIES
  Delivered
CHECK_DEADLOCK FALSE
