SPECIFICATION Spec
CONSTANTS
  Sessions <- TwoSessions
  Main = "main"
  MaxTexts = 4
  LongTexts <- MCLong
  ProtectTail = 1
  FewRows = 2
  SnipTail = 2
  MaxMessages = 3
  FlushBatch = 8
  MaxEvents = 3
  MaxFlushes = 1
  Overlap = TRUE
PROPERTY Isolated
CHECK_DEADLOCK FALSE
