SPECIFICATION Spec
CONSTANTS
  Sessions <- MCSessions
  Main = "main"
  MaxTexts = 4
  LongTexts <- MCLong
  ProtectTail = 1
  FewRows = 2
  SnipTail = 2
  MaxMessages = 3
  FlushBatch = 12
  MaxEvents = 3
  MaxFlushes = 1
  Overlap = FALSE
INVARIANTS RowsSound CursorHonest
PROPERTY IsConversation
CHECK_DEADLOCK FALSE
