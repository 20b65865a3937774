SPECIFICATION Spec
CONSTANTS
  Acts <- MCActs
  Replies <- MCReplies
  Histories <- MCHistories
  Budgeted = TRUE
  MaxIterations = 3
  MaxCompactions = 1
  MaxRateLimitRetries = 1
  MaxOverloadRetries = 2
INVARIANTS
  RequestsFaithful
  StallBounded
  NoOverlapInWave
  EffectsReported
PROPERTIES
  StopsAsking
  Ends
CHECK_DEADLOCK FALSE
