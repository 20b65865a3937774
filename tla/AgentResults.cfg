SPECIFICATION Spec
CONSTANTS
  Acts <- MCActs
  Replies <- MCReplies
  Histories <- MCHistories
  Budgeted = FALSE
  MaxIterations = 3
  MaxCompactions = 1
  MaxRateLimitRetries = 1
  MaxOverloadRetries = 2
INVARIANT
  ResultsShown
CHECK_DEADLOCK FALSE
