SPECIFICATION CodexSpec
CONSTANTS
  MaxRetries = 2
  MaxEvents = 2
  OutputLimit = 1
CHECK_DEADLOCK FALSE
INVARIANT
  RetryIsClean
