SPECIFICATION WorkerRunsSpec
CONSTANTS
  MaxRetries = 2
  MaxSteps = 2
  MaxCalls = 2
  MaxEvents = 3
  OutputLimit = 2
CHECK_DEADLOCK FALSE
INVARIANTS
  OneWriteAfterLoss
PROPERTIES
  AgentKeepsContract
  ImplementsContract
  LossEndsAttempt
  WorkerRunEnds
