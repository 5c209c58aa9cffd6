CONSTANTS
  MaxCalls = 2
  MaxSteps = 2
  MaxRuns = 3
  Batches <- MCBatches
  Clarifications = {"proceed", "ask", "refuse"}
  OperatorKeys = {"any", "run"}
  Faults = {"crash", "error"}
SPECIFICATION Spec
INVARIANTS TypeOK ActsOnFreshInput StopIsPrompt AskedOnce
PROPERTIES CancelIsNotLost RunsEnd
CHECK_DEADLOCK FALSE
