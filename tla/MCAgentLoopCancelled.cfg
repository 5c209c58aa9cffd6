CONSTANTS
  MaxCalls = 2
  MaxSteps = 2
  MaxRuns = 2
  Batches <- MCBatches
  Clarifications = {"proceed"}
  OperatorKeys = {"any"}
  Faults = {}
SPECIFICATION Spec
INVARIANTS TerminalTurnIsClosed
CHECK_DEADLOCK FALSE
