SPECIFICATION Spec
CONSTANTS
  Ops <- MCOps
  Runs = {r1, r2, r3}
  NoRun = NoRun
  Kind <- MCKind
  Contents = {"old", "new"}
  Original = "old"
  Written <- MCWritten
  Batch <- WriteThenCommand
  Executable = {1, 2}
  Policy <- MCTrusted
  AutoRuns = {}
  Outcomes = {"done"}
  Faults = {"crash"}
SYMMETRY Symmetric
INVARIANTS
  RejectionWithdrawsBatch
CHECK_DEADLOCK FALSE
