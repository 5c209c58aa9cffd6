SPECIFICATION FairSpec
CONSTANTS
  Ops <- MCOps
  Runs = {r1, r2}
  NoRun = NoRun
  Kind <- MCKind
  Contents = {"old", "new"}
  Original = "old"
  Written <- MCWritten
  Batch <- Assorted
  Executable = {1, 2, 3, 4}
  Policy <- MCPolicy
  AutoRuns = {r1}
  Outcomes = {"done", "clean_failure"}
  Faults = {"crash", "overlap"}
INVARIANTS
  EffectAtMostOnce
PROPERTIES
  ExecutionIsNotForgotten
  RunsStop
CHECK_DEADLOCK FALSE
