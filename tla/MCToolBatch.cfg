SPECIFICATION Spec
CONSTANTS
  Ops <- MCOps
  Runs = {r1, r2, r3, r4}
  NoRun = NoRun
  Kind <- MCKind
  Contents = {"old", "new"}
  Original = "old"
  Written <- MCWritten
  Batch <- WriteThenCommand
  Executable = {1, 2}
  Policy <- MCPolicy
  AutoRuns = {}
  Outcomes = {"done", "clean_failure", "dirty_failure"}
  Faults = {"crash", "drift"}
SYMMETRY Symmetric
INVARIANTS
  TypeOK
  EffectAtMostOnce
  TruthfulObservations
  NoCallIsLost
  ApprovedTargetOnly
CHECK_DEADLOCK FALSE
