SPECIFICATION Spec
CONSTANTS
  Tasks = {"a", "b", "c", "d"}
  Plans <- AllPlans
  MaxWorkers = 2
  MaxCrashes = 2
  MaxVersion = 1
INVARIANTS
  TreeIsMerged
  CheckpointResumable
  WorkersIsolated
PROPERTIES
  RunEnds
  ImplementsInOrder
