SPECIFICATION Spec
CONSTANTS
  Tasks = {"a", "b", "c", "d"}
  Plans <- OnlyLive
  MaxWorkers = 2
  MaxCrashes = 0
  MaxVersion = 2
INVARIANTS
  TypeOK
  NoLostHandoff
  IntegratedIsFresh
  FrontierIsToBlame
