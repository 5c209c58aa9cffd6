SPECIFICATION Spec
CONSTANTS
  MaxRuns = 3
  MaxAlive = 2
  MaxItems = 6
  PageLimit = 3
  Lookahead = 3
  Batches <- MCBatches
  Faults = {"crash", "cancel"}
INVARIANTS TypeOK CompleteRequest DigestIsExact AuthorityKept
PROPERTIES DigestOnlyGrows
CHECK_DEADLOCK FALSE
