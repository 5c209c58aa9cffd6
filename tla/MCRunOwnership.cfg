SPECIFICATION Spec
CONSTANTS
  Turns = {t1, t2}
  Runs = {r1, r2, r3}
  NoRun = NoRun
  Faults = {"crash", "error"}
  NoTurn = NoTurn
SYMMETRY Symmetric
INVARIANTS
  TypeOK
  StoreLoads
  ClaimedRunHasCheckpoint
  NoForkedResume
PROPERTIES
  TerminalTurnFrozen
CHECK_DEADLOCK FALSE
