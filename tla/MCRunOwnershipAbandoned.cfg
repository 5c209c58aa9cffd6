SPECIFICATION Spec
CONSTANTS
  Turns = {t1, t2}
  Runs = {r1, r2}
  NoRun = NoRun
  Faults = {"crash"}
  NoTurn = NoTurn
SYMMETRY Symmetric
INVARIANT
  AbandonedTurnIsResumable
CHECK_DEADLOCK FALSE
