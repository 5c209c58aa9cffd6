SPECIFICATION Spec
CONSTANTS
  Turns = {t1, t2}
  Runs = {r1, r2, r3}
  NoRun = NoRun
  Faults = {"crash"}
  NoTurn = NoTurn
SYMMETRY Symmetric
INVARIANTS
  TerminalTurnHasCheckpoint
PROPERTIES
  ImplementsOwnership

CHECK_DEADLOCK FALSE
