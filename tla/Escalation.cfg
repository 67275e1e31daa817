SPECIFICATION Spec
CONSTANTS
  c1 = c1
  c2 = c2
  i1 = i1
  i2 = i2
  NoEntry = NoEntry
  Issue <- Issues
  Caller <- Callers
  Window = 0
  MaxTime = 1
  HandLevels = {"L0", "L2"}
  MaxReports = 2
INVARIANTS TypeOK NoFalseAlarm ExactWhenAlone
SYMMETRY Symmetry
CHECK_DEADLOCK FALSE
