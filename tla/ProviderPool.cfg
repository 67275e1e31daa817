SPECIFICATION Spec
CONSTANTS
  u = u
  v = v
  p1 = p1
  p2 = p2
  Torn = Torn
  Provider = {u}
  Proc = {p1, p2}
  MaxLimit = 1
  MaxCeiling = 1
  MaxCount = 1
  MaxEvents = 1
INVARIANTS TypeOK FailuresWithinEvents ExhaustedCools BlocksOnlyWithoutRoom
PROPERTIES SummaryHeals
SYMMETRY Interchangeable
CHECK_DEADLOCK FALSE
