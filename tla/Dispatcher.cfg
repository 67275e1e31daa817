SPECIFICATION FairSpec
CONSTANTS
  Issue = {i1}
  Dispatcher = {d1, d2}
  MaxLines = 2
  MaxRuns = 2
INVARIANTS TypeOK AnsweredInFull OncePerRun HarmlessInTurn
PROPERTIES RunsEnd
CHECK_DEADLOCK FALSE
