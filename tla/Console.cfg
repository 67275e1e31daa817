SPECIFICATION FairSpec
CONSTANTS
  Form <- Forms
  Direct <- OneBatch
  State <- Situations
  NoGroup = NoGroup
  Nothing = Nothing
  Torn = Torn
  MaxPreviews = 2
  MaxCalls = 2
  MaxCrashes = 1
INVARIANTS TypeOK Consented HandedOverFit JudgedAlike LogAccounts
PROPERTIES BatchFits CallsEnd
CHECK_DEADLOCK FALSE
