SPECIFICATION Spec
CONSTANTS
  Form <- Forms
  Direct <- Batches
  State <- Situations
  NoGroup = NoGroup
  Nothing = Nothing
  Torn = Torn
  MaxPreviews = 1
  MaxCalls = 1
  MaxCrashes = 1
INVARIANTS SharedGroupsAreDocs
CHECK_DEADLOCK FALSE
