SPECIFICATION Spec
CONSTANTS
  Issue <- ThreeIssues
  Group = {"auth", "docs", "general"}
  General = "general"
  NoPR = NoPR
  NoGroup = NoGroup
  NoPlan = NoPlan
  PR = {101}
  Labels <- LabelSets
  World <- Situations
  topUpBatchSize = 2
  reducedBatchSize = 1
  providerCapacityThreshold = 2
  heldLocksThreshold = 1
  minDispatchThreshold = 1
  reviewCapacity = 2
  mergeCapacity = 2
  failureBudget = 3
PROPERTIES TopUpApart TopUpFills TopUpTakesCandidates BackfillIsFirstFit
CHECK_DEADLOCK FALSE
