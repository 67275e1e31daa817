SPECIFICATION FairSpec
CONSTANTS
  a = a
  b = b
  c = c
  r1 = r1
  r2 = r2
  m = m
  NoManifest = NoManifest
  NoGroup = "none"
  Task <- OneEach
  Run = {r1}
  Monitor = {m}
  owner <- BothOwnedByOne
  conflictGroup <- OwnGroups
  sharedLocks <- NoLocks
  highRisk = {}
  docsOnly = {}
  Modes = {"parallel", "sequential"}
  MaxSlots = 1
  Overlap = FALSE
  MayCrash = TRUE
INVARIANTS VerdictsHold
PROPERTIES ParallelRunEnds
CHECK_DEADLOCK FALSE
