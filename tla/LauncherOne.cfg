SPECIFICATION Spec
CONSTANTS
  a = a
  b = b
  c = c
  r1 = r1
  r2 = r2
  m = m
  NoManifest = NoManifest
  NoGroup = "none"
  Task <- ThreeTasks
  Run = {r1}
  Monitor = {}
  owner <- AllOwnedByOne
  conflictGroup <- OwnGroups
  sharedLocks <- NoLocks
  highRisk = {a, b}
  docsOnly = {}
  Modes = {"parallel", "sequential", "dry-run"}
  MaxSlots = 3
  Overlap = FALSE
  MayCrash = TRUE
INVARIANTS TypeOK WaveBarrier NoClashAtWork CapRespected AtWorkIsOnFile SuccessIsComplete
PROPERTIES LifecycleRefined
CHECK_DEADLOCK FALSE
