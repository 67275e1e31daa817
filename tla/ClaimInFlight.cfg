SPECIFICATION Spec
CONSTANTS
  a = a
  b = b
  c = c
  r1 = r1
  r2 = r2
  m = m
  NoManifest = NoManifest
  NoGroup = "none"
  Task <- OneEach
  Run = {r1, r2}
  Monitor = {}
  owner <- OwnedByEach
  conflictGroup <- Groups
  sharedLocks <- NoLocks
  highRisk = {}
  docsOnly = {}
  Modes = {"parallel"}
  MaxSlots = 2
  Overlap = FALSE
  MayCrash = FALSE
INVARIANTS InFlightProtected
CHECK_DEADLOCK FALSE
