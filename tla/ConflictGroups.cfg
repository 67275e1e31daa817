SPECIFICATION Spec
CONSTANTS
  Batches <- SmallBatches
  SKIP_SEGMENTS <- Skipped
  Broad <- BroadPatterns
  Joined <- Join
INVARIANTS GroupsAreComponents RanksBalance
CHECK_DEADLOCK FALSE
