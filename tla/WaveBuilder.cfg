SPECIFICATION Spec
CONSTANTS
  plain = plain
  samegrp = samegrp
  locka = locka
  lockab = lockab
  risky = risky
  human = human
  NoGroup = "none"
  Task <- MCTask
  conflictGroup <- MCGroup
  sharedLocks <- MCLocks
  highRisk <- MCHighRisk
  MaxPlans = 4
  MaxCap = 3
INVARIANTS TypeOK WavesSafe Earliest EachPlacedOnce ConflictSlotsNeutral
CHECK_DEADLOCK FALSE
