------------------------------ MODULE Planners ------------------------------
(***************************************************************************)
(* The planners of the self-cycle, each a function of the state files it   *)
(* reads: which tasks to add to the running ones                           *)
(* (scripts/ai/top-up-self-cycle-queue.js), in which waves to run a        *)
(* backlog (plan-concurrency-backfill.js).  A board is the sequence of     *)
(* tasks of task-board.json, and a plan names tasks by their positions.    *)
(***************************************************************************)
EXTENDS TaskBoard

CONSTANTS
  topUpBatchSize, reducedBatchSize, providerCapacityThreshold,
  heldLocksThreshold, minDispatchThreshold,    \* DEFAULTS of the top-up
  reviewCapacity, mergeCapacity, failureBudget \* DEFAULTS of the backfill

ASSUME DefaultsAssumption ==
  /\ {topUpBatchSize, reducedBatchSize, providerCapacityThreshold,
      heldLocksThreshold, minDispatchThreshold} \subseteq Nat
  /\ {reviewCapacity, mergeCapacity, failureBudget} \subseteq Nat \ {0}

-----------------------------------------------------------------------------
\* Off active-workers.json and launch-locks.json.
Active(workers) == {w \in workers : w.status \in {"running", "planned"}}
countActiveWorkers(workers) == Cardinality(Active(workers))
extractActiveConflictGroups(workers) ==
  {w.conflictGroup : w \in Active(workers)} \ {NoGroup}
Held(locks) == {l \in locks : l.status = "held"}
extractLockedGroups(locks) == {l.conflictGroup : l \in Held(locks)} \ {NoGroup}

\* Off main-health.json, which write-main-health-state.ps1 gives a "state".
isHealthOk(main) ==
  Has(main, "status") => main.status \in {"green", "yellow"}

extractRiskLevel(signals) ==
  IF signals \cap {"high", "critical"} # {} THEN "high"
  ELSE IF "medium" \in signals THEN "medium" ELSE "low"

\* A row of the board that names no group counts as one of group "general".
GroupOf(t) ==
  IF Has(t, "conflictGroup") /\ t.conflictGroup # NoGroup
  THEN t.conflictGroup ELSE General
HighRisk(t) == Has(t, "risk") /\ t.risk = "high"

-----------------------------------------------------------------------------
\* Mutant of selectEligibleTasks: the groups of running workers are allowed.
selectEligibleAnyGroup(board, active, locked) ==
  {i \in DOMAIN board :
     /\ board[i].state \in {"ready", "todo"} /\ board[i].linkedPR = NoPR
     /\ ~HighRisk(board[i]) /\ GroupOf(board[i]) \notin locked}

selectEligibleTasks(board, active, locked) ==
  {i \in DOMAIN board :
     /\ board[i].state \in {"ready", "todo"}
     /\ board[i].linkedPR = NoPR
     /\ ~HighRisk(board[i])
     /\ GroupOf(board[i]) \notin active \cup locked}

\* The first task of each group.
deduplicateByConflictGroup(board, S) ==
  {i \in S : \A j \in S : j < i => GroupOf(board[j]) # GroupOf(board[i])}

\* slice(0, n) of the tasks in S, in board order.
Slice(S, n) == {i \in S : Cardinality({j \in S : j < i}) < n}

TopUpBlocked(main, signals, pool) ==
  \/ ~isHealthOk(main)
  \/ extractRiskLevel(signals) = "high"
  \/ CapacityBelow(pool, 1)

TopUpBatch(signals, pool, locks) ==
  IF \/ CapacityBelow(pool, providerCapacityThreshold)
     \/ Cardinality(Held(locks)) > heldLocksThreshold
     \/ extractRiskLevel(signals) = "medium"
  THEN AtMost(reducedBatchSize, topUpBatchSize) ELSE topUpBatchSize

\* Mutant of computeTopUpPlan: cut to size before one per group is kept.
computeTopUpPlanSliced(board, workers, locks, pool, signals, main, target) ==
  LET deficit == AtLeast(0, target - countActiveWorkers(workers))
      room == IF TopUpBlocked(main, signals, pool) THEN 0
              ELSE AtMost(TopUpBatch(signals, pool, locks), deficit)
      eligible == selectEligibleTasks(board, extractActiveConflictGroups(workers),
                                      extractLockedGroups(locks))
  IN [selected |-> deduplicateByConflictGroup(board, Slice(eligible, room)),
      recommendation |-> "hold"]

computeTopUpPlan(board, workers, locks, pool, signals, main, target) ==
  LET deficit == AtLeast(0, target - countActiveWorkers(workers))
      blocked == TopUpBlocked(main, signals, pool)
      room == IF blocked THEN 0 ELSE AtMost(TopUpBatch(signals, pool, locks), deficit)
      eligible == selectEligibleTasks(board, extractActiveConflictGroups(workers),
                                      extractLockedGroups(locks))
  IN [selected |-> Slice(deduplicateByConflictGroup(board, eligible), room),
      recommendation |->
        IF blocked \/ deficit = 0 THEN "hold"
        ELSE IF countActiveWorkers(workers) < minDispatchThreshold
        THEN "immediate" ELSE "next-tick"]

-----------------------------------------------------------------------------
filterExecutableTasks(board) ==
  {i \in DOMAIN board :
     /\ board[i].state \notin {"done", "archived", "running", "blocked", "discussion/open"}
     /\ board[i].linkedPR = NoPR}

extractRiskSafeSlots(signals, requested) ==
  CASE extractRiskLevel(signals) = "high" -> 1
    [] extractRiskLevel(signals) = "medium" -> AtLeast(1, requested \div 2)
    [] OTHER -> requested

\* The smallest of the bounds, but never less than one.
effectiveParallelism(board, workers, pool, resourceSlots, signals, requested) ==
  AtLeast(1, Least({requested,
                    AtLeast(0, extractProviderSlots(pool) - countActiveWorkers(workers)),
                    resourceSlots,
                    Cardinality({GroupOf(board[i]) : i \in filterExecutableTasks(board)}),
                    extractRiskSafeSlots(signals, requested),
                    reviewCapacity, mergeCapacity, failureBudget}))

\* Mutant of FillWave: the wave is closed one task late.
FillWaveOver(board, remaining, cap) ==
  FoldLeft(LAMBDA wave, i :
             IF Len(wave) <= cap /\ \A k \in DOMAIN wave : GroupOf(board[wave[k]]) # GroupOf(board[i])
             THEN Append(wave, i) ELSE wave,
           << >>, remaining)

\* One pass over the remaining tasks: one per group, until the wave is full.
FillWave(board, remaining, cap) ==
  FoldLeft(LAMBDA wave, i :
             IF Len(wave) < cap /\ \A k \in DOMAIN wave : GroupOf(board[wave[k]]) # GroupOf(board[i])
             THEN Append(wave, i) ELSE wave,
           << >>, remaining)

\* Solo waves for the high-risk tasks, then waves filled until none remain.
planWaves(board, tasks, cap) ==
  LET inOrder(S) == Kept([i \in DOMAIN board |-> i], S)
      solo == {i \in tasks : HighRisk(board[i])}
      rest[n \in Nat] ==
        IF n = 0 THEN inOrder(tasks \ solo)
        ELSE LET placed == ToSet(FillWave(board, rest[n - 1], cap))
             IN Kept(rest[n - 1], {k \in DOMAIN rest[n - 1] : rest[n - 1][k] \notin placed})
      last == Least({n \in 0 .. Cardinality(tasks) : rest[n] = << >>})
  IN [k \in 1 .. Cardinality(solo) |-> <<inOrder(solo)[k]>>]
       \o [n \in 1 .. last |-> FillWave(board, rest[n - 1], cap)]

=============================================================================
