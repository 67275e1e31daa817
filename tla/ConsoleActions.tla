--------------------------- MODULE ConsoleActions ---------------------------
(***************************************************************************)
(* What three of the web console's actions decide and do                   *)
(* (tools/provider-pool-webui/actions): launch-batch.js with the launch    *)
(* gate it carries, plan-next-batch.js and merge-prs.js.  Each runs to its *)
(* end inside one callback of the server, on the state files as they are.  *)
(* A task's allowedFiles count by the top directories they are in.         *)
(***************************************************************************)
EXTENDS StateFiles

PERMISSION_MATRIX ==
  LET repair == {"foundation-fix", "health-repair", "research"}
  IN [green  |-> repair \cup {"runtime-feature", "docs", "test-only"},
      yellow |-> repair \cup {"docs"},
      red    |-> repair,
      black  |-> {}]

classifyWorkerType(t) ==
  CASE t.mainHealthPolicy = "gate-docs-only" -> "docs"
    [] t.mainHealthPolicy = "gate-none" -> "research"
    [] t.mainHealthPolicy \notin {"gate-docs-only", "gate-none"} ->
         IF t.roots = {"docs"} THEN "docs"
         ELSE IF t.roots = {"scripts"} THEN "health-repair"
         ELSE IF "src" \in t.roots
         THEN IF t.risk = "high" THEN "foundation-fix" ELSE "runtime-feature"
         ELSE IF t.taskType = "research" THEN "research" ELSE "health-repair"

-----------------------------------------------------------------------------
\* The rules of runGateCheck, for the i-th task of a batch.
Permitted(t, mainState) ==
  /\ mainState \in DOMAIN PERMISSION_MATRIX
  /\ classifyWorkerType(t) \in PERMISSION_MATRIX[mainState]

Claims(t) == t.conflictGroup # NoGroup /\ classifyWorkerType(t) # "docs"

GroupTaken(tasks, i) ==
  /\ Claims(tasks[i])
  /\ \E j \in 1 .. i - 1 : Claims(tasks[j]) /\ tasks[j].conflictGroup = tasks[i].conflictGroup

\* sharedLocks is a list: a lock named twice is taken when it is named again.
LockTaken(tasks, i) ==
  LET locks == tasks[i].sharedLocks
  IN \/ \E k, l \in DOMAIN locks : k < l /\ locks[k] = locks[l]
     \/ \E j \in 1 .. i - 1 : ToSet(tasks[j].sharedLocks) \cap ToSet(locks) # {}

\* Mutant of runGateCheck: a task is only compared with the one before it.
runGateCheckPairwise(tasks, mainState, runningGroups) ==
  [i \in DOMAIN tasks |->
     LET near == SubSeq(tasks, AtLeast(1, i - 1), i)
     IN IF ~Permitted(tasks[i], mainState) THEN "health-state-blocked"
        ELSE IF GroupTaken(near, Len(near)) THEN "conflict-group-duplicate"
        ELSE IF LockTaken(near, Len(near)) THEN "shared-lock-overlap"
        ELSE IF tasks[i].conflictGroup \in runningGroups THEN "running-worker-conflict"
        ELSE "allowed"]

\* The reports of the tasks, each with the first rule that blocks it.
runGateCheck(tasks, mainState, runningGroups) ==
  [i \in DOMAIN tasks |->
     IF ~Permitted(tasks[i], mainState) THEN "health-state-blocked"
     ELSE IF GroupTaken(tasks, i) THEN "conflict-group-duplicate"
     ELSE IF LockTaken(tasks, i) THEN "shared-lock-overlap"
     ELSE IF tasks[i].conflictGroup \in runningGroups THEN "running-worker-conflict"
     ELSE "allowed"]

allAllowed(report) == \A i \in DOMAIN report : report[i] = "allowed"

\* A missing health marker counts as green.  Nothing writes running-tasks.json.
readMainState(main) == IF Has(main, "state") THEN main.state ELSE "green"
runningGroups(running) == {w.conflictGroup : w \in running} \ {NoGroup}

\* An empty payload means the queue; the entries of the queue have a "state".
resolveTasks(payload, queue) ==
  IF payload.tasks # << >> THEN payload.tasks
  ELSE Kept(queue, {k \in DOMAIN queue : Has(queue[k], "status") /\ queue[k].status = "queued"})

\* The plan is an object that holds the tasks, each with some of its fields.
buildLaunchPlan(report, tasks) ==
  LET plannedTask(i) ==
        [targetIssue |-> tasks[i].targetIssue, conflictGroup |-> tasks[i].conflictGroup,
         risk |-> tasks[i].risk, taskType |-> tasks[i].taskType,
         workerType |-> classifyWorkerType(tasks[i]),
         sharedLocks |-> tasks[i].sharedLocks, allowedFiles |-> tasks[i].roots,
         decision |-> report[i]]
      all == [i \in DOMAIN tasks |-> plannedTask(i)]
      allowed == {i \in DOMAIN tasks : report[i] = "allowed"}
  IN [selectedTasks |-> Kept(all, allowed),
      rejectedTasks |-> Kept(all, DOMAIN tasks \ allowed)]

-----------------------------------------------------------------------------
\* batch-launch.ps1 takes a file that is no array for one task, and stops
\* unless each of its tasks has these fields.
requiredFields ==
  {"taskType", "risk", "conflictGroup", "targetIssue", "allowedFiles",
   "forbiddenFiles", "validationCommands", "rolePacket"}
Dispatched(planFile) == requiredFields \subseteq DOMAIN planFile

Gate(payload, state) ==
  runGateCheck(resolveTasks(payload, state.queue), readMainState(state.main),
               runningGroups(state.running))

\* execute of launch-batch.
launchBatch(payload, state) ==
  LET tasks == resolveTasks(payload, state.queue)
      report == Gate(payload, state)
      plan == buildLaunchPlan(report, tasks)
  IN IF tasks = << >> THEN [status |-> "error"]
     ELSE IF ~allAllowed(report) THEN [status |-> "blocked"]
     ELSE [status |-> IF Dispatched(plan) THEN "launched" ELSE "launch-failed", plan |-> plan]

-----------------------------------------------------------------------------
\* Mutant of Placed: the provider in use is left one task late.
PlacedOver(so, providers, entry) ==
  LET full == so.left = 0
  IN [so EXCEPT !.plan = Append(@, [issue |-> entry.issue, provider |-> providers[so.at].id]),
                !.groups = @ \cup ({entry.conflictGroup} \ {NoGroup}),
                !.at = IF full THEN @ + 1 ELSE @,
                !.left = IF ~full THEN @ - 1
                         ELSE IF so.at < Len(providers)
                         THEN Headroom(providers[so.at + 1]) ELSE 0]

\* computeBatchPlan: the loop over the queued entries.  so.at is the provider
\* in use, so.left its headroom, so.groups the groups already scheduled.
Placed(so, providers, entry) ==
  LET full == so.left = 1
  IN [so EXCEPT !.plan = Append(@, [issue |-> entry.issue, provider |-> providers[so.at].id]),
                !.groups = @ \cup ({entry.conflictGroup} \ {NoGroup}),
                !.at = IF full THEN @ + 1 ELSE @,
                !.left = IF ~full THEN @ - 1
                         ELSE IF so.at < Len(providers)
                         THEN Headroom(providers[so.at + 1]) ELSE 0]

Considered(so, providers, entry) ==
  IF so.at > Len(providers) \/ entry.conflictGroup \in so.groups
  THEN [so EXCEPT !.skipped = Append(@, entry.issue)]
  ELSE Placed(so, providers, entry)

computeBatchPlan(pool, queue) ==
  LET providers == Kept(pool, {k \in DOMAIN pool : Headroom(pool[k]) > 0})
      entries == Kept(queue, {k \in DOMAIN queue : Has(queue[k], "state") /\ queue[k].state = "queued"})
      so[n \in 0 .. Len(entries)] ==
        IF n = 0
        THEN [plan |-> << >>, skipped |-> << >>, groups |-> {}, at |-> 1,
              left |-> IF providers = << >> THEN 0 ELSE Headroom(providers[1])]
        ELSE Considered(so[n - 1], providers, entries[n])
  IN so[Len(entries)]

\* execute of plan-next-batch: the plan is made anew, and written only when
\* every issue of it is on the allowlist.
planNextBatch(payload, state) ==
  LET plan == computeBatchPlan(state.pool, state.queue).plan
  IN IF payload.allowlist = {} \/ payload.reason = "" THEN [status |-> "error"]
     ELSE IF \E k \in DOMAIN plan : plan[k].issue \notin payload.allowlist
     THEN [status |-> "blocked"]
     ELSE IF plan = << >> THEN [status |-> "empty"]
     ELSE [status |-> "planned", plan |-> plan]

\* execute of merge-prs: a payload without proper numbers makes it throw, and
\* the script it runs merges them all, or some when it fails or is killed
\* after its minute.
mergePrs(payload) ==
  IF payload.prNumbers = {} THEN {[status |-> "thrown"]}
  ELSE {[status |-> "merged", prs |-> payload.prNumbers]}
         \cup [status : {"failed"}, prs : SUBSET payload.prNumbers]

-----------------------------------------------------------------------------
\* generatePlan of generate-self-cycle-execute-plan.js: may a cycle start?
evaluateHealthGate(main) == Has(main, "state") /\ main.state \in {"green", "yellow"}
evaluateProviderPool(pool) ==
  LET atCapacity(p) == Has(p, "max") /\ p.cur >= p.max
  IN \E k \in DOMAIN pool : Available(pool[k]) /\ ~atCapacity(pool[k])
evaluateQueue(queue) == \E k \in DOMAIN queue : queue[k].state = "queued"
pipelineReady(main, pool, queue) ==
  evaluateHealthGate(main) /\ evaluateProviderPool(pool) /\ evaluateQueue(queue)
=============================================================================
