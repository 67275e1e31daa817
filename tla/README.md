# Verification of the AI-worker control plane

This directory holds TLA+ models of the control plane in `scripts/ai`: the
scripts that turn task files into workers, watch them, and keep the shared JSON
files under `.github/ai-state/`. It holds the TLC instances that check the
models and TLAPS proofs about them.

The repository has two halves. The NestJS backend under `src/` is a facade that
forwards requests and keeps no state between them. The control plane is where
the state is: dozens of PowerShell and Node scripts, started by operators, by the
self-cycle runner and by a web console, that read, change and rewrite the same
files without locks, start processes that outlive them, and may be killed at any
point. The models are about this half.

## 1. Inventory

| Component | State it keeps | Operations | Talks to | What is hard | What makes it correct |
|---|---|---|---|---|---|
| Wave builder (`batch-launch.ps1`, `Build-Waves`) | the waves being built | join the first wave that fits, open a wave | launcher | later tasks fill earlier waves | waves are clash-free, within the cap, complete, earliest |
| Launcher (`batch-launch.ps1`) | run progress, its copy of the manifest | gate, capacity, plan, reset manifest, launch, record, wait, next wave; sequential and dry-run modes | gate, wait script, workers, manifest | worker starts before it is on file; crash at any step; a second launcher | wave barrier, cap, no clashing tasks at work, workers on file, runs end |
| Wait script (`wait-parallel-workers.ps1`) | copy of the manifest for one poll | read results, check processes, rewrite | manifest, result files, processes | stale copies, torn files, workers finishing between two looks | the file gives no verdict without grounds |
| Worker runner | `result.json`, a process | write result, exit, be killed, outlive `StaleMinutes` | wait script | half-written result | - |
| Launch gate (`check-launch-gate.ps1`) | none | compare batch with itself and with running entries | manifest, health, pool, resources | decides on a file that lags behind the workers | no collision with work in flight |
| Worker control (`control-workers.ps1`) | none | stop a listed worker | manifest, processes | the entry stays as it was | - |
| Lifecycle table (`validate-worker-transition.js`) | none | the legal moves of a worker's status | all writers of the manifest | - | every write follows it |
| Provider pool (`update-provider-pool-state.ps1`, `provider-key-router.ps1`, `rotate-claude-settings-provider.ps1`, the console's provider actions) | `provider-pool.json` | set status, count workers, reset failures, route, rotate, adjust limits | preflight, launcher, console | whole-file rewrites side by side, torn files, rollback to a stale backup, summaries only some writers refresh | counters and cooldowns agree, summaries heal, nothing blocks where there is room |
| Self-cycle runner (`run-self-cycle.ps1`) | queue and run records | preflight, seed, plan, gate, dispatch | all of the above | state read in one step and used in a later one | nothing is dispatched that a step rejected |
| State reconciler (`state-reconciler.ps1`, `reconcile-worker-prs.ps1`) | issue labels on GitHub | find drift, move labels | issues, pull requests, manifest | two remote calls per move, rules that overlap | one agent label per issue, repeated passes converge |
| Merge queue (`merge-clean-pr-batch.ps1`) | `.ai/merge-queue-state.json` | take a batch, check, merge one by one, health gate | GitHub, health gate | crash between a merge and the state write, dry run, failure budget | each pull request handled once |
| Health gate and recovery | `main-health.json`, triggers | run checks, write state, trigger with cooldown, dispatch recovery | launcher, merge queue | cooldown racing a change for the worse | a red main is acted on |
| Failure escalation (`track-failure-escalation.js`) | failures per issue in a time window, level | record, prune, set a level, reset | operators | calls side by side, torn file, override and recomputation in one field | a level has grounds, nothing gets lost without an overlap |
| Task board and launch candidates (`project-task-board.js`, `detect-launch-candidates.js`) | `task-board.json` | read labels, titles and pull requests of the issues | GitHub, planners | an issue with several labels; two scripts with rules of their own | both agree on what may be launched |
| Queue top-up and backfill (`top-up-self-cycle-queue.js`, `plan-concurrency-backfill.js`) | the plan written last | select tasks, plan waves | board, manifest, locks, pool, launcher | a board of any age next to files as they are now | no group twice, target not exceeded, nothing left out without cause, waves the launcher would build |
| Conflict-group allocator (`allocate-conflict-groups.js`) | a union-find over one batch | compare pairs, join, name groups | planners, launcher | path compression and ranks, names that read alike | groups are the components of overlap |
| Issue closing (`auto-close-done-issues.ps1`) | issues | comment, drop labels, close | GitHub | one of three calls fails | a done issue is closed in the end |
| Web console (`tools/provider-pool-webui`) | page: previews, shown preview, question; server: action log | preview, confirm, execute, refresh; log | pool, launcher, planners, merge script | answers that overtake each other, files that change between preview and execution, server deaths | what is done was consented to and fits the files, is logged and answered |
| Command dispatcher (`agent-command-dispatcher.js`) | command and result files, `compiled-tasks.json` | carry out every command of the file, one child at a time | launcher, compiler, git | commands are never removed, runs overlap, children hang or outlive their run | answers are complete, once per run, runs end |
| Ledgers, samplers, signal calculators, emitters, planners, guards | files they alone write | append or project | - | little: stateless | - |
| NestJS backend | none between requests | forward, map, guard | NodeBB, database | little | - |

Every component, with its sources and its status, is in `PROJECT.json`, as are
the hazards: the places where the code can go wrong in ways a test would hardly
reach, each with its line and the properties that watch it.

## 2. Modules

| Module | Models |
|---|---|
| `Waves` | the placement rule of `Build-Waves`: clash, room, first fit |
| `WaveBuilder` | `Build-Waves` as a loop over a batch, and `Get-ConflictSafeSlots` |
| `WorkerLifecycle` | the abstract specification: the transition table of `validate-worker-transition.js` as a machine that moves, or drops, entries of the manifest |
| `Launcher` | launch runs, their gate, the wait script, monitors, worker processes and the manifest |
| `LauncherClaims` | what documents and messages say of launches and the code does not do |
| `ProviderPool` | the pool file, every writer of it as load and write steps, and what preflight and launcher compute from it |
| `StateFiles` | what several scripts read off the state files in the same way: headroom of a provider, capacity of a pool |
| `TaskBoard` | how an issue is read: the board's row and the launch candidates |
| `Planners` | the top-up plan and the backfill's waves, as functions of the state files |
| `Planning` | the planning loop: board, planners, launch, workers, pull requests, labels |
| `ConflictGroups` | the allocator's union-find and group names |
| `ConsoleActions` | what the console's `launch-batch`, `plan-next-batch` and `merge-prs` decide and do, and the readiness test of `generate-self-cycle-execute-plan.js` |
| `Console` | the page's action card, the server, its action log, other clients and changing files |
| `Escalation` | the escalation tracker, its calls as processes that load, change and rewrite the file |
| `Dispatcher` | runs of the command dispatcher, their children, and what killed children leave behind |
| `MC*` | constants of the TLC instances |
| `WaveBuilderProofs` | lemmas on the placement rule; type, safety, earliness and completeness of the waves; neutrality of the conflict-safe slots |
| `LauncherProofs` | types; honesty of the manifest; with one launcher at a time the wave barrier, absence of clashes, the cap, workers on file, complete success, and the refinement of `WorkerLifecycle` |
| `ProviderPoolProofs` | types of the pool with its totals; consistency of its counters and cooldowns, healing of its summary; the preflight blocks nothing that has room |
| `PlanningProofs` | a top-up stays apart from work on file, fills what it may and takes launch candidates only; the backfill's waves are the launcher's |
| `ConflictGroupsProofs` | groups are the components of overlap; ranks keep the trees balanced |
| `ConsoleProofs` | types of page and server; consent; a true log; fitness of batches handed over and planned; where the readiness test and the planner differ |
| `DispatcherProofs` | types; answers in full; once per run; harmless launches in turn |
| `EscalationProofs` | types of the tracker; no level without grounds; exactness where no calls overlap |

The modules meet in these places: `Planning` instantiates `Waves`, so that the
backfill is judged by the launcher's own placement rule; `ConsoleActions` and
`Planners` share `StateFiles`; `Launcher` is shown to implement
`WorkerLifecycle`.

### Launcher: state and actions

`pc[r]` is where an invocation of `batch-launch.ps1` is; its labels follow the
script from top to bottom. `mem[r]` is `$manifest`, the copy of the file it
works on. `file` is what `active-workers.json` says of each task (`"null"`: no
entry) and `torn` says that a rewrite has emptied the file and not filled it.
`proc`, `result` and `old` are the worker's process, its `result.json` (with a
state for half-written) and whether it started `StaleMinutes` ago.

| Action | Code |
|---|---|
| `Begin` | parameters, task file, the duplicate check of sequential runs |
| `GatePass`, `GateBlock`, `GateUnparsed` | the call of `check-launch-gate.ps1` and what the launcher does with its report |
| `Capacity` | the least of requested, provider, resource and budget slots |
| `PlanTask` | one turn of the loop of `Build-Waves` |
| `Reset`, `FillReset` | `New-Manifest` and the first `Write-Manifest` |
| `Launch`, `WorktreeFails` | worktree and `Start-Process`, or the exception |
| `Record`, `RecordFails`, `FillRecord` | adding the entry and writing the file |
| `ReadResults`, `CheckProcesses`, `FillPoll`, `ReadFails` | one turn of the wait script's loop: result files, processes, rewrite, exit code |
| `Reread` | taking the file as the manifest of the next wave |
| `SeqLaunch`, `SeqNext` | foreground workers of a sequential run |
| `BeginResult`, `EndResult`, `Exit` | the runner script |
| `StopWorker` | `control-workers.ps1 -Mode Stop` |
| `GrowOld` | the clock |
| `Crash` | the launcher's process is killed |

What is abstracted, and why it is sound for the properties:

- A worker is identified with its task and a process with its worker. Batches
  of distinct runs name distinct issues; a run names an issue once. Pid reuse is
  out.
- The conflict-safe slots do not appear in `Capacity`: `WaveBuilder` checks that
  they never change the plan (`ConflictSlotsNeutral`).
- The gate's verdict on main health, safety policy and resources is a free
  choice. Its warnings about the provider pool never block.
- One poll reads every result file in one step and looks at every process in a
  second one; the code does the pair per worker. What matters, that a worker can
  finish between the two looks, is kept. The `-BatchId` filter takes every
  entry, as entries carry no batch id.
- `blocked` and `needs-human` are statuses no modelled script writes.
- A dry run writes a manifest only where it was told which (`-WorkerManifestPath`
  given); `Capacity` leaves both open. Before the first launch there may be no
  manifest, which is the same as one without entries.
- Timestamps, summaries, logs and failure classes are left out.

### ProviderPool: state and actions

`file` is the pool or `Torn`; each process of `Proc` runs one operation at a
time, in two or three steps: it loads the file and computes its copy (`Start`),
a rotation takes its backup (`Backup`), and it writes (`Empty` then `Fill`, or
`Rename` for the console's rotation, the only writer that renames a temporary
file). The rotation script calls its write atomic, but it copies the temporary
file over the pool, so it is modelled as writing in place. `RollBack` is its
catch block, which is reached from the write and from the removal of the
temporary file after it (`Finish`); `Crash` ends a process anywhere. Where
another writer has filled the file meanwhile, `Fill` may leave the end of a longer
text behind, which nobody can parse: a whole copy or `Torn`. A writer that finds the file torn
exits without a trace, so it takes no step.

| Action | Code |
|---|---|
| `SetStatus`, `IncrementConcurrency`, `DecrementConcurrency`, `ResetFailureCount` | `update-provider-pool-state.ps1 -Operation ...` |
| `RouteWorker` | `provider-key-router.ps1 -Commit` |
| `Rotate`, `Backup`, `Finish`, `RollBack` | `rotate-claude-settings-provider.ps1 -Apply` |
| `DisableProvider`, `EnableProvider`, `ResetCooldown`, `AdjustMaxConcurrency`, `AdjustGlobalMaxWorkers` | the console's action runner |
| `RotateFromConsole`, `Rename` | the console's own rotation |

`Preflight` and `Slots` are what `run-self-cycle.ps1` and `batch-launch.ps1`
compute from the pool. Abstracted: secrets (any candidate of the router may be
the one selected), the clock (a cooldown is set or not: no script compares it
with the time), health-check stamps and the audit record. The console is one
server that handles an action to its end, so at most one of its operations is
under way. The file's disappearance is left out.

### Planning: state and actions

`issues` and `prs` are what GitHub holds, `manifest` is `active-workers.json`,
`alive` the issues that are really worked on, `board` is `task-board.json`,
`plan` the plan written last, and `facts` the files that do not change here
(locks, pool, signals, health, target).

| Action | Code |
|---|---|
| `ProjectBoard` | `project-task-board.js`: labels, talk, linked pull request of each issue, tasks before discussions |
| `TopUp` | `top-up-self-cycle-queue.js`: deficit, blocks, reduced batches, eligible tasks, one per group, cut to size |
| `Backfill` | `plan-concurrency-backfill.js`: executable tasks, the least of its bounds, solo waves, filled waves |
| `Launch` | the selected tasks go to the launcher, whose new manifest replaces the old |
| `Finish`, `ClosePR`, `Relabel` | workers, pull requests and labels go their own way |

Three things of the code are easily missed. The rows of the board carry no risk,
so the planners' rules on high risk never apply to a board the projector wrote.
`isHealthOk` looks for a field `status`, and the file has `state`, so main health
never blocks a top-up. And a top-up's launch replaces the manifest, so the
workers of the batch before are no longer counted by the next top-up: this is
why `TopUpTakesCandidates` speaks of manifests that list every worker. The board
does not look at `wontfix`, `duplicate` and `invalid`, which keep an issue off the
launch candidates: a top-up may select such an issue, and the property compares
the two scripts on all the other labels. A provider
may be without a limit, which the top-up and the backfill both take for room
without end.

### ConflictGroups: state and actions

`Compare` is one turn of the nested loops over pairs, with both `find`s and the
`union`; `NameGroup` names one set. A path pattern is its set of segments, and a
segment a number that stands for its place in the alphabet, as names are made of
the two first segments. Names may read alike though the segments differ (`a-b`
and `c` against `a` and `b-c`): the instance has such a case. Lock detection by
file patterns is left out.

### Console: state and actions

One card of the page is followed, as cards share nothing but the log. `calls`
has every execution asked for, with what was sent and whether it was confirmed,
and `previews` the previews under way, not answered, shown or failed. `done` is a
history: what each execution did, on which files, and in which turn.

| Action | Code |
|---|---|
| `RequestPreview`, `ShowPreview` | the preview request with the form's payload, and its answer or its error, in any order |
| `OpenConfirm`, `Cancel`, `Go` | the question, EXECUTE, and the request with the payload of the shown preview |
| `Refresh` | the page is rebuilt every half minute |
| `Post` | another client executes without a page |
| `ServePreview` | the preview's route, which shows something or fails |
| `Refuse`, `Execute` | the execution's: status 409 for a dangerous action that nobody confirmed, or the action, which runs to its end in one callback of the server |
| `BeginLog`, `EndLog` | `.audit-log.json` is read, emptied and filled |
| `Answer` | the answer, once the entry is on file |
| `Crash`, `Change` | the server dies and is started again; other scripts rewrite the files |

The console carries a launch gate of its own, which differs from
`check-launch-gate.ps1` (workers are classified by their files, running work is
read from `running-tasks.json`, which no script writes). Its launch falls back to
the queue when the payload names no task, and finds nothing there: it filters by
`status`, and entries of the queue have `state`. `running-tasks.json` is
therefore left open: it may name any groups. The gate leaves docs tasks out of its
comparison of groups altogether, so `HandedOverFit` promises that of two tasks of a
group at least one is docs, and `console_groups` shows that this is less than the
action's page says. The log says "success" of
everything that was not thrown, and a torn log counts as an empty one.
A provider without `maxConcurrency` is one without end to
`generate-self-cycle-execute-plan.js` (line 262) and one without room to
`plan-next-batch.js` (line 59). No document says which is meant, so it is no
finding, but `JudgedAlike` names it as the only cause for which a pipeline called
ready plans nothing.
`merge-prs` runs an external script, which merges all of the numbers, or some of
them when it fails or is killed. The console's provider actions are in
`ProviderPool`.

### Escalation: state and actions

A call takes the time (`Begin`), loads and changes its copy (`Record`, `Reset`,
`SetLevel`, `Prune`) and writes the file in two steps (`Truncate`, `Fill`); it
may die anywhere (`Crash`). A torn file counts as an empty one, as in the code.
`written` says that another call has filled the file a call is about to fill; the
end of the longer text may then stick out, and the file stays torn.
`reported`, `owed` and `byHand` are histories for the properties, `lost` tells
whether some call overlapped another or died in its write. Counts and the
last-failure fields repeat the history and are left out; so are dates, of which
only the order and the window count. No script of the repository reads the file;
operators do. `escalation-threshold-policy.md` (line 213) counts 1 where failures came
at 1h and 25h; the code keeps a failure that is exactly the window old (`>=`), and
so does the model. A level an operator set lasts until the next failure or prune of
that issue, which work out the level anew.

### Dispatcher: state and actions

`pc[d]` is where a run is: between two lines, waiting for a script, in
compile-and-launch before or after the compiler, or waiting for the launcher.

| Action | Code |
|---|---|
| `AppendLine` | an agent appends a command, an unknown one, something that does not parse, or `null` |
| `Begin`, `Report` | the command file is read; the answers are appended |
| `Skip`, `Unknown`, `Die`, `DryRun` | the exits of the loop before a handler |
| `EvaluateWorkers`, `RunScript`, `ScriptEnds` | the handlers that change nothing, and those with one child |
| `Reset`, `Remove`, `Compile`, `CompileFails` | compile-and-launch: empty manifest, worktrees removed by force, compiler |
| `Launch`, `LaunchWorker`, `WorkerEnds`, `LaunchEnds`, `LaunchFails` | the launcher, which waits for its workers |
| `Timeout`, `Crash` | a time limit runs out; the run itself is killed |
| `StrayLaunches`, `OrphanEnds` | what goes on after its parent is gone |

The comment above the removal speaks of worktrees "for issues that would be
launched"; the code removes those of every issue, and the model does. The line
`null` parses, and reading its command throws outside of the try, which ends the
run with all its answers. A command file that exists and is empty gives a result
without answers. Compiler, launcher, workers and git are external: they
succeed, fail or hang. The rows a launcher writes are those it knows, so those of
other launchers may go or come back (`LaunchWorker`, `WorkerEnds`), and its wait
ends when no row shows a worker at work: after another run has wiped the manifest
it may leave workers of its own behind (`LaunchEnds`).

## 3. Runs

Deadlock is not checked in any run: a batch ends, a worker exits, a torn pool
stops every writer, a bound on calls, lines or reports is used up, and a picture
of the issues can stay as it is.

| Run | Instance | Shows |
|---|---|---|
| `waves` | six tasks that meet every kind of clash, all batches of up to four with repetition, caps 1 to 3 | the plan is safe, earliest and complete; conflict-safe slots are neutral |
| `one_run` | one run of three tasks, two of them of high risk, in all modes, up to three slots, crashes | wave barrier, no clashing tasks at work, the cap, every worker on file, success is complete, and the manifest implements `WorkerLifecycle` |
| `monitored` | one run of two tasks, one or two waves of one, which may crash, and one `-Once` monitor that rewrites the manifest meanwhile; fair, workers that may hang | verdicts of the manifest have grounds; a parallel run ends |
| `pool` | one provider, two processes that run any operation, lose updates, tear the file, roll back and crash; at most one worker and one quota event on file at a time | counters and cooldowns stay consistent, a full update heals the summary, the preflight stops nothing that has room |
| `planning` | three issues, two of them of one group or all apart, one with a label that keeps it off the candidates, one pull request, two starting situations (free; limited by locks, risk and pool), label changes | a top-up stays apart from work on file, fills what it may, agrees with the launch candidates; the backfill previews the launcher |
| `groups` | all batches of up to four tasks over seven kinds of files, broad and organizational patterns among them | groups are the components, names tell them apart, the trees stay balanced |
| `console` | four forms of three actions, one of which throws; another client that posts a batch, confirmed or not; two situations of the files (green with three providers that have room for one each; yellow with a provider without a limit, an exhausted one and running work of a group and of none); two previews under way, two executions, one death of the server; fair | what is done was consented to, and fits the files of its moment; plans fit the pool; readiness test and planner differ over missing limits only; the log has each execution once, with its outcome and in order; every call ends |
| `escalation` | two issues, two callers, two failures, a window the clock can leave | no level without grounds; exact histories where nothing overlapped |
| `dispatcher` | one issue, two runs, at once or in turn, two lines of any kind; fair | answers in full, once per run, harmless launches in turn; every run ends |

The bounds. Two tasks are needed for a wave and its successor, and for a clash;
three so that a wave of two can be followed by another, or a third task can fill
an earlier wave. In `monitored`, a run and a monitor are the two writers that can
lose each other's updates. `MaxSlots` goes to the number of
tasks where the cap is the question. Batches launched one after the other, and
verdicts under overlapping launchers, are covered by the theorems of
`LauncherProofs`, among them `FileIsHonest`, which leave the number of runs open.

In the pool, two processes give every pair of overlapping read-modify-writes, and
each operation touches one provider. `MaxCount` and `MaxEvents` only cap counters
in the guards; with both at 1 a count can be zero, at its limit, and lost.
`MaxLimit` and `MaxCeiling` range over the limits the console may set. The proofs
lift these bounds, but for the caps themselves, which stay parameters.

`planning` needs three issues for a batch of two that leaves one out; `PR` names
one pull request, which may be opened and closed over and over. `groups` needs four tasks for two
trees of rank 1 to be joined, the least case in which a union must look at ranks
and a path be compressed. In `console` two previews are the least that can
overtake each other, and two executions the least whose lines in the log can be
in the wrong order; one of them may die half-logged, and a batch plan may be
overwritten by a second one. A merge with pull requests to consent to is covered
by `ConsentHolds` only: the form the run has names none, and throws.
`escalation` sets the window to zero ticks and the clock to one, so a failure is
either new or out; with two failures an issue goes from `L0` to `L1`, and an
operator may set `L2`; the theorem lifts all of these bounds. `dispatcher` has
one issue, as two make more states than a run can go through: launches differ in
whether a task was compiled, and `compiled-tasks.json` in whose it was. Two lines
let a command follow one that failed, hung or does not parse, and two runs can
overlap, or the second finds what the first left behind. The theorems of
`DispatcherProofs` leave the number of runs open.

Runs whose `expect` is `violation` show where the code does something else than a
document says; each finding quotes the sentence.

| Run | The claim | What happens |
|---|---|---|
| `claim_in_flight` | the gate keeps a batch from colliding with work in flight | a stale entry no longer counts, its worker is alive |
| `console_launch` | the console dispatches the batch when the gate passes | the file handed to the launcher holds a plan object and no tasks, and the launcher stops on it |
| `console_groups` | no two tasks of a group but docs tasks | a docs task and another of the same group pass the console's gate; the launcher's own check of groups stops such a batch |

## 4. Fairness

`monitored`: `FairSpec` assumes that a launcher takes its steps (it is a program that
runs on; its waits poll on a timer) and that time passes for a worker that is
alive (`GrowOld`). Nothing is assumed of workers, who may hang; of operators, who
need not start a run; or of monitors. That is why `ParallelRunEnds` says
something: the only thing that ends the wait for a hung worker is the stale rule.
Sequential runs wait in the foreground without limit, and no such property holds
of them.

`console`: requests arrive and the server goes on with the callback it is in
(`Execute`, `Refuse`, `BeginLog`, `EndLog`, `Answer`). Nothing is assumed of the operator, of other
clients or of a restart, and the server may die. `CallsEnd` holds all the same,
as a request to a dead server fails.

`dispatcher`: a run goes on and its timers fire (`Step`, which has `Timeout`).
Nothing is assumed of the children, who may hang, of the agent, or of whoever
starts runs. `RunsEnd` rests on every child having a time limit.

## 5. Proofs

Every invariant and action property of the passing runs is also a theorem, for
every value of the constants within the named assumptions; the three liveness
properties are not (see the end of this section). A component's theorems are in
one module, with the lemmas they rest on.

- `WaveBuilderProofs`: `TypeCorrect`, `WavesAreSafe`, `PlacedEarliest`,
  `NothingLostOrDoubled`, `SlotsNeutral`. The lemmas say what `Join` and `Open` do
  to a plan, and why a task that joins an earlier wave never frees a place for one
  already placed: waves only grow, so what did not fit does not fit later.
  `NothingLostOrDoubled` counts: a step adds one place and one occurrence of the
  same task. `SlotsNeutral` shows that the loop follows the recursion of
  `BuildWaves`, and that a cap which no wave of the plan for 30 exceeds gives that
  same plan: the two recursions agree at every step, as a task that joined a wave
  under the larger cap found it below the smaller one.
- `LauncherProofs`: types come with what ties the position of a run to its batch
  and waves, so that `Current(r)` is always a task (`TypeCorrect`).
  `FileIsHonest` is `Spec => []VerdictsHold`. The file alone is
  not inductive: what matters is every copy of it. The invariant says that each
  copy held by any run or monitor is as honest as the file, that copies between
  the two looks of a poll are too, and that grounds never go away (a result, once
  complete, stays; age stays; an exited process stays exited). It needs no
  assumption on how many runs or monitors overlap.
  `BarrierHolds`, `NoClash`, `CapHolds`, `WorkersOnFile`,
  `SuccessMeansAllDone` and `LifecycleImplemented` are for one launcher at a time
  and no monitor; crashes, kills, torn files and any number of runs one after the
  other. The inductive invariant follows the only live copy of the
  manifest: outside of a run's write steps the file and its copy agree, every
  task of the current wave started so far is on file, and reaching the re-read
  means the file had no entry running, failed or stale, so all are completed and
  by honesty have exit code 0. The barrier puts all workers at work in one wave,
  which is free of clashes and no longer than the cap. `Complete` says that the
  waves hold every task planned so far, so the end of the last wave is the end of
  the batch. `LifecycleImplemented` is the refinement of `WorkerLifecycle`: `Tracks`
  says that what a run is about to write is one legal move away from the file,
  which needs that a task not yet come to is on nobody's file or copy, and that
  nothing is still `planned` when a poll settles results.
- `ProviderPoolProofs`: `TypeCorrect`, `FailuresCounted`, `ExhaustedRecoverable`,
  `SummariesHeal`, `BlocksRightly`,
  for any number of providers and processes, with no bound on how their steps
  interleave. A property of the file is not inductive, as an old copy may
  become the file: the invariant `PoolInv` asks soundness of every copy and every
  backup, and a true summary of the copies of writers that owe one. That totals
  are numbers, and zero only if nothing has room, comes from a lemma on sums over
  finite sets, whose fold is unfolded to a recursion on subsets.
- `PlanningProofs`: `TopUpStaysApart`, `TopUpFillsUp`, `TopUpCandidates`,
  `BackfillFirstFit`, for any issues, labels, pull requests, files and defaults
  (`WorldAssumption`, `GeneralAssumption`, `DefaultsAssumption`: issues come with a
  group and a set of labels, no pull request is `NoPR`, no group is the empty
  string, numbers are natural and capacities positive). `PlanningInv` says that a
  group stays with its issue: every row of the board, however old, every task
  planned and every entry of the manifest names an issue with the group the issue
  has. Without it a row might name no group, and the planners would count it as
  one of `general`. For the top-up there is a lemma that a cut to size takes as
  many as there is room for, and everything while there is room; for the
  candidates, that a state of `ready` or `todo` is found in the label map only past
  all the labels of finished and running work. For the backfill the recursion of
  `planWaves` and the fold of `FillWave` are unfolded: a pass over what remains
  takes something, and passes over a task only for want of room, so there are no
  more passes than tasks, and what a later wave holds did not fit before.
- `ConflictGroupsProofs`: `GroupsRight`, `RanksRight`, for any batch that is a
  sequence (`BatchesAssumption`). The invariant `GroupsInv` carries a witness: a
  function from tasks to their roots along which every parent leads, with ranks
  that rise on the way up and classes of at least `2^rank` tasks. `find` changes
  parents and not the witness; `union` merges two of its classes, which is what one
  more edge does to the components. Names are given one by one, each new, as some
  suffix is always free.
- `ConsoleProofs`: `TypeCorrect`, `LogIsTrue`, `ConsentHolds`,
  `FitWhenHandedOver`, `AlikeButForLimits`, `BatchesFit`, for any forms, files and
  number of previews, executions and deaths (`PayloadAssumption`,
  `FilesAssumption`, `NamesAssumption`, `MarkAssumption`: payloads name actions,
  files are lists with the fields the scripts read, but for limits of providers,
  which may be missing; providers have ids and queue entries issues of their own). Consent is a matter of the page (`PageTyped`: under the
  question lies the payload of the shown preview) and of what an action may do with
  a payload. The log is a matter of the server (`Noted`, `Booked`, `Unbroken`): it holds one
  execution at a time, and what it has read of the log is the log that is being
  rewritten, so nothing is lost but by a death between the two, and every entry is of a later
  turn than those before it. `BatchesFit` is an
  induction over the loop of `computeBatchPlan`: shares stay within the headroom,
  groups apart, and an entry passed over has its group planned or finds no provider
  left, whose headroom is then used up. `AlikeButForLimits` needs of the same loop only
  that it places the first entry it can, and that it places none without a provider
  that has room: such a provider is available and below its limit, and one that is
  ready and has no room for the planner is without a limit.
- `EscalationProofs`: `EscalationTyped`, `EscalationNoFalseAlarm` and
  `EscalationExactWhenAlone`, for any number of issues, callers and failures, any
  window and any clock. As with the pool, the file alone is not inductive: the
  invariant says that every state a call holds in memory is as well accounted for
  as the file, by failures that were reported and by levels an operator set, and
  neither of these ever goes away. For exactness it says that, while nothing
  overlapped or died in its write, at most one call holds a state, a torn file has
  its writer, and what is held agrees with what will be owed once it is written,
  up to failures that have left the window.
- `DispatcherProofs`: `TypeCorrect`, `InTurnHarmless`, `ResultsAnswerAll`,
  `StartedOncePerRun`, for any number of runs, issues and lines. For answers, what
  a run holds so far tells all lines up to the one it is at (`SoFar`), in the file
  as it was when it read it, and the file only grows. For `StartedOncePerRun`,
  `Counted` keeps two balances of every line: starts of its command and runs that
  have not come to it yet are no more than the runs that read it; reports of it and
  runs that still may report it are no more than its starts. `InTurn` says that while the
  history is calm there are no strays and no orphans, at most one run is under way,
  and its workers have their worktrees and are on file.

Induction. What is proved of loops, folds and recursive functions is proved
first-order: a nonempty set of numbers has a least (`NatLeast`, from the
well-foundedness of `<`), so a set of numbers with 0 that is closed under
successors is all of them (`NatInd`), and each recursion is shown to have a
solution, which is then followed step by step. No induction theorem with an
operator as its parameter is used. Loops of the code that are modelled as
recursive functions (`Kept`, `planWaves`, `BuildWaves`, `computeBatchPlan`) and
folds (`FillWave`, totals, capacities) come within reach in this way; where a
library operator is recursive itself or unspecified, the models use these forms
instead.

Checked by TLC only: `ParallelRunEnds`, `CallsEnd` and `RunsEnd`, as liveness under
fairness needs `ENABLED`, which the prover does not handle; and the three claims
that are violated. The theorems of `LauncherProofs` on the barrier, the cap and
the lifecycle assume one launcher at a time and no monitor (`~Overlap`, `Monitor = {}`),
as launchers side by side overwrite each other's manifest, on which the barrier
rests.


## 6. Plan

Done: the launch core, the provider pool, the planning loop with its board and
planners, the conflict-group allocator, the console's actions, the escalation
tracker and the command dispatcher. Left, in this order:

1. `Reconciler`: labels, drift rules and the two-call remediation, with issue
   closing as a second actor; convergence of repeated passes. It needs a model of
   remote calls that fail after they took effect.
2. `Health`: trigger cooldown and recovery dispatch, once something reads the
   trigger.
3. The backfill's and the top-up's plans composed with `Launcher` itself in place
   of the one step `Launch`.

## 7. Not modelled

- The merge queue. Its queue mode runs under `Set-StrictMode -Version Latest` and
  takes `.Count` of values that may be `$null` or a single object, which throws or
  not depending on the version of PowerShell; the repository does not settle
  which, so a model would have to guess at every step.
- The reconciler and issue closing: all they change is on GitHub, by pairs and
  triples of remote calls. What a failed call leaves behind is not in this source.
- The health scripts: each writes one file from one report, and nothing reads the
  trigger that would connect them. What others read off `main-health.json` is in
  `Planners` and `ConsoleActions`.
- The runner of a single task: a model session and git steps, of which the launcher
  sees an exit code.
- Signal calculators, emitters, issue planners and compilers, guards, samplers and
  ledgers: each computes or appends to a file from files and keeps no state.
- The console's audit store, which no other script uses, and its remaining actions,
  each a single call of one script.
- The NestJS backend, which forwards requests and keeps nothing between them; most
  of its lines are generated Prisma clients.

The hazards that bite in unmodelled code and the ones no property covers are in
`PROJECT.json` with the reason, as far as they matter most; smaller ones of the
same kind (the audit record written after the pool, a reused pid in
`control-workers.ps1`, the exit code of `run-claude-print.ps1`, two drift rules for
one issue) are left out there.
