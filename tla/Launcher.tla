------------------------------ MODULE Launcher ------------------------------
(***************************************************************************)
(* Bounded parallel worker execution: runs of scripts/ai/batch-launch.ps1, *)
(* the launch gate they ask, the wait script they call after each wave,    *)
(* stand-alone `wait-parallel-workers.ps1 -Once` monitors, the worker      *)
(* processes, and the one file they all read and rewrite without a lock,   *)
(* .github/ai-state/active-workers.json.                                   *)
(*                                                                         *)
(* A rewrite is Set-Content: it empties the file, then fills it.  Between  *)
(* the two the file is torn and no reader can parse it.                    *)
(***************************************************************************)
EXTENDS Waves, FiniteSets

CONSTANTS
  Run,         \* invocations of batch-launch.ps1, each started at most once
  Monitor,     \* operators' `wait-parallel-workers.ps1 -Once` loops
  owner,       \* the run whose task file holds a task
  docsOnly,    \* tasks whose allowedFiles all lie under docs/
  Modes,       \* how a run may be invoked
  MaxSlots,    \* bound on the parallelism the capacity inputs allow
  Overlap,     \* may a run start while another is under way?
  MayCrash,    \* may a launcher process die between two steps?
  NoManifest   \* $null, what Read-JsonFile returns for a torn file

Status == {"null", "planned", "running", "completed", "failed", "stale"}

\* What the file says of every task.
Projection == [Task -> Status]

ASSUME LauncherAssumption ==
  /\ owner \in [Task -> Run]
  /\ Run \cap Monitor = {}
  /\ docsOnly \subseteq Task
  /\ Modes \subseteq {"parallel", "sequential", "dry-run"}
  /\ MaxSlots \in Nat
  /\ {Overlap, MayCrash} \subseteq BOOLEAN
  /\ NoManifest \notin Projection

VARIABLES
  pc,      \* where each run and monitor is
  mode,    \* the switches a run was invoked with
  plans,   \* the run's batch, in file order
  gate,    \* what came of the run's gate check
  cap,     \* the run's wave size limit
  waves,   \* the run's waves
  at,      \* the wave it is at
  ix,      \* the position it is at, in the batch or in the wave
  mem,     \* $manifest: the run's or monitor's copy of the file
  file,    \* active-workers.json: the status of each entry, "null" if none
  torn,    \* a rewrite has emptied the file and not filled it yet
  proc,    \* the worker process of each task
  result,  \* the worker's result.json
  old      \* workers started StaleMinutes ago or longer

launchVars == <<mode, plans, gate, cap, waves, at, ix>>
workerVars == <<proc, result, old>>
vars == <<pc, launchVars, mem, file, torn, workerVars>>

Actor == Run \cup Monitor

Active(r) == pc[r] \notin {"idle", "done", "failed"}
Tasks(r) == {plans[r][i] : i \in DOMAIN plans[r]}

Goto(p, label) == pc' = [pc EXCEPT ![p] = label]

-----------------------------------------------------------------------------
\* The batches a run can be given: some of its tasks, each named once.
BatchOf(r) ==
  {b \in UNION {[1 .. n -> Task] : n \in 1 .. Cardinality(Task)} :
     /\ \A i \in DOMAIN b : owner[b[i]] = r
     /\ \A i, j \in DOMAIN b : b[i] = b[j] => i = j}

DuplicateGroup(b) ==
  \E i, j \in DOMAIN b :
    i # j /\ SameGroup(b[i], b[j]) /\ conflictGroup[b[i]] # NoGroup

DuplicateNonDocGroup(b) ==
  \E i, j \in DOMAIN b :
    /\ i # j
    /\ SameGroup(b[i], b[j])
    /\ conflictGroup[b[i]] # NoGroup
    /\ b[i] \notin docsOnly

ContestedLock(b) == \E i, j \in DOMAIN b : i # j /\ LockOverlap(b[i], b[j])

\* The operator starts a run.  Duplicate groups stop a sequential one here.
Begin(r) ==
  /\ pc[r] = "idle"
  /\ Overlap \/ \A q \in Run : ~Active(q)
  /\ \E m \in Modes, b \in BatchOf(r) :
       /\ mode' = [mode EXCEPT ![r] = m]
       /\ plans' = [plans EXCEPT ![r] = b]
       /\ Goto(r, IF m = "sequential" /\ DuplicateNonDocGroup(b)
                  THEN "failed" ELSE "gate")
  /\ UNCHANGED <<gate, cap, waves, at, ix, mem, file, torn, workerVars>>

-----------------------------------------------------------------------------
(***************************************************************************)
(* The launch gate.  It blocks a batch that contests a group or a lock     *)
(* within itself, or names the group of an entry it takes for running; or  *)
(* because of main health or resources, which is left open here.           *)
(***************************************************************************)
RunningGroups == {conflictGroup[t] : t \in {u \in Task : file[u] = "running"}}

RunningConflict(b) ==
  \E i \in DOMAIN b :
    conflictGroup[b[i]] # NoGroup /\ conflictGroup[b[i]] \in RunningGroups

GatePass(r) ==
  /\ pc[r] = "gate" /\ ~torn
  /\ ~DuplicateGroup(plans[r]) /\ ~ContestedLock(plans[r])
  /\ ~RunningConflict(plans[r])
  /\ gate' = [gate EXCEPT ![r] = "pass"]
  /\ Goto(r, "capacity")
  /\ UNCHANGED <<mode, plans, cap, waves, at, ix, mem, file, torn, workerVars>>

GateBlock(r) ==
  /\ pc[r] = "gate" /\ ~torn
  /\ \E why \in {"batch", "running", "policy"} :
       /\ why = "batch" => DuplicateGroup(plans[r]) \/ ContestedLock(plans[r])
       /\ why = "running" => RunningConflict(plans[r])
       /\ gate' = [gate EXCEPT ![r] = why]
  /\ Goto(r, IF mode[r] = "dry-run" THEN "capacity" ELSE "failed")
  /\ UNCHANGED <<mode, plans, cap, waves, at, ix, mem, file, torn, workerVars>>

\* A torn manifest ends the gate with no report, and the run goes on without.
GateUnparsed(r) ==
  /\ pc[r] = "gate" /\ torn
  /\ gate' = [gate EXCEPT ![r] = "no-report"]
  /\ Goto(r, "capacity")
  /\ UNCHANGED <<mode, plans, cap, waves, at, ix, mem, file, torn, workerVars>>

\* Mutant of Capacity: the number of slots is not raised to one.
CapacityUnraised(r) ==
  /\ pc[r] = "capacity"
  /\ \E slots \in 0 .. MaxSlots :
       /\ cap' = [cap EXCEPT ![r] = slots]
       /\ \/ mode[r] = "sequential" /\ Goto(r, "seq")
          \/ mode[r] = "dry-run" /\ \E next \in {"reset", "done"} : Goto(r, next)
          \/ mode[r] = "parallel" /\ Goto(r, IF slots = 0 THEN "failed" ELSE "plan")
  /\ UNCHANGED <<mode, plans, gate, waves, at, ix, mem, file, torn, workerVars>>

\* slots is the least of the requested, provider, resource and budget numbers.
\* A dry run writes a manifest only where it was told which.
Capacity(r) ==
  /\ pc[r] = "capacity"
  /\ \E slots \in 0 .. MaxSlots :
       /\ cap' = [cap EXCEPT ![r] = IF slots = 0 THEN 1 ELSE slots]
       /\ \/ mode[r] = "sequential" /\ Goto(r, "seq")
          \/ mode[r] = "dry-run" /\ \E next \in {"reset", "done"} : Goto(r, next)
          \/ mode[r] = "parallel" /\ Goto(r, IF slots = 0 THEN "failed" ELSE "plan")
  /\ UNCHANGED <<mode, plans, gate, waves, at, ix, mem, file, torn, workerVars>>

\* Mutant of PlanTask: waves are built for the slots asked for, not granted.
PlanTaskUncapped(r) ==
  LET t == plans[r][ix[r]] IN
  /\ pc[r] = "plan"
  /\ \/ /\ NoWaveFits(waves[r], t, MaxSlots)
        /\ waves' = [waves EXCEPT ![r] = Open(waves[r], t)]
     \/ \E i \in DOMAIN waves[r] :
          /\ FirstFit(waves[r], t, MaxSlots, i)
          /\ waves' = [waves EXCEPT ![r] = Join(waves[r], i, t)]
  /\ IF ix[r] = Len(plans[r])
     THEN Goto(r, "reset") /\ ix' = [ix EXCEPT ![r] = 1]
     ELSE pc' = pc /\ ix' = [ix EXCEPT ![r] = ix[r] + 1]
  /\ UNCHANGED <<mode, plans, gate, cap, at, mem, file, torn, workerVars>>

\* Build-Waves, one task of the batch at a time.
PlanTask(r) ==
  LET t == plans[r][ix[r]] IN
  /\ pc[r] = "plan"
  /\ \/ /\ NoWaveFits(waves[r], t, cap[r])
        /\ waves' = [waves EXCEPT ![r] = Open(waves[r], t)]
     \/ \E i \in DOMAIN waves[r] :
          /\ FirstFit(waves[r], t, cap[r], i)
          /\ waves' = [waves EXCEPT ![r] = Join(waves[r], i, t)]
  /\ IF ix[r] = Len(plans[r])
     THEN Goto(r, "reset") /\ ix' = [ix EXCEPT ![r] = 1]
     ELSE pc' = pc /\ ix' = [ix EXCEPT ![r] = ix[r] + 1]
  /\ UNCHANGED <<mode, plans, gate, cap, at, mem, file, torn, workerVars>>

-----------------------------------------------------------------------------
\* New-Manifest starts from no workers at all; a dry run lists its plan.
Reset(r) ==
  /\ pc[r] = "reset"
  /\ mem' = [mem EXCEPT ![r] =
       [t \in Task |-> IF mode[r] = "dry-run" /\ t \in Tasks(r)
                       THEN "planned" ELSE "null"]]
  /\ torn' = TRUE
  /\ Goto(r, "reset.fill")
  /\ UNCHANGED <<launchVars, file, workerVars>>

FillReset(r) ==
  /\ pc[r] = "reset.fill"
  /\ file' = mem[r]
  /\ torn' = FALSE
  /\ Goto(r, IF mode[r] = "dry-run" THEN "done" ELSE "launch")
  /\ UNCHANGED <<launchVars, mem, workerVars>>

Current(r) == waves[r][at[r]][ix[r]]

\* Ensure-Worktree and Start-Process: the worker is alive, and on no record.
Launch(r) ==
  /\ pc[r] = "launch"
  /\ proc' = [proc EXCEPT ![Current(r)] = "working"]
  /\ Goto(r, "record")
  /\ UNCHANGED <<launchVars, mem, file, torn, result, old>>

\* Ensure-Worktree gives up, in the middle of a wave as well as before one.
WorktreeFails(r) ==
  /\ pc[r] \in {"launch", "seq"}
  /\ Goto(r, "failed")
  /\ UNCHANGED <<launchVars, mem, file, torn, workerVars>>

\* Mutant of Record: the manifest is made of the new worker alone.
RecordAlone(r) ==
  /\ pc[r] = "record"
  /\ mem[r] # NoManifest
  /\ mem' = [mem EXCEPT ![r] =
       [t \in Task |-> IF t = Current(r) THEN "running" ELSE "null"]]
  /\ torn' = TRUE
  /\ Goto(r, "record.fill")
  /\ UNCHANGED <<launchVars, file, workerVars>>

Record(r) ==
  /\ pc[r] = "record"
  /\ mem[r] # NoManifest
  /\ mem' = [mem EXCEPT ![r][Current(r)] = "running"]
  /\ torn' = TRUE
  /\ Goto(r, "record.fill")
  /\ UNCHANGED <<launchVars, file, workerVars>>

\* With no manifest to add to, the launcher stops; its worker is running.
RecordFails(r) ==
  /\ pc[r] = "record"
  /\ mem[r] = NoManifest
  /\ Goto(r, "failed")
  /\ UNCHANGED <<launchVars, mem, file, torn, workerVars>>

FillRecord(r) ==
  /\ pc[r] = "record.fill"
  /\ file' = mem[r]
  /\ torn' = FALSE
  /\ IF ix[r] = Len(waves[r][at[r]])
     THEN Goto(r, "poll") /\ UNCHANGED ix
     ELSE Goto(r, "launch") /\ ix' = [ix EXCEPT ![r] = ix[r] + 1]
  /\ UNCHANGED <<mode, plans, gate, cap, waves, at, mem, workerVars>>

-----------------------------------------------------------------------------
(***************************************************************************)
(* wait-parallel-workers.ps1.  Its -BatchId filter takes every entry, as   *)
(* no entry carries a batch id, so a poll settles whatever the file holds. *)
(***************************************************************************)
Unsettled == {"planned", "running"}

\* Mutants of ByResult: a final status gives way to a late result; a result
\* being written passes for exit code 0.
ByLateResult(t, s) ==
  IF result[t] = "none" THEN s
  ELSE IF result[t] = "ok" THEN "completed"
  ELSE "failed"

ByPartialResult(t, s) ==
  IF s \notin Unsettled \/ result[t] = "none" THEN s
  ELSE IF result[t] \in {"ok", "partial"} THEN "completed"
  ELSE "failed"

\* Update-Worker, first half: the verdict of a result file, when there is one.
ByResult(t, s) ==
  IF s \notin Unsettled \/ result[t] = "none" THEN s
  ELSE IF result[t] = "ok" THEN "completed"
  ELSE "failed"

\* Mutants of ByProcess: a worker alive past StaleMinutes is called failed;
\* no worker ever grows stale.
ByAge(t, s) ==
  IF s # "running" THEN s
  ELSE IF proc[t] # "working" \/ t \in old THEN "failed"
  ELSE "running"

ByLife(t, s) ==
  IF s # "running" THEN s
  ELSE IF proc[t] # "working" THEN "failed"
  ELSE "running"

\* Update-Worker, second half: the verdict of the process, when there is none.
\* Only an entry that was launched has a process id.
ByProcess(t, s) ==
  IF s # "running" THEN s
  ELSE IF proc[t] # "working" THEN "failed"
  ELSE IF t \in old THEN "stale"
  ELSE "running"

ReadResults(p) ==
  /\ \/ p \in Run /\ pc[p] = "poll"
     \/ p \in Monitor /\ pc[p] = "idle"
  /\ ~torn
  /\ mem' = [mem EXCEPT ![p] = [t \in Task |-> ByResult(t, file[t])]]
  /\ Goto(p, "check")
  /\ UNCHANGED <<launchVars, file, torn, workerVars>>

\* A torn file ends the wait script, and with it the run.
ReadFails(r) ==
  /\ pc[r] = "poll"
  /\ torn
  /\ Goto(r, "failed")
  /\ UNCHANGED <<launchVars, mem, file, torn, workerVars>>

CheckProcesses(p) ==
  /\ pc[p] = "check"
  /\ mem' = [mem EXCEPT ![p] = [t \in Task |-> ByProcess(t, mem[p][t])]]
  /\ torn' = TRUE
  /\ Goto(p, "poll.fill")
  /\ UNCHANGED <<launchVars, file, workerVars>>

StillRunning(p) == \E t \in Task : mem[p][t] = "running"
AnyBad(p) == \E t \in Task : mem[p][t] \in {"failed", "stale"}

\* Mutant of FillPoll: the wait script ends well whatever became of the wave.
FillPollForgiving(p) ==
  /\ pc[p] = "poll.fill"
  /\ file' = mem[p]
  /\ torn' = FALSE
  /\ Goto(p, IF p \in Monitor THEN "idle"
             ELSE IF StillRunning(p) THEN "poll"
             ELSE "reread")
  /\ mem' = [mem EXCEPT ![p] = NoManifest]
  /\ UNCHANGED <<launchVars, workerVars>>

FillPoll(p) ==
  /\ pc[p] = "poll.fill"
  /\ file' = mem[p]
  /\ torn' = FALSE
  /\ Goto(p, IF p \in Monitor THEN "idle"
             ELSE IF StillRunning(p) THEN "poll"
             ELSE IF AnyBad(p) THEN "failed"
             ELSE "reread")
  /\ mem' = [mem EXCEPT ![p] = NoManifest]
  /\ UNCHANGED <<launchVars, workerVars>>

\* The wave is over: take the file as the manifest and go to the next wave.
Reread(r) ==
  /\ pc[r] = "reread"
  /\ IF at[r] = Len(waves[r])
     THEN Goto(r, "done") /\ UNCHANGED <<mem, at, ix>>
     ELSE /\ Goto(r, "launch")
          /\ mem' = [mem EXCEPT ![r] = IF torn THEN NoManifest ELSE file]
          /\ at' = [at EXCEPT ![r] = at[r] + 1]
          /\ ix' = [ix EXCEPT ![r] = 1]
  /\ UNCHANGED <<mode, plans, gate, cap, waves, file, torn, workerVars>>

-----------------------------------------------------------------------------
\* Sequential execute runs each worker in the foreground and ignores how it
\* ends; it never touches the manifest.
SeqLaunch(r) ==
  /\ pc[r] = "seq"
  /\ proc' = [proc EXCEPT ![plans[r][ix[r]]] = "working"]
  /\ Goto(r, "seq.wait")
  /\ UNCHANGED <<launchVars, mem, file, torn, result, old>>

SeqNext(r) ==
  /\ pc[r] = "seq.wait"
  /\ proc[plans[r][ix[r]]] = "exited"
  /\ IF ix[r] = Len(plans[r])
     THEN Goto(r, "done") /\ UNCHANGED ix
     ELSE Goto(r, "seq") /\ ix' = [ix EXCEPT ![r] = ix[r] + 1]
  /\ UNCHANGED <<mode, plans, gate, cap, waves, at, mem, file, torn, workerVars>>

\* The launcher's own process ends; its workers are separate processes.
Crash(r) ==
  /\ MayCrash /\ Active(r)
  /\ Goto(r, "failed")
  /\ UNCHANGED <<launchVars, mem, file, torn, workerVars>>

-----------------------------------------------------------------------------
\* The runner script of a parallel worker writes its result, then exits.
BeginResult(t) ==
  /\ proc[t] = "working" /\ mode[owner[t]] = "parallel"
  /\ result[t] = "none"
  /\ result' = [result EXCEPT ![t] = "partial"]
  /\ UNCHANGED <<pc, launchVars, mem, file, torn, proc, old>>

EndResult(t) ==
  /\ proc[t] = "working" /\ result[t] = "partial"
  /\ \E code \in {"ok", "fail"} : result' = [result EXCEPT ![t] = code]
  /\ UNCHANGED <<pc, launchVars, mem, file, torn, proc, old>>

Exit(t) ==
  /\ proc[t] = "working"
  /\ mode[owner[t]] = "parallel" => result[t] \in {"ok", "fail"}
  /\ proc' = [proc EXCEPT ![t] = "exited"]
  /\ UNCHANGED <<pc, launchVars, mem, file, torn, result, old>>

\* control-workers.ps1 -Mode Stop kills a process the manifest lists, and
\* leaves its entry as it is.
StopWorker(t) ==
  /\ proc[t] = "working" /\ ~torn
  /\ file[t] \notin {"null", "planned"}
  /\ proc' = [proc EXCEPT ![t] = "exited"]
  /\ UNCHANGED <<pc, launchVars, mem, file, torn, result, old>>

\* StaleMinutes pass.
GrowOld(t) ==
  /\ proc[t] = "working" /\ t \notin old
  /\ old' = old \cup {t}
  /\ UNCHANGED <<pc, launchVars, mem, file, torn, proc, result>>

-----------------------------------------------------------------------------
Init ==
  /\ pc = [p \in Actor |-> "idle"]
  /\ mode = [r \in Run |-> "none"]
  /\ plans = [r \in Run |-> <<>>]
  /\ gate = [r \in Run |-> "unasked"]
  /\ cap = [r \in Run |-> 1]
  /\ waves = [r \in Run |-> <<>>]
  /\ at = [r \in Run |-> 1]
  /\ ix = [r \in Run |-> 1]
  /\ mem = [p \in Actor |-> NoManifest]
  /\ file = [t \in Task |-> "null"]
  /\ torn = FALSE
  /\ proc = [t \in Task |-> "none"]
  /\ result = [t \in Task |-> "none"]
  /\ old = {}

\* What a run does by itself once it is started.
RunStep(r) ==
  \/ GatePass(r) \/ GateBlock(r) \/ GateUnparsed(r) \/ Capacity(r)
  \/ PlanTask(r) \/ Reset(r) \/ FillReset(r)
  \/ Launch(r) \/ WorktreeFails(r) \/ Record(r) \/ RecordFails(r) \/ FillRecord(r)
  \/ ReadFails(r) \/ Reread(r) \/ SeqLaunch(r) \/ SeqNext(r)

PollStep(p) == ReadResults(p) \/ CheckProcesses(p) \/ FillPoll(p)

WorkerStep(t) ==
  BeginResult(t) \/ EndResult(t) \/ Exit(t) \/ StopWorker(t) \/ GrowOld(t)

Next ==
  \/ \E r \in Run : Begin(r) \/ RunStep(r) \/ Crash(r)
  \/ \E p \in Actor : PollStep(p)
  \/ \E t \in Task : WorkerStep(t)

Spec == Init /\ [][Next]_vars

\* A launcher is a program that runs on, and time passes.  Nothing makes a
\* worker finish, a monitor poll, or an operator start a run.
FairSpec ==
  /\ Spec
  /\ \A r \in Run : WF_vars(RunStep(r) \/ PollStep(r))
  /\ \A t \in Task : WF_vars(GrowOld(t))

-----------------------------------------------------------------------------
Labels == {"idle", "gate", "capacity", "plan", "reset", "reset.fill", "launch",
           "record", "record.fill", "poll", "check", "poll.fill", "reread",
           "seq", "seq.wait", "done", "failed"}

TypeOK ==
  /\ pc \in [Actor -> Labels]
  /\ mode \in [Run -> Modes \cup {"none"}]
  /\ plans \in [Run -> Seq(Task)]
  /\ gate \in [Run -> {"unasked", "pass", "batch", "running", "policy", "no-report"}]
  /\ cap \in [Run -> Nat \ {0}]
  /\ waves \in [Run -> Seq(Seq(Task))]
  /\ at \in [Run -> Nat \ {0}]
  /\ ix \in [Run -> Nat \ {0}]
  /\ mem \in [Actor -> Projection \cup {NoManifest}]
  /\ file \in Projection
  /\ torn \in BOOLEAN
  /\ proc \in [Task -> {"none", "working", "exited"}]
  /\ result \in [Task -> {"none", "partial", "ok", "fail"}]
  /\ old \subseteq Task

\* A worker at work: alive, and not yet writing down how it ended.
AtWork(t) == proc[t] = "working" /\ result[t] = "none"

(***************************************************************************)
(* However runs, monitors, torn files and lost updates interleave, the     *)
(* file never calls a worker completed unless its result file says exit    *)
(* code 0, nor stale unless it did outlive StaleMinutes, nor failed while  *)
(* it is still at work with no sign of a result.                           *)
(***************************************************************************)
VerdictHolds(t, s) ==
  /\ s = "completed" => result[t] = "ok"
  /\ s = "stale" => t \in old
  /\ s = "failed" => proc[t] = "exited" \/ result[t] # "none"
  /\ s = "running" => proc[t] # "none"

VerdictsHold == \A t \in Task : VerdictHolds(t, file[t])

(***************************************************************************)
(* The barrier between waves: no worker of a wave is started before every  *)
(* worker of every earlier wave has written a result with exit code 0.     *)
(* One launcher at a time and no monitor; crashes and kills allowed.       *)
(***************************************************************************)
Started(r, i) == \E k \in DOMAIN waves[r][i] : proc[waves[r][i][k]] # "none"
AllOk(r, i) == \A k \in DOMAIN waves[r][i] : result[waves[r][i][k]] = "ok"

WaveBarrier ==
  \A r \in Run : \A i \in DOMAIN waves[r] : \A j \in 1 .. i - 1 :
    Started(r, i) => AllOk(r, j)

(***************************************************************************)
(* No two tasks of a run that clash over a group, a lock or high risk are  *)
(* ever at work at once, even when the gate gave no report.                *)
(***************************************************************************)
NoClashAtWork ==
  \A r \in Run : \A s, t \in Tasks(r) :
    s # t /\ AtWork(s) /\ AtWork(t) => ~Clash(s, t)

\* A run never has more workers at work than the parallelism it settled on.
CapRespected ==
  \A r \in Run : Cardinality({t \in Tasks(r) : AtWork(t)}) <= cap[r]

(***************************************************************************)
(* While a parallel run is under way every worker it has at work is on     *)
(* file as running or stale, but for the one it is just adding: what the   *)
(* gate of the next run, the monitors and control-workers rely on.         *)
(***************************************************************************)
AtWorkIsOnFile ==
  \A r \in Run : mode[r] = "parallel" /\ Active(r) =>
    \A t \in Tasks(r) :
      AtWork(t) =>
        \/ file[t] \in {"running", "stale"}
        \/ pc[r] \in {"record", "record.fill"} /\ t = Current(r)

(***************************************************************************)
(* A parallel run that ends well ended with every task of its batch done.  *)
(***************************************************************************)
SuccessIsComplete ==
  \A r \in Run : pc[r] = "done" /\ mode[r] = "parallel" =>
    \A t \in Tasks(r) : result[t] = "ok"

\* The file moves along the transition table of validate-worker-transition.js.
Lifecycle == INSTANCE WorkerLifecycle WITH Worker <- Task, status <- file
LifecycleRefined == Lifecycle!Spec

(***************************************************************************)
(* A parallel run always comes to an end, whatever its workers and other   *)
(* runs do: hung workers turn stale.                                       *)
(***************************************************************************)
ParallelRunEnds ==
  \A r \in Run : (mode[r] = "parallel" /\ Active(r)) ~> ~Active(r)
=============================================================================
