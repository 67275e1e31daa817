------------------------------ MODULE Planning ------------------------------
(***************************************************************************)
(* The self-cycle's planning loop.  project-task-board.js takes a picture  *)
(* of the issues and open pull requests; top-up-self-cycle-queue.js and    *)
(* plan-concurrency-backfill.js plan from that picture and from the state  *)
(* files as they are by then; a top-up plan is launched as a batch; and    *)
(* meanwhile workers end, pull requests come and go and labels change.     *)
(* Each script runs when somebody starts it, so the picture may be old.    *)
(***************************************************************************)
EXTENDS Planners

CONSTANTS
  Labels,     \* the sets of labels an issue may be given on the way
  PR,         \* pull request numbers, each opened once
  World,      \* the situations to start in
  NoPlan

IssueRow == [labels : SUBSET STRING, group : Group, talk : BOOLEAN, risk : STRING]

ASSUME WorldAssumption ==
  /\ Labels \subseteq SUBSET STRING /\ NoPR \notin PR
  /\ \A world \in World :
       /\ world.issues \in Seq(IssueRow)
       /\ world.facts.target \in Nat /\ world.facts.slots \in Nat
       /\ IsList(world.facts.pool)

VARIABLES
  issues,     \* the issues on GitHub
  prs,        \* open pull requests, with the issues they mention
  manifest,   \* active-workers.json
  alive,      \* the issues a worker really works on
  board,      \* task-board.json
  plan,       \* the plan written last: whoever launches acts on that one
  facts       \* the other state files, and the scripts' arguments

vars == <<issues, prs, manifest, alive, board, plan, facts>>

-----------------------------------------------------------------------------
ProjectBoard ==
  /\ board' = buildProjection(issues, prs)
  /\ UNCHANGED <<issues, prs, manifest, alive, plan, facts>>

\* self-cycle-topup-plan.json names the selected tasks.
TopUp ==
  /\ LET result == computeTopUpPlan(board, manifest, facts.locks, facts.pool,
                                    facts.signals, facts.main, facts.target)
     IN plan' = [tool |-> "top-up",
                 selected |-> {[issue |-> board[i].issue, conflictGroup |-> GroupOf(board[i])] :
                                i \in result.selected}]
  /\ UNCHANGED <<issues, prs, manifest, alive, board, facts>>

\* concurrency-backfill-plan.json holds the cap and the waves.
Backfill ==
  /\ LET cap == effectiveParallelism(board, manifest, facts.pool, facts.slots,
                                     facts.signals, facts.target)
     IN plan' = [tool |-> "backfill", cap |-> cap,
                 waves |-> planWaves(board, filterExecutableTasks(board), cap)]
  /\ UNCHANGED <<issues, prs, manifest, alive, board, facts>>

\* The selected tasks are launched.  The new batch's manifest replaces the old.
Launch ==
  /\ plan # NoPlan /\ plan.tool = "top-up" /\ plan.selected # {}
  /\ manifest' = {[issue |-> r.issue, status |-> "running",
                   conflictGroup |-> r.conflictGroup] : r \in plan.selected}
  /\ alive' = alive \cup {r.issue : r \in plan.selected}
  /\ plan' = NoPlan
  /\ UNCHANGED <<issues, prs, board, facts>>

\* A worker ends, with a pull request or without.
Finish(n) ==
  /\ n \in alive
  /\ alive' = alive \ {n}
  /\ manifest' = {IF w.issue = n THEN [w EXCEPT !.status = "completed"] ELSE w : w \in manifest}
  /\ \/ prs' = prs
     \/ \E pr \in PR \ DOMAIN prs : prs' = [p \in DOMAIN prs \cup {pr} |-> IF p = pr THEN {n} ELSE prs[p]]
  /\ UNCHANGED <<issues, board, plan, facts>>

ClosePR(pr) ==
  /\ pr \in DOMAIN prs
  /\ prs' = [other \in DOMAIN prs \ {pr} |-> prs[other]]
  /\ UNCHANGED <<issues, manifest, alive, board, plan, facts>>

Relabel(n, labels) ==
  /\ issues' = [issues EXCEPT ![n].labels = labels]
  /\ UNCHANGED <<prs, manifest, alive, board, plan, facts>>

Init ==
  \E world \in World :
    /\ issues = world.issues /\ facts = world.facts
    /\ prs = << >> /\ manifest = {} /\ alive = {}
    /\ board = << >> /\ plan = NoPlan

Next ==
  \/ ProjectBoard \/ TopUp \/ Backfill \/ Launch
  \/ \E n \in Issue : Finish(n) \/ \E labels \in Labels : Relabel(n, labels)
  \/ \E pr \in PR : ClosePR(pr)

Spec == Init /\ [][Next]_vars
-----------------------------------------------------------------------------
\* A top-up plan has just been written.
Wrote(tool) == plan' # plan /\ plan' # NoPlan /\ plan'.tool = tool
ToppedUp == Wrote("top-up") /\ plan'.selected # {}

\* The picture shows the issues as they are.
Current == board = buildProjection(issues, prs)

(***************************************************************************)
(* However old the picture is, a top-up selects tasks of groups of their   *)
(* own that no worker and no lock on file has.                             *)
(***************************************************************************)
TopUpApart ==
  [][ToppedUp =>
       /\ \A s \in plan'.selected : s.conflictGroup \notin
            extractActiveConflictGroups(manifest) \cup extractLockedGroups(facts.locks)
       /\ \A s, t \in plan'.selected : s # t => s.conflictGroup # t.conflictGroup]_vars

(***************************************************************************)
(* A top-up never raises the workers on file above the target, and one     *)
(* that fills neither the batch nor the deficit leaves a task out only     *)
(* because its group is running, locked or selected: the cut to size comes *)
(* last.                                                                   *)
(***************************************************************************)
TopUpFills ==
  [][ToppedUp =>
       LET taken == {s.conflictGroup : s \in plan'.selected} \cup extractLockedGroups(facts.locks)
                      \cup extractActiveConflictGroups(manifest)
           size == Cardinality(plan'.selected)
           deficit == facts.target - countActiveWorkers(manifest)
       IN /\ size <= deficit
          /\ size < AtMost(TopUpBatch(facts.signals, facts.pool, facts.locks), deficit) =>
               \A i \in DOMAIN board :
                 board[i].state \in {"ready", "todo"} /\ board[i].linkedPR = NoPR
                 => GroupOf(board[i]) \in taken]_vars

Unwanted == {"wontfix", "duplicate", "invalid"}

(***************************************************************************)
(* From a picture that is not old and a manifest that lists every worker,  *)
(* a top-up takes only issues that, but for the labels of what nobody      *)
(* wants done, the launch candidates list has as well, and none that is    *)
(* being worked on: two scripts read the labels, titles and pull requests  *)
(* by rules of their own, and the board knows nothing of those labels.     *)
(***************************************************************************)
TopUpTakesCandidates ==
  [][ToppedUp /\ Current /\ alive \subseteq {w.issue : w \in Active(manifest)} =>
       \A s \in plan'.selected :
         /\ isCandidate([issues[s.issue] EXCEPT !.labels = @ \ Unwanted], s.issue, prs)
         /\ s.issue \notin alive]_vars

(***************************************************************************)
(* The backfill previews what the launcher would do: each executable task  *)
(* is in one wave, no wave is over the cap or holds two tasks of a group,  *)
(* and each task is in the first wave Build-Waves of batch-launch.ps1      *)
(* would find room for it in.                                              *)
(***************************************************************************)
Launcher(b) ==
  INSTANCE Waves WITH Task <- DOMAIN b, highRisk <- {},
                      conflictGroup <- [i \in DOMAIN b |-> GroupOf(b[i])],
                      sharedLocks <- [i \in DOMAIN b |-> {}]

BackfillIsFirstFit ==
  [][Wrote("backfill") =>
       LET waves == plan'.waves
           places == UNION {{i} \X DOMAIN waves[i] : i \in DOMAIN waves}
       IN /\ {waves[at[1]][at[2]] : at \in places} = filterExecutableTasks(board)
          /\ Cardinality(places) = Cardinality(filterExecutableTasks(board))
          /\ Launcher(board)!ClashFree(waves)
          /\ Launcher(board)!Capped(waves, plan'.cap)
          /\ Launcher(board)!Settled(waves, plan'.cap)]_vars
=============================================================================
