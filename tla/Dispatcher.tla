----------------------------- MODULE Dispatcher -----------------------------
(* agent-command-dispatcher.js: an agent appends commands to a file, and each  *)
(* run of the dispatcher carries out every command the file holds, one child   *)
(* process at a time, each with a time limit, and then appends one line of     *)
(* answers to another file. Commands are never removed, and two runs may       *)
(* overlap. compile-and-launch resets the manifest, removes the worktrees of   *)
(* earlier workers, compiles issues to tasks and calls batch-launch.ps1, whose *)
(* workers outlive it. The compiler, the launcher, the workers and git are     *)
(* external: they succeed, fail or hang. Branches go with their worktrees.     *)
EXTENDS Naturals, Sequences, FiniteSets

CONSTANTS Issue, Dispatcher,
          MaxLines, MaxRuns      \* bounds of the command file and of the runs begun

ASSUME BoundsAssumption == MaxLines \in Nat /\ MaxRuns \in Nat

VARIABLES
  commands,    \* agent-commands.ndjson
  results,     \* agent-command-results.ndjson
  pc, n, i, dry, answers,    \* a run: where it is, lines read, next line, mode, results so far
  doomed,      \* what is left of the worktree list a run works through
  compiled,    \* compiled-tasks.json
  todo, mine,  \* of a run's launcher: tasks not started, workers at work
  stray,       \* tasks that launchers cut loose may still start
  orphan,      \* workers at work that no launcher waits for
  listed,      \* workers active-workers.json shows as running
  worktree,    \* issues with a worktree
  begun, carried,  \* ghosts: runs that read a line (0: all), starts of its command
  calm         \* ghost: runs never overlapped, and none was cut off from a worker

run      == <<pc, n, i, dry, answers, doomed>>
launcher == <<todo, mine, stray, orphan>>
world    == <<compiled, launcher, listed, worktree>>
ghosts   == <<begun, carried, calm>>
vars     == <<commands, results, run, world, ghosts>>

HANDLERS == {"compile-and-launch", "evaluate-workers", "script"}
LineKind == HANDLERS \union {"unknown", "malformed", "null"}

Init ==
  /\ commands = <<>> /\ results = <<>>
  /\ pc = [d \in Dispatcher |-> "idle"]
  /\ n = [d \in Dispatcher |-> 0] /\ i = [d \in Dispatcher |-> 1]
  /\ dry = [d \in Dispatcher |-> FALSE] /\ answers = [d \in Dispatcher |-> <<>>]
  /\ doomed = [d \in Dispatcher |-> {}]
  /\ compiled = {} /\ stray = {} /\ orphan = {} /\ listed = {}
  /\ todo = [d \in Dispatcher |-> {}] /\ mine = [d \in Dispatcher |-> {}]
  /\ worktree = {}
  /\ begun = [l \in 0..MaxLines |-> 0] /\ carried = [l \in 1..MaxLines |-> 0]
  /\ calm = TRUE

(* The agent writes one more line, which need not be a command. *)
AppendLine(line) ==
  /\ Len(commands) < MaxLines
  /\ commands' = Append(commands, line)
  /\ UNCHANGED <<results, run, world, ghosts>>

(* The file may be there and empty; without a file a run ends at once.         *)
Begin(d, isDry) ==
  /\ pc[d] = "idle" /\ begun[0] < MaxRuns
  /\ pc' = [pc EXCEPT ![d] = "next"]
  /\ n' = [n EXCEPT ![d] = Len(commands)]
  /\ i' = [i EXCEPT ![d] = 1]
  /\ dry' = [dry EXCEPT ![d] = isDry]
  /\ begun' = [l \in 0..MaxLines |-> IF l <= Len(commands) THEN begun[l] + 1 ELSE begun[l]]
  /\ calm' = (calm /\ \A e \in Dispatcher : pc[e] = "idle")
  /\ UNCHANGED <<commands, results, answers, doomed, world, carried>>

At(d, kinds) == pc[d] = "next" /\ i[d] <= n[d] /\ commands[i[d]] \in kinds

Advance(d) ==
  /\ pc' = [pc EXCEPT ![d] = "next"]
  /\ i' = [i EXCEPT ![d] = @ + 1]

Retry(d, status) ==
  /\ answers' = [answers EXCEPT ![d] = Append(@, [line |-> i[d], status |-> status])]
  /\ IF status = "error" THEN pc' = [pc EXCEPT ![d] = "next"] /\ UNCHANGED i ELSE Advance(d)
  /\ UNCHANGED <<commands, results, n, dry, doomed>>

AnswerAndSkip(d, status) ==
  /\ answers' = [answers EXCEPT ![d] = Append(@, [line |-> i[d], status |-> status])]
  /\ pc' = [pc EXCEPT ![d] = "next"]
  /\ i' = [i EXCEPT ![d] = @ + 2]
  /\ UNCHANGED <<commands, results, n, dry, doomed>>

(* One entry is pushed for the command of the current line, which is called by *)
(* its line here, and the loop goes on, after an error too.                    *)
Answer(d, status) ==
  /\ answers' = [answers EXCEPT ![d] = Append(@, [line |-> i[d], status |-> status])]
  /\ Advance(d)
  /\ UNCHANGED <<commands, results, n, dry, doomed>>

Skip(d) ==
  /\ At(d, {"malformed"})
  /\ Advance(d)
  /\ UNCHANGED <<commands, results, n, dry, answers, doomed, world, ghosts>>

UnknownSilently(d) ==
  /\ At(d, {"unknown"})
  /\ Advance(d)
  /\ UNCHANGED <<commands, results, n, dry, answers, doomed, world, ghosts>>

Unknown(d) ==
  /\ At(d, {"unknown"})
  /\ Answer(d, "unknown-command")
  /\ UNCHANGED <<world, ghosts>>

(* What is left when a run's process ends: its answers go, its launcher is     *)
(* killed with it or lives on, and the workers live on in both cases.          *)
CutLoose(d) ==
  /\ \E rest \in {{}, todo[d]} : stray' = stray \union rest
  /\ orphan' = orphan \union mine[d]
  /\ todo' = [todo EXCEPT ![d] = {}]
  /\ mine' = [mine EXCEPT ![d] = {}]
  /\ calm' = (calm /\ mine[d] = {} /\ stray' = {})
  /\ UNCHANGED <<compiled, listed, worktree, begun, carried>>

Stop(d) ==
  /\ pc' = [pc EXCEPT ![d] = "idle"]
  /\ n' = [n EXCEPT ![d] = 0] /\ i' = [i EXCEPT ![d] = 1]
  /\ answers' = [answers EXCEPT ![d] = <<>>]
  /\ dry' = [dry EXCEPT ![d] = FALSE] /\ doomed' = [doomed EXCEPT ![d] = {}]
  /\ UNCHANGED commands

(* The line null parses, and reading its command throws outside of any try. *)
Die(d) ==
  /\ At(d, {"null"})
  /\ Stop(d)
  /\ UNCHANGED <<results, world, ghosts>>

DryRun(d) ==
  /\ At(d, HANDLERS) /\ dry[d]
  /\ Answer(d, "dry-run")
  /\ UNCHANGED <<world, ghosts>>

Start(d, command) ==
  /\ At(d, {command}) /\ ~dry[d]
  /\ carried' = [carried EXCEPT ![i[d]] = @ + 1]
  /\ UNCHANGED <<begun, calm>>

(* Counts the manifest's statuses and changes nothing; a torn file throws. *)
EvaluateWorkers(d) ==
  /\ Start(d, "evaluate-workers")
  /\ \E status \in {"success", "error"} : Answer(d, status)
  /\ UNCHANGED world

(* search-and-ingest, top-up-queue and web-search: one child each. *)
RunScript(d) ==
  /\ Start(d, "script")
  /\ pc' = [pc EXCEPT ![d] = "script"]
  /\ UNCHANGED <<commands, results, n, i, dry, answers, doomed, world>>

ScriptEnds(d) ==
  /\ pc[d] = "script"
  /\ \E status \in {"success", "error"} : Answer(d, status)
  /\ UNCHANGED <<world, ghosts>>

(* The manifest is overwritten with an empty one, then git lists the worktrees *)
(* or fails to.                                                                *)
Reset(d) ==
  /\ Start(d, "compile-and-launch")
  /\ pc' = [pc EXCEPT ![d] = "compiling"]
  /\ listed' = {}
  /\ \E list \in {{}, worktree} : doomed' = [doomed EXCEPT ![d] = list]
  /\ UNCHANGED <<commands, results, n, i, dry, answers, compiled, launcher, worktree>>

(* git removes a listed worktree by force, whoever works in it, or fails. *)
Remove(d) ==
  /\ pc[d] = "compiling"
  /\ \E x \in doomed[d] :
       /\ doomed' = [doomed EXCEPT ![d] = @ \ {x}]
       /\ worktree' \in {worktree, worktree \ {x}}
  /\ UNCHANGED <<commands, results, pc, n, i, dry, answers, compiled, launcher, listed, ghosts>>

Compile(d) ==
  /\ pc[d] = "compiling" /\ doomed[d] = {}
  /\ \E tasks \in SUBSET Issue :
       /\ compiled' = tasks
       /\ IF tasks = {} THEN Answer(d, "success")
          ELSE /\ pc' = [pc EXCEPT ![d] = "launching"]
               /\ UNCHANGED <<commands, results, n, i, dry, answers, doomed>>
  /\ UNCHANGED <<launcher, listed, worktree, ghosts>>

CompileFails(d) ==
  /\ pc[d] = "compiling" /\ doomed[d] = {}
  /\ Answer(d, "error")
  /\ UNCHANGED <<world, ghosts>>

(* The launcher reads the task file, which another run may have rewritten. *)
Launch(d) ==
  /\ pc[d] = "launching"
  /\ pc' = [pc EXCEPT ![d] = "waiting"]
  /\ todo' = [todo EXCEPT ![d] = compiled]
  /\ UNCHANGED <<commands, results, n, i, dry, answers, doomed, compiled, mine, stray, orphan,
                 listed, worktree, ghosts>>

(* A launcher writes the rows it knows: those of others may go or come back.   *)
LaunchWorker(d, x) ==
  /\ x \in todo[d]
  /\ todo' = [todo EXCEPT ![d] = @ \ {x}]
  /\ mine' = [mine EXCEPT ![d] = @ \union {x}]
  /\ worktree' = worktree \union {x}
  /\ listed' \in {listed \union {x}, mine[d] \union {x}}
  /\ UNCHANGED <<commands, results, run, compiled, stray, orphan, ghosts>>

WorkerEnds(d, x) ==
  /\ x \in mine[d]
  /\ mine' = [mine EXCEPT ![d] = @ \ {x}]
  /\ listed' \in {listed \ {x}, mine[d] \ {x}}
  /\ UNCHANGED <<commands, results, run, compiled, todo, stray, orphan, worktree, ghosts>>

LaunchEndsAtOnce(d) ==
  /\ pc[d] = "waiting" /\ todo[d] = {}
  /\ \E status \in {"success", "error"} : Answer(d, status)
  /\ orphan' = orphan \union mine[d]
  /\ mine' = [mine EXCEPT ![d] = {}]
  /\ UNCHANGED <<compiled, todo, stray, listed, worktree, ghosts>>

(* The launcher ends by itself once no worker the manifest shows is at work:   *)
(* where another run has wiped it, workers of its own may be.                  *)
LaunchEnds(d) ==
  /\ pc[d] = "waiting" /\ todo[d] = {}
  /\ listed \intersect (orphan \union UNION {mine[e] : e \in Dispatcher}) = {}
  /\ \E status \in {"success", "error"} : Answer(d, status)
  /\ orphan' = orphan \union mine[d]
  /\ mine' = [mine EXCEPT ![d] = {}]
  /\ UNCHANGED <<compiled, todo, stray, listed, worktree, ghosts>>

(* Its gate blocks, or it throws between two workers. *)
LaunchFails(d) ==
  /\ pc[d] = "waiting"
  /\ Answer(d, "error")
  /\ CutLoose(d)

TimeoutOfScripts(d) ==
  /\ pc[d] \in {"script", "compiling"} /\ doomed[d] = {}
  /\ Answer(d, "error")
  /\ CutLoose(d)

(* A child that runs past its limit is killed, and the command is an error. *)
Timeout(d) ==
  /\ pc[d] \in {"script", "compiling", "waiting"} /\ doomed[d] = {}
  /\ Answer(d, "error")
  /\ CutLoose(d)

(* All lines done: one line of answers. *)
Report(d) ==
  /\ pc[d] = "next" /\ i[d] > n[d]
  /\ results' = Append(results, [lines |-> n[d], answers |-> answers[d]])
  /\ Stop(d)
  /\ UNCHANGED <<world, ghosts>>

Crash(d) ==
  /\ pc[d] # "idle"
  /\ Stop(d)
  /\ CutLoose(d)
  /\ UNCHANGED results

StrayLaunches(x) ==
  /\ x \in stray
  /\ stray' = stray \ {x}
  /\ orphan' = orphan \union {x}
  /\ worktree' = worktree \union {x}
  /\ listed' = listed \union {x}
  /\ UNCHANGED <<commands, results, run, compiled, todo, mine, ghosts>>

OrphanEnds(x) ==
  /\ x \in orphan
  /\ orphan' = orphan \ {x}
  /\ UNCHANGED <<commands, results, run, compiled, todo, mine, stray, listed, worktree, ghosts>>

Step(d) ==
  \/ Skip(d) \/ Unknown(d) \/ Die(d) \/ DryRun(d)
  \/ EvaluateWorkers(d) \/ RunScript(d) \/ Reset(d) \/ Remove(d) \/ Launch(d)
  \/ Timeout(d) \/ Report(d)

Next ==
  \/ \E line \in LineKind : AppendLine(line)
  \/ \E d \in Dispatcher :
       \/ \E isDry \in BOOLEAN : Begin(d, isDry)
       \/ Step(d) \/ ScriptEnds(d) \/ Compile(d) \/ CompileFails(d)
       \/ LaunchEnds(d) \/ LaunchFails(d) \/ Crash(d)
       \/ \E x \in Issue : LaunchWorker(d, x) \/ WorkerEnds(d, x)
  \/ \E x \in Issue : StrayLaunches(x) \/ OrphanEnds(x)

Spec == Init /\ [][Next]_vars

(* A run goes on and its timers fire. Nothing is assumed of the children, who  *)
(* may hang, nor of the agent or whoever starts runs.                          *)
FairSpec == Spec /\ \A d \in Dispatcher : WF_vars(Step(d))
-----------------------------------------------------------------------------
Statuses == {"success", "error", "unknown-command", "dry-run"}

RunTypeOK(d) ==
  /\ pc[d] \in {"idle", "next", "script", "compiling", "launching", "waiting"}
  /\ n[d] \in 0..Len(commands)
  /\ i[d] \in 1..(n[d] + (IF pc[d] \in {"idle", "next"} THEN 1 ELSE 0))
  /\ todo[d] \union mine[d] \subseteq Issue /\ doomed[d] \subseteq Issue
  /\ todo[d] \union mine[d] # {} => pc[d] = "waiting"
  /\ doomed[d] # {} => pc[d] = "compiling"
  /\ \A k \in DOMAIN answers[d] : answers[d][k].status \in Statuses

(* Types, with what ties a run to the lines it read and a launcher to its run. *)
TypeOK ==
  /\ commands \in Seq(LineKind) /\ Len(commands) <= MaxLines
  /\ \A k \in DOMAIN results : results[k].lines \in 0..Len(commands)
  /\ dry \in [Dispatcher -> BOOLEAN] /\ calm \in BOOLEAN
  /\ begun \in [0..MaxLines -> Nat] /\ carried \in [1..MaxLines -> Nat]
  /\ compiled \union stray \union orphan \union listed \union worktree \subseteq Issue
  /\ \A d \in Dispatcher : RunTypeOK(d)

(* A line of the results answers every line of the file that the run read and   *)
(* that parses, in the file's order and once, whatever failed in between, hung  *)
(* or ran next to it; and says of a command that it is unknown only when no     *)
(* handler has its name.                                                        *)
AnsweredInFull ==
  \A k \in DOMAIN results :
    LET told == results[k].answers
        due  == {l \in 1..results[k].lines : commands[l] # "malformed"}
    IN  /\ {told[j].line : j \in DOMAIN told} = due
        /\ \A j, m \in DOMAIN told : j < m => told[j].line < told[m].line
        /\ \A j \in DOMAIN told :
             (told[j].status = "unknown-command") <=> (commands[told[j].line] = "unknown")

AnsweredCarried(l) ==
  Cardinality({k \in DOMAIN results :
    \E j \in DOMAIN results[k].answers :
      /\ results[k].answers[j].line = l
      /\ results[k].answers[j].status \in {"success", "error"}})

(* A command is started at most once by every run that read it, and no answer   *)
(* tells of a command that was not started: the file is replayed by every run,  *)
(* but within a run nothing is, through errors, timeouts and other runs.        *)
OncePerRun ==
  \A l \in 1..MaxLines : AnsweredCarried(l) <= carried[l] /\ carried[l] <= begun[l]

(* compile-and-launch wipes the manifest and the worktrees of whoever is at      *)
(* work. This does no harm to runs that follow each other, as long as every      *)
(* launch outlasted its workers: whoever is at work has a worktree, is on file,  *)
(* and a launch waits for it.                                                    *)
HarmlessInTurn ==
  calm => /\ orphan = {}
          /\ \A d \in Dispatcher : mine[d] \subseteq (worktree \intersect listed)

(* Every run comes to its end, whatever its children do: each of them has a      *)
(* time limit.                                                                   *)
RunsEnd == \A d \in Dispatcher : []<>(pc[d] = "idle")
=============================================================================
