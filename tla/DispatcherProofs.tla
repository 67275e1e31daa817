-------------------------- MODULE DispatcherProofs --------------------------
(***************************************************************************)
(* The command dispatcher for any number of runs, issues and command       *)
(* lines, however the runs overlap, crash and time out.                    *)
(*                                                                         *)
(* Typing is the type invariant with the types of the functions it reads,  *)
(* and with what a run read: a handler's command where it is busy.         *)
(***************************************************************************)
EXTENDS Dispatcher, FiniteSetTheorems, TLAPS

Busy  == {"script", "compiling", "launching", "waiting"}
Entry == [line : Nat, status : Statuses]

Shape ==
  /\ results \in Seq([lines : Nat, answers : Seq(Entry)])
  /\ pc \in [Dispatcher -> {"idle", "next"} \union Busy]
  /\ n \in [Dispatcher -> Nat] /\ i \in [Dispatcher -> Nat]
  /\ answers \in [Dispatcher -> Seq(Entry)]
  /\ doomed \in [Dispatcher -> SUBSET Issue]
  /\ todo \in [Dispatcher -> SUBSET Issue] /\ mine \in [Dispatcher -> SUBSET Issue]

Reading(d) == pc[d] \in Busy => commands[i[d]] \in HANDLERS

Typing == TypeOK /\ Shape /\ \A d \in Dispatcher : Reading(d)

LEMMA InitTyping == Init => Typing
BY BoundsAssumption
   DEF Init, Typing, TypeOK, RunTypeOK, Shape, Reading, Busy, Entry, LineKind, HANDLERS, Statuses

(* A step of one run, of a worker or of the agent leaves the others as they *)
(* were, and a longer file still holds the lines they read.                 *)
LEMMA OthersTyping ==
  ASSUME Typing, NEW e \in Dispatcher,
         pc'[e] = pc[e], n'[e] = n[e], i'[e] = i[e], answers'[e] = answers[e],
         doomed'[e] = doomed[e], todo'[e] = todo[e], mine'[e] = mine[e],
         Len(commands') \in Nat, Len(commands) <= Len(commands'),
         \A l \in 1..Len(commands) : commands'[l] = commands[l]
  PROVE  RunTypeOK(e)' /\ Reading(e)'
<1>1. Len(commands) \in Nat /\ RunTypeOK(e) /\ Reading(e) /\ n[e] \in Nat /\ i[e] \in Nat
  BY DEF Typing, TypeOK, Shape
<1>2. RunTypeOK(e)'
  BY <1>1 DEF RunTypeOK
<1>3. Reading(e)'
  BY <1>1 DEF RunTypeOK, Reading, Busy
<1> QED BY <1>2, <1>3

LEMMA AppendTyping ==
  ASSUME Typing, NEW line \in LineKind, AppendLine(line)
  PROVE  Typing'
<1> USE DEF AppendLine, run, world, launcher, ghosts
<1>1. /\ commands' \in Seq(LineKind) /\ Len(commands') = Len(commands) + 1
      /\ Len(commands) \in Nat /\ Len(commands') <= MaxLines
      /\ \A l \in 1..Len(commands) : commands'[l] = commands[l]
  BY BoundsAssumption DEF Typing, TypeOK
<1>2. \A e \in Dispatcher : RunTypeOK(e)' /\ Reading(e)'
  BY <1>1, OthersTyping
<1>3. TypeOK'
  BY <1>1, <1>2 DEF Typing, TypeOK, Shape
<1>4. Shape'
  BY DEF Typing, Shape
<1> QED BY <1>2, <1>3, <1>4 DEF Typing

LEMMA BeginTyping ==
  ASSUME Typing, NEW d \in Dispatcher, NEW isDry \in BOOLEAN, Begin(d, isDry)
  PROVE  Typing'
<1> USE DEF Begin, world, launcher
<1>1. Len(commands) \in Nat
  BY DEF Typing, TypeOK
<1>2. Shape'
  BY <1>1 DEF Typing, Shape
<1>3. RunTypeOK(d)' /\ Reading(d)'
  <2>1. /\ pc'[d] = "next" /\ n'[d] = Len(commands) /\ i'[d] = 1
        /\ todo'[d] = todo[d] /\ mine'[d] = mine[d] /\ doomed'[d] = doomed[d]
        /\ answers'[d] = answers[d] /\ pc[d] = "idle"
    BY DEF Typing, Shape
  <2>2. RunTypeOK(d)
    BY DEF Typing, TypeOK
  <2> QED BY <1>1, <2>1, <2>2 DEF RunTypeOK, Reading, Busy
<1>4. \A e \in Dispatcher : e # d => RunTypeOK(e)' /\ Reading(e)'
  BY <1>1, OthersTyping DEF Typing, Shape
<1>5. begun' \in [0..MaxLines -> Nat]
  BY DEF Typing, TypeOK
<1>6. TypeOK'
  BY <1>3, <1>4, <1>5 DEF Typing, TypeOK
<1> QED BY <1>2, <1>3, <1>4, <1>6 DEF Typing

(* What every answer keeps: it is about the current line, the run moves on  *)
(* to the next one, and no launcher waits on its behalf.                    *)
LEMMA AnswerTyping ==
  ASSUME Typing, NEW d \in Dispatcher, NEW status \in Statuses, Answer(d, status),
         i[d] <= n[d], doomed[d] = {},
         mine' \in [Dispatcher -> SUBSET Issue], todo' \in [Dispatcher -> SUBSET Issue],
         todo'[d] = {}, mine'[d] = {},
         \A e \in Dispatcher \ {d} : todo'[e] = todo[e] /\ mine'[e] = mine[e],
         compiled' \in SUBSET Issue, stray' \in SUBSET Issue, orphan' \in SUBSET Issue,
         listed' \in SUBSET Issue, worktree' \in SUBSET Issue,
         calm' \in BOOLEAN, begun' = begun, carried' \in [1..MaxLines -> Nat]
  PROVE  Typing'
<1> USE DEF Answer, Advance
<1>1. i[d] \in Nat /\ n[d] \in Nat /\ RunTypeOK(d)
  BY DEF Typing, Shape, TypeOK
<1>2. answers' \in [Dispatcher -> Seq(Entry)]
  <2>1. [line |-> i[d], status |-> status] \in Entry
    BY <1>1 DEF Entry
  <2>2. Append(answers[d], [line |-> i[d], status |-> status]) \in Seq(Entry)
    BY <2>1 DEF Typing, Shape
  <2> QED BY <2>2 DEF Typing, Shape
<1>3. Shape'
  BY <1>1, <1>2 DEF Typing, Shape
<1>4. RunTypeOK(d)'
  <2>1. \A k \in DOMAIN answers'[d] : answers'[d][k].status \in Statuses
    <3>1. answers'[d] \in Seq(Entry)
      BY <1>2
    <3>2. \A k \in DOMAIN answers'[d] : answers'[d][k] \in Entry
      BY <3>1
    <3> QED BY <3>2 DEF Entry
  <2>2. pc'[d] = "next" /\ i'[d] = i[d] + 1 /\ n'[d] = n[d] /\ doomed'[d] = {}
    BY DEF Typing, Shape
  <2> QED BY <1>1, <2>1, <2>2 DEF RunTypeOK
<1>5. Reading(d)'
  BY <1>1 DEF Typing, Shape, RunTypeOK, Reading, Busy
<1>6. \A e \in Dispatcher : e # d => RunTypeOK(e)' /\ Reading(e)'
  <2>1. commands' = commands /\ Len(commands) \in Nat
    BY DEF Typing, TypeOK
  <2>2. SUFFICES ASSUME NEW e \in Dispatcher, e # d
                 PROVE  RunTypeOK(e)' /\ Reading(e)'
    OBVIOUS
  <2>3. /\ pc'[e] = pc[e] /\ n'[e] = n[e] /\ i'[e] = i[e] /\ answers'[e] = answers[e]
        /\ doomed'[e] = doomed[e] /\ todo'[e] = todo[e] /\ mine'[e] = mine[e]
    BY <2>2 DEF Typing, Shape
  <2> QED BY <2>1, <2>3, OthersTyping
<1>7. TypeOK'
  BY <1>4, <1>6 DEF Typing, TypeOK
<1> QED BY <1>3, <1>4, <1>5, <1>6, <1>7 DEF Typing

LEMMA OneRunTyping ==
  ASSUME Typing, NEW d \in Dispatcher, Shape', RunTypeOK(d)', Reading(d)',
         commands' = commands, begun' = begun,
         \A k \in DOMAIN results' : results'[k].lines \in 0..Len(commands),
         \A e \in Dispatcher \ {d} :
           /\ pc'[e] = pc[e] /\ n'[e] = n[e] /\ i'[e] = i[e] /\ answers'[e] = answers[e]
           /\ doomed'[e] = doomed[e] /\ todo'[e] = todo[e] /\ mine'[e] = mine[e],
         dry' \in [Dispatcher -> BOOLEAN], calm' \in BOOLEAN,
         carried' \in [1..MaxLines -> Nat],
         compiled' \union stray' \union orphan' \union listed' \union worktree' \subseteq Issue
  PROVE  Typing'
<1>1. \A e \in Dispatcher : e # d => RunTypeOK(e)' /\ Reading(e)'
  <2>1. Len(commands) \in Nat
    BY DEF Typing, TypeOK
  <2> QED BY <2>1, OthersTyping
<1>2. TypeOK'
  BY <1>1 DEF Typing, TypeOK
<1> QED BY <1>1, <1>2 DEF Typing

LEMMA AnswerOnlyTyping ==
  ASSUME Typing, NEW d \in Dispatcher, NEW status \in Statuses, Answer(d, status),
         i[d] <= n[d], doomed[d] = {}, todo[d] = {}, mine[d] = {},
         UNCHANGED <<stray, orphan, todo, mine, listed, worktree, begun, calm>>,
         compiled' \in SUBSET Issue, carried' \in [1..MaxLines -> Nat]
  PROVE  Typing'
<1>1. /\ mine' \in [Dispatcher -> SUBSET Issue] /\ todo' \in [Dispatcher -> SUBSET Issue]
      /\ stray' \in SUBSET Issue /\ orphan' \in SUBSET Issue
      /\ listed' \in SUBSET Issue /\ worktree' \in SUBSET Issue
      /\ calm' \in BOOLEAN
  BY DEF Typing, TypeOK, Shape
<1> QED BY <1>1, AnswerTyping

LEMMA RunFacts ==
  ASSUME Typing, NEW d \in Dispatcher
  PROVE  /\ i[d] \in Nat /\ n[d] \in Nat /\ i[d] >= 1 /\ n[d] <= Len(commands)
         /\ pc[d] \in Busy => i[d] <= n[d]
         /\ pc[d] \in {"idle", "next"} => i[d] <= n[d] + 1
         /\ pc[d] \in {"idle", "next"} \union Busy
         /\ pc[d] # "compiling" => doomed[d] = {}
         /\ pc[d] # "waiting" => todo[d] = {} /\ mine[d] = {}
         /\ todo[d] \subseteq Issue /\ mine[d] \subseteq Issue /\ doomed[d] \subseteq Issue
         /\ Len(commands) \in Nat /\ Len(commands) <= MaxLines
         /\ i[d] <= n[d] => i[d] \in 1..MaxLines
         /\ pc[d] \in Busy => commands[i[d]] \in HANDLERS
<1>1. /\ RunTypeOK(d) /\ Reading(d) /\ Len(commands) \in Nat /\ Len(commands) <= MaxLines
      /\ i[d] \in Nat /\ n[d] \in Nat
  BY DEF Typing, TypeOK, Shape
<1> QED BY <1>1, BoundsAssumption DEF RunTypeOK, Reading, Busy

LEMMA StartFacts ==
  ASSUME Typing, NEW d \in Dispatcher, NEW command \in HANDLERS, Start(d, command)
  PROVE  /\ i[d] \in 1..MaxLines /\ i[d] <= n[d] /\ pc[d] = "next"
         /\ carried' = [carried EXCEPT ![i[d]] = carried[i[d]] + 1]
         /\ carried' \in [1..MaxLines -> Nat]
         /\ begun' = begun /\ calm' = calm /\ commands[i[d]] = command
<1>1. i[d] \in 1..MaxLines /\ pc[d] = "next" /\ i[d] <= n[d]
  BY RunFacts DEF Start, At
<1> QED BY <1>1 DEF Start, At, Typing, TypeOK

(* The steps that answer the current line at once.                          *)
LEMMA AnsweringTyping ==
  ASSUME Typing, NEW d \in Dispatcher,
         Unknown(d) \/ DryRun(d) \/ EvaluateWorkers(d) \/ ScriptEnds(d) \/ CompileFails(d)
  PROVE  Typing'
<1> USE RunFacts, AnswerOnlyTyping DEF ghosts, world, launcher
<1>0. compiled \in SUBSET Issue /\ carried \in [1..MaxLines -> Nat]
  BY DEF Typing, TypeOK
<1>1. CASE Unknown(d)
  BY <1>0, <1>1 DEF Unknown, At, Statuses
<1>2. CASE DryRun(d)
  BY <1>0, <1>2 DEF DryRun, At, Statuses
<1>3. CASE EvaluateWorkers(d)
  <2>1. PICK status \in Statuses : Answer(d, status)
    BY <1>3 DEF EvaluateWorkers, Statuses
  <2>2. Start(d, "evaluate-workers") /\ UNCHANGED world
    BY <1>3 DEF EvaluateWorkers
  <2> QED BY <1>0, <2>1, <2>2, StartFacts DEF HANDLERS
<1>4. CASE ScriptEnds(d)
  BY <1>0, <1>4 DEF ScriptEnds, Statuses, Busy
<1>5. CASE CompileFails(d)
  BY <1>0, <1>5 DEF CompileFails, Statuses, Busy
<1> QED BY <1>1, <1>2, <1>3, <1>4, <1>5

LEMMA StopFacts ==
  ASSUME Typing, NEW d \in Dispatcher, Stop(d)
  PROVE  /\ pc' \in [Dispatcher -> {"idle", "next"} \union Busy] /\ pc'[d] = "idle"
         /\ n' \in [Dispatcher -> Nat] /\ n'[d] = 0
         /\ i' \in [Dispatcher -> Nat] /\ i'[d] = 1
         /\ answers' \in [Dispatcher -> Seq(Entry)] /\ answers'[d] = <<>>
         /\ dry' \in [Dispatcher -> BOOLEAN]
         /\ doomed' \in [Dispatcher -> SUBSET Issue] /\ doomed'[d] = {}
         /\ commands' = commands
         /\ \A e \in Dispatcher \ {d} :
              /\ pc'[e] = pc[e] /\ n'[e] = n[e] /\ i'[e] = i[e]
              /\ answers'[e] = answers[e] /\ doomed'[e] = doomed[e]
BY DEF Stop, Typing, TypeOK, Shape

LEMMA CutLooseFacts ==
  ASSUME Typing, NEW d \in Dispatcher, CutLoose(d)
  PROVE  /\ todo' \in [Dispatcher -> SUBSET Issue] /\ todo'[d] = {}
         /\ mine' \in [Dispatcher -> SUBSET Issue] /\ mine'[d] = {}
         /\ stray' \in SUBSET Issue /\ orphan' \in SUBSET Issue
         /\ listed' \in SUBSET Issue /\ worktree' \in SUBSET Issue
         /\ compiled' \in SUBSET Issue /\ calm' \in BOOLEAN
         /\ begun' = begun /\ carried' = carried /\ carried \in [1..MaxLines -> Nat]
         /\ \A e \in Dispatcher \ {d} : todo'[e] = todo[e] /\ mine'[e] = mine[e]
<1>1. todo[d] \subseteq Issue /\ mine[d] \subseteq Issue
  BY RunFacts
<1> QED BY <1>1 DEF CutLoose, Typing, TypeOK, Shape

LEMMA MovingTyping ==
  ASSUME Typing, NEW d \in Dispatcher, Skip(d) \/ RunScript(d) \/ Launch(d)
  PROVE  Typing'
<1> USE DEF ghosts, world, launcher
<1>0. RunTypeOK(d) /\ Reading(d) /\ i[d] \in Nat /\ n[d] \in Nat /\ compiled \in SUBSET Issue
  BY DEF Typing, TypeOK, Shape
<1>1. CASE Skip(d)
  <2>1. Shape'
    BY <1>1 DEF Skip, Advance, Typing, Shape
  <2>2. RunTypeOK(d)' /\ Reading(d)'
    <3>1. /\ pc'[d] = "next" /\ i'[d] = i[d] + 1 /\ i[d] <= n[d] /\ pc[d] = "next"
          /\ UNCHANGED <<commands, n, answers, doomed, todo, mine>>
      BY <1>1 DEF Skip, Advance, At, Typing, Shape
    <3> QED BY <1>0, <3>1 DEF RunTypeOK, Reading, Busy
  <2> QED BY <1>1, <2>1, <2>2, OneRunTyping DEF Skip, Advance, Typing, TypeOK, Shape
<1>2. CASE RunScript(d)
  <2>1. Start(d, "script")
    BY <1>2 DEF RunScript
  <2>2. /\ pc'[d] = "script" /\ i[d] <= n[d] /\ pc[d] = "next" /\ commands[i[d]] = "script"
        /\ UNCHANGED <<commands, results, n, i, dry, answers, doomed, todo, mine, calm, begun>>
        /\ carried' \in [1..MaxLines -> Nat]
    BY <1>2, <2>1, StartFacts DEF RunScript, Typing, Shape, HANDLERS
  <2>3. Shape'
    BY <1>2, <2>2 DEF RunScript, Typing, Shape, Busy
  <2>4. RunTypeOK(d)' /\ Reading(d)'
    BY <1>0, <2>2 DEF RunTypeOK, Reading, Busy, HANDLERS
  <2> QED BY <1>2, <2>2, <2>3, <2>4, OneRunTyping DEF RunScript, Typing, TypeOK, Shape
<1>3. CASE Launch(d)
  <2>1. /\ pc'[d] = "waiting" /\ pc[d] = "launching" /\ todo'[d] = compiled
        /\ UNCHANGED <<commands, results, n, i, dry, answers, doomed, mine, calm, begun, carried>>
    BY <1>3 DEF Launch, Typing, Shape
  <2>2. Shape'
    BY <1>0, <1>3 DEF Launch, Typing, Shape, Busy
  <2>3. RunTypeOK(d)' /\ Reading(d)'
    BY <1>0, <2>1 DEF RunTypeOK, Reading, Busy
  <2> QED BY <1>3, <2>1, <2>2, <2>3, OneRunTyping DEF Launch, Typing, TypeOK, Shape
<1> QED BY <1>1, <1>2, <1>3

LEMMA CompilingTyping ==
  ASSUME Typing, NEW d \in Dispatcher, Reset(d) \/ Remove(d) \/ Compile(d)
  PROVE  Typing'
<1> USE DEF ghosts, world, launcher
<1>0. /\ RunTypeOK(d) /\ Reading(d) /\ i[d] \in Nat /\ n[d] \in Nat
      /\ worktree \in SUBSET Issue /\ carried \in [1..MaxLines -> Nat]
  BY DEF Typing, TypeOK, Shape
<1>1. CASE Reset(d)
  <2>1. Start(d, "compile-and-launch")
    BY <1>1 DEF Reset
  <2>2. PICK list \in {{}, worktree} : doomed' = [doomed EXCEPT ![d] = list]
    BY <1>1 DEF Reset
  <2>3. /\ pc'[d] = "compiling" /\ i[d] <= n[d] /\ pc[d] = "next"
        /\ commands[i[d]] = "compile-and-launch" /\ doomed'[d] = list
        /\ UNCHANGED <<commands, results, n, i, dry, answers, todo, mine, calm, begun>>
        /\ carried' \in [1..MaxLines -> Nat]
    BY <1>1, <2>1, <2>2, StartFacts DEF Reset, Typing, Shape, HANDLERS
  <2>4. Shape'
    BY <1>0, <1>1, <2>2, <2>3 DEF Reset, Typing, Shape, Busy
  <2>5. RunTypeOK(d)' /\ Reading(d)'
    BY <1>0, <2>3 DEF RunTypeOK, Reading, Busy, HANDLERS
  <2> QED BY <1>1, <2>2, <2>3, <2>4, <2>5, OneRunTyping DEF Reset, Typing, TypeOK, Shape
<1>2. CASE Remove(d)
  <2>1. PICK x \in doomed[d] : /\ doomed' = [doomed EXCEPT ![d] = doomed[d] \ {x}]
                               /\ worktree' \in {worktree, worktree \ {x}}
    BY <1>2 DEF Remove
  <2>2. /\ pc[d] = "compiling" /\ doomed'[d] = doomed[d] \ {x} /\ doomed[d] \subseteq Issue
        /\ UNCHANGED <<commands, results, pc, n, i, dry, answers, todo, mine, calm, begun, carried>>
    BY <1>2, <2>1 DEF Remove, Typing, Shape
  <2>3. Shape'
    BY <2>1, <2>2 DEF Typing, Shape
  <2>4. RunTypeOK(d)' /\ Reading(d)'
    BY <1>0, <2>2 DEF RunTypeOK, Reading, Busy
  <2> QED BY <1>2, <2>1, <2>2, <2>3, <2>4, OneRunTyping DEF Remove, Typing, TypeOK, Shape
<1>3. CASE Compile(d)
  <2>1. PICK tasks \in SUBSET Issue :
          /\ compiled' = tasks
          /\ IF tasks = {} THEN Answer(d, "success")
             ELSE /\ pc' = [pc EXCEPT ![d] = "launching"]
                  /\ UNCHANGED <<commands, results, n, i, dry, answers, doomed>>
    BY <1>3 DEF Compile
  <2>2. CASE tasks = {}
    BY <1>0, <1>3, <2>1, <2>2, AnswerOnlyTyping, RunFacts DEF Compile, Statuses, Busy
  <2>3. CASE tasks # {}
    <3>1. /\ pc[d] = "compiling" /\ pc'[d] = "launching" /\ doomed[d] = {}
          /\ UNCHANGED <<commands, results, n, i, dry, answers, doomed, todo, mine, calm, begun, carried>>
      BY <1>3, <2>1, <2>3 DEF Compile, Typing, Shape
    <3>2. Shape'
      BY <2>1, <2>3, <3>1 DEF Typing, Shape, Busy
    <3>3. RunTypeOK(d)' /\ Reading(d)'
      BY <1>0, <3>1 DEF RunTypeOK, Reading, Busy
    <3> QED BY <1>3, <2>1, <2>3, <3>1, <3>2, <3>3, OneRunTyping DEF Compile, Typing, TypeOK, Shape
  <2> QED BY <2>2, <2>3
<1> QED BY <1>1, <1>2, <1>3

LEMMA LauncherTyping ==
  ASSUME Typing, NEW d \in Dispatcher, LaunchEnds(d) \/ LaunchFails(d) \/ Timeout(d)
  PROVE  Typing'
<1> USE DEF ghosts, world, launcher
<1>0. compiled \in SUBSET Issue /\ carried \in [1..MaxLines -> Nat]
  BY DEF Typing, TypeOK
<1>1. CASE LaunchEnds(d)
  <2>1. PICK status \in Statuses : Answer(d, status)
    BY <1>1 DEF LaunchEnds, Statuses
  <2>2. /\ i[d] <= n[d] /\ doomed[d] = {} /\ todo[d] = {} /\ mine[d] \subseteq Issue
        /\ orphan' = orphan \union mine[d] /\ mine' = [mine EXCEPT ![d] = {}]
        /\ UNCHANGED <<compiled, todo, stray, listed, worktree, begun, carried, calm>>
    BY <1>1, RunFacts DEF LaunchEnds, Busy
  <2>3. /\ mine' \in [Dispatcher -> SUBSET Issue] /\ mine'[d] = {}
        /\ \A e \in Dispatcher \ {d} : mine'[e] = mine[e]
        /\ todo' \in [Dispatcher -> SUBSET Issue]
        /\ stray' \in SUBSET Issue /\ orphan' \in SUBSET Issue
        /\ listed' \in SUBSET Issue /\ worktree' \in SUBSET Issue /\ calm' \in BOOLEAN
    BY <2>2 DEF Typing, TypeOK, Shape
  <2> QED BY <1>0, <2>1, <2>2, <2>3, AnswerTyping
<1>2. CASE LaunchFails(d)
  <2>1. Answer(d, "error") /\ CutLoose(d) /\ i[d] <= n[d] /\ doomed[d] = {}
    BY <1>2, RunFacts DEF LaunchFails, Busy
  <2> QED BY <2>1, AnswerTyping, CutLooseFacts DEF Statuses
<1>3. CASE Timeout(d)
  <2>1. Answer(d, "error") /\ CutLoose(d) /\ i[d] <= n[d] /\ doomed[d] = {}
    BY <1>3, RunFacts DEF Timeout, Busy
  <2> QED BY <2>1, AnswerTyping, CutLooseFacts DEF Statuses
<1> QED BY <1>1, <1>2, <1>3

LEMMA WorkerTyping ==
  ASSUME Typing, NEW d \in Dispatcher, NEW x \in Issue, LaunchWorker(d, x) \/ WorkerEnds(d, x)
  PROVE  Typing'
<1> USE DEF ghosts, run
<1>1. RunTypeOK(d) /\ Reading(d)
  BY DEF Typing, TypeOK
<1>2. /\ UNCHANGED <<commands, results, pc, n, i, dry, answers, doomed, calm, begun, carried>>
      /\ todo'[d] \union mine'[d] \subseteq Issue /\ pc[d] = "waiting"
  BY <1>1 DEF LaunchWorker, WorkerEnds, RunTypeOK, Typing, Shape
<1>3. Shape' /\ listed' \subseteq Issue
  BY <1>2 DEF LaunchWorker, WorkerEnds, Typing, TypeOK, Shape
<1>4. RunTypeOK(d)' /\ Reading(d)'
  BY <1>1, <1>2 DEF RunTypeOK, Reading
<1> QED BY <1>2, <1>3, <1>4, OneRunTyping DEF LaunchWorker, WorkerEnds, Typing, TypeOK, Shape

LEMMA StopTyping ==
  ASSUME Typing, NEW d \in Dispatcher, Die(d) \/ Report(d) \/ Crash(d)
  PROVE  Typing'
<1> USE DEF ghosts, world, launcher
<1>1. Stop(d)
  BY DEF Die, Report, Crash
<1>2. /\ todo' \in [Dispatcher -> SUBSET Issue] /\ mine' \in [Dispatcher -> SUBSET Issue]
      /\ todo'[d] = {} /\ mine'[d] = {}
      /\ \A e \in Dispatcher \ {d} : todo'[e] = todo[e] /\ mine'[e] = mine[e]
      /\ compiled' \union stray' \union orphan' \union listed' \union worktree' \subseteq Issue
      /\ calm' \in BOOLEAN /\ begun' = begun /\ carried' \in [1..MaxLines -> Nat]
  <2>1. CASE Die(d) \/ Report(d)
    BY <2>1, RunFacts DEF Die, Report, At, Typing, TypeOK, Shape
  <2>2. CASE Crash(d)
    BY <2>2, CutLooseFacts DEF Crash
  <2> QED BY <2>1, <2>2
<1>3. /\ results' \in Seq([lines : Nat, answers : Seq(Entry)])
      /\ \A k \in DOMAIN results' : results'[k].lines \in 0..Len(commands)
  <2>1. CASE Report(d)
    <3>1. /\ n[d] \in 0..Len(commands) /\ n[d] \in Nat /\ answers[d] \in Seq(Entry)
      <4>1. n[d] \in Nat /\ n[d] <= Len(commands) /\ Len(commands) \in Nat
        BY <2>1, RunFacts DEF Report
      <4>2. answers[d] \in Seq(Entry)
        BY DEF Typing, Shape
      <4> QED BY <4>1, <4>2
    <3>2. results \in Seq([lines : Nat, answers : Seq(Entry)])
      BY DEF Typing, Shape
    <3>3. [lines |-> n[d], answers |-> answers[d]] \in [lines : Nat, answers : Seq(Entry)]
      BY <3>1
    <3>4. results' = Append(results, [lines |-> n[d], answers |-> answers[d]])
      BY <2>1 DEF Report
    <3>5. \A k \in DOMAIN results : results[k].lines \in 0..Len(commands)
      BY DEF Typing, TypeOK
    <3>6. results' \in Seq([lines : Nat, answers : Seq(Entry)])
      BY <3>2, <3>3, <3>4
    <3>7. ASSUME NEW k \in DOMAIN results'
          PROVE  results'[k].lines \in 0..Len(commands)
      <4>1. CASE k = Len(results) + 1
        BY <3>1, <3>2, <3>4, <4>1
      <4>2. CASE k # Len(results) + 1
        <5>1. k \in DOMAIN results /\ results'[k] = results[k]
          BY <3>2, <3>4, <3>7, <4>2
        <5> QED BY <3>5, <5>1
      <4> QED BY <4>1, <4>2
    <3> QED BY <3>6, <3>7
  <2>2. CASE Die(d) \/ Crash(d)
    BY <2>2 DEF Die, Crash, Typing, TypeOK, Shape
  <2> QED BY <2>1, <2>2
<1>4. Shape'
  BY <1>1, <1>2, <1>3, StopFacts DEF Shape
<1>5. RunTypeOK(d)' /\ Reading(d)'
  <2>1. pc'[d] = "idle" /\ n'[d] = 0 /\ i'[d] = 1 /\ answers'[d] = <<>> /\ doomed'[d] = {}
        /\ commands' = commands /\ Len(commands) \in Nat
    BY <1>1, StopFacts, RunFacts
  <2> QED BY <1>2, <2>1 DEF RunTypeOK, Reading, Busy
<1> QED BY <1>1, <1>2, <1>3, <1>4, <1>5, StopFacts, OneRunTyping

LEMMA StrayTyping ==
  ASSUME Typing, NEW x \in Issue, StrayLaunches(x) \/ OrphanEnds(x)
  PROVE  Typing'
<1>1. /\ UNCHANGED <<commands, results, pc, n, i, dry, answers, doomed, todo, mine, calm, begun, carried>>
      /\ compiled' \union stray' \union orphan' \union listed' \union worktree' \subseteq Issue
  BY DEF StrayLaunches, OrphanEnds, ghosts, run, Typing, TypeOK
<1> QED BY <1>1 DEF Typing, TypeOK, RunTypeOK, Shape, Reading

LEMMA NextTyping == Typing /\ [Next]_vars => Typing'
<1> SUFFICES ASSUME Typing, [Next]_vars PROVE Typing'
  OBVIOUS
<1>1. ASSUME NEW d \in Dispatcher, Step(d)
      PROVE  Typing'
  BY <1>1, MovingTyping, AnsweringTyping, StopTyping, CompilingTyping, LauncherTyping DEF Step
<1>2. CASE UNCHANGED vars
  BY <1>2 DEF vars, run, world, launcher, ghosts, Typing, TypeOK, RunTypeOK, Shape, Reading
<1>3. CASE Next
  BY <1>1, <1>3, AppendTyping, BeginTyping, AnsweringTyping, CompilingTyping, LauncherTyping,
     StopTyping, WorkerTyping, StrayTyping DEF Next
<1> QED BY <1>2, <1>3

LEMMA Typed == Spec => []Typing
BY InitTyping, NextTyping, PTL DEF Spec

(* A run stays within the lines it read and its launcher and removals       *)
(* within its own command, for any number of runs, lines and issues.        *)
THEOREM TypeCorrect == Spec => []TypeOK
<1>1. Typing => TypeOK
  BY DEF Typing
<1> QED BY <1>1, Typed, PTL
-----------------------------------------------------------------------------
(***************************************************************************)
(* Runs that follow each other.  While no launcher was cut loose with work *)
(* left, one run at most is under way, so a run that wipes the manifest or *)
(* removes worktrees has no worker of its own yet, and nobody else has.    *)
(***************************************************************************)
Alone == \A d, e \in Dispatcher : pc[d] # "idle" /\ pc[e] # "idle" => d = e

OnFile == \A d \in Dispatcher : mine[d] \subseteq (worktree \intersect listed)

InTurn == calm => stray = {} /\ orphan = {} /\ Alone /\ OnFile

(* A step keeps the runs apart if it begins none.                           *)
LEMMA AloneStays ==
  ASSUME Typing, Alone, NEW d \in Dispatcher, pc[d] # "idle",
         \A e \in Dispatcher \ {d} : pc'[e] = pc[e]
  PROVE  Alone' /\ \A e \in Dispatcher \ {d} : pc[e] = "idle" /\ mine[e] = {}
<1>1. \A e \in Dispatcher \ {d} : pc[e] = "idle" /\ mine[e] = {}
  BY RunFacts DEF Alone
<1> QED BY <1>1 DEF Alone

LEMMA RunInTurn ==
  ASSUME Typing, InTurn, NEW d \in Dispatcher,
         pc[d] # "idle", pc' \in [Dispatcher -> {"idle", "next"} \union Busy],
         \A e \in Dispatcher \ {d} : pc'[e] = pc[e] /\ mine'[e] = mine[e],
         calm' => /\ calm
                  /\ stray' = {} /\ orphan' \subseteq orphan \union mine[d]
                  /\ mine[d] = {} \/ orphan' = orphan
                  /\ mine'[d] \subseteq (worktree' \intersect listed')
  PROVE  InTurn'
<1> SUFFICES ASSUME calm' PROVE stray' = {} /\ orphan' = {} /\ Alone' /\ OnFile'
  BY DEF InTurn
<1>1. Alone' /\ \A e \in Dispatcher \ {d} : pc[e] = "idle" /\ mine[e] = {}
  BY AloneStays DEF InTurn
<1> QED BY <1>1 DEF InTurn, OnFile

LEMMA InitInTurn == Init => InTurn
BY DEF Init, InTurn, Alone, OnFile

LEMMA BeginInTurn ==
  ASSUME Typing, InTurn, NEW d \in Dispatcher, NEW isDry \in BOOLEAN, Begin(d, isDry)
  PROVE  InTurn'
<1> SUFFICES ASSUME calm' PROVE stray' = {} /\ orphan' = {} /\ Alone' /\ OnFile'
  BY DEF InTurn
<1>1. calm /\ \A e \in Dispatcher : pc[e] = "idle"
  BY DEF Begin
<1>2. \A e \in Dispatcher : e # d => pc'[e] = "idle"
  BY <1>1 DEF Begin, Typing, Shape
<1> QED BY <1>1, <1>2 DEF Begin, InTurn, Alone, OnFile, world, launcher

LEMMA StepInTurn ==
  ASSUME Typing, InTurn, NEW d \in Dispatcher,
         Step(d) \/ ScriptEnds(d) \/ Compile(d) \/ CompileFails(d) \/ LaunchEnds(d)
         \/ LaunchFails(d) \/ Crash(d)
         \/ \E x \in Issue : LaunchWorker(d, x) \/ WorkerEnds(d, x)
  PROVE  InTurn'
<1> USE DEF ghosts, world, launcher
<1>0. /\ Typing'
      /\ pc \in [Dispatcher -> {"idle", "next"} \union Busy]
      /\ mine \in [Dispatcher -> SUBSET Issue]
      /\ pc' \in [Dispatcher -> {"idle", "next"} \union Busy]
      /\ pc[d] # "waiting" => mine[d] = {}
  <2>1. Typing'
    BY NextTyping DEF Next
  <2> QED BY <2>1, RunFacts DEF Typing, Shape
<1>a. ASSUME UNCHANGED <<stray, orphan, mine, calm>>, pc[d] # "idle",
             \A e \in Dispatcher \ {d} : pc'[e] = pc[e],
             pc[d] # "waiting" \/ UNCHANGED <<listed, worktree>>
      PROVE  InTurn'
  <2>1. calm => mine[d] \subseteq (worktree' \intersect listed')
    BY <1>0, <1>a DEF InTurn, OnFile
  <2> QED BY <1>0, <1>a, <2>1, RunInTurn DEF InTurn
<1>b. ASSUME CutLoose(d), pc[d] # "idle", \A e \in Dispatcher \ {d} : pc'[e] = pc[e]
      PROVE  InTurn'
  <2>1. mine'[d] = {} /\ \A e \in Dispatcher \ {d} : mine'[e] = mine[e]
    BY <1>b, CutLooseFacts
  <2>2. calm' => calm /\ mine[d] = {} /\ stray' = {}
    BY <1>b DEF CutLoose
  <2>3. orphan' = orphan \union mine[d]
    BY <1>b DEF CutLoose
  <2> QED BY <1>0, <1>b, <2>1, <2>2, <2>3, RunInTurn
<1>1. CASE Skip(d) \/ Unknown(d) \/ DryRun(d)
  BY <1>0, <1>1, <1>a DEF Skip, Unknown, DryRun, At, Answer, Advance
<1>2. CASE EvaluateWorkers(d) \/ RunScript(d) \/ ScriptEnds(d)
  BY <1>0, <1>2, <1>a DEF EvaluateWorkers, RunScript, ScriptEnds, Start, At, Answer, Advance
<1>3. CASE Reset(d) \/ Remove(d) \/ Compile(d) \/ CompileFails(d)
  BY <1>0, <1>3, <1>a DEF Reset, Remove, Compile, CompileFails, Start, At, Answer, Advance
<1>4. CASE Launch(d)
  BY <1>0, <1>4, <1>a DEF Launch
<1>9. CASE LaunchEnds(d)
  <2>1. /\ pc[d] # "idle" /\ UNCHANGED <<stray, listed, worktree, calm>>
        /\ orphan' = orphan \union mine[d] /\ mine'[d] = {}
        /\ \A e \in Dispatcher \ {d} : pc'[e] = pc[e] /\ mine'[e] = mine[e]
    BY <1>0, <1>9 DEF LaunchEnds, Answer, Advance
  <2>2. calm => mine[d] = {}
    <3>1. listed \intersect mine[d] = {}
      BY <1>9 DEF LaunchEnds
    <3> QED BY <3>1 DEF InTurn, OnFile
  <2> QED BY <1>0, <2>1, <2>2, RunInTurn DEF InTurn
<1>5. CASE Die(d) \/ Report(d)
  BY <1>0, <1>5, <1>a DEF Die, Report, At, Stop
<1>6. CASE LaunchFails(d) \/ Timeout(d)
  BY <1>0, <1>6, <1>b DEF LaunchFails, Timeout, Answer, Advance
<1>7. CASE Crash(d)
  BY <1>0, <1>7, <1>b DEF Crash, Stop
<1>8. CASE \E x \in Issue : LaunchWorker(d, x) \/ WorkerEnds(d, x)
  <2>1. PICK x \in Issue : LaunchWorker(d, x) \/ WorkerEnds(d, x)
    BY <1>8
  <2>2. /\ pc[d] # "idle"
    BY <2>1, RunFacts DEF LaunchWorker, WorkerEnds
  <2>3. /\ UNCHANGED <<pc, stray, orphan, calm>>
        /\ \A e \in Dispatcher \ {d} : mine'[e] = mine[e]
    BY <1>0, <2>1 DEF LaunchWorker, WorkerEnds, run
  <2>4. calm => mine'[d] \subseteq (worktree' \intersect listed')
    <3>1. calm => mine[d] \subseteq (worktree \intersect listed)
      BY DEF InTurn, OnFile
    <3>2. CASE LaunchWorker(d, x)
      BY <1>0, <3>1, <3>2 DEF LaunchWorker
    <3>3. CASE WorkerEnds(d, x)
      BY <1>0, <3>1, <3>3 DEF WorkerEnds
    <3> QED BY <2>1, <3>2, <3>3
  <2> QED BY <1>0, <2>2, <2>3, <2>4, RunInTurn DEF InTurn
<1> QED BY <1>1, <1>2, <1>3, <1>4, <1>5, <1>6, <1>7, <1>8, <1>9 DEF Step

LEMMA NextInTurn == Typing /\ InTurn /\ [Next]_vars => InTurn'
<1> SUFFICES ASSUME Typing, InTurn, [Next]_vars PROVE InTurn'
  OBVIOUS
<1>1. ASSUME NEW line \in LineKind, AppendLine(line)
      PROVE  InTurn'
  BY <1>1 DEF AppendLine, run, world, launcher, ghosts, InTurn, Alone, OnFile
<1>2. ASSUME NEW x \in Issue, StrayLaunches(x) \/ OrphanEnds(x)
      PROVE  InTurn'
  BY <1>2 DEF StrayLaunches, OrphanEnds, run, ghosts, InTurn
<1>3. CASE UNCHANGED vars
  BY <1>3 DEF vars, run, world, launcher, ghosts, InTurn, Alone, OnFile
<1>4. CASE Next
  BY <1>1, <1>2, <1>4, BeginInTurn, StepInTurn DEF Next
<1> QED BY <1>3, <1>4

(* As long as runs follow each other and every launch outlasts its workers, *)
(* wiping the manifest and removing worktrees harms nobody: whoever is at   *)
(* work is on file, has a worktree, and a launch waits for it.              *)
THEOREM InTurnHarmless == Spec => []HarmlessInTurn
<1>1. InTurn => HarmlessInTurn
  BY DEF InTurn, OnFile, HarmlessInTurn
<1>2. Spec => []InTurn
  BY InitTyping, NextTyping, InitInTurn, NextInTurn, PTL DEF Spec
<1> QED BY <1>1, <1>2, PTL
-----------------------------------------------------------------------------
(***************************************************************************)
(* Answers.  A run that is at line i has told of the lines before i what a *)
(* finished one tells of all its lines.                                    *)
(***************************************************************************)
TellsAll(cmds, told, upto) ==
  /\ {told[j].line : j \in DOMAIN told} = {l \in 1..upto : cmds[l] # "malformed"}
  /\ \A j, m \in DOMAIN told : j < m => told[j].line < told[m].line
  /\ \A j \in DOMAIN told :
       (told[j].status = "unknown-command") <=> (cmds[told[j].line] = "unknown")

SoFar(d) ==
  /\ TellsAll(commands, answers[d], i[d] - 1)
  /\ pc[d] = "idle" => i[d] = 1

InFull ==
  /\ \A k \in DOMAIN results : TellsAll(commands, results[k].answers, results[k].lines)
  /\ \A d \in Dispatcher : SoFar(d)

LEMMA TellsOne ==
  ASSUME NEW cmds, NEW told \in Seq(Entry), NEW upto \in Nat, TellsAll(cmds, told, upto),
         NEW status \in Statuses, cmds[upto + 1] # "malformed",
         (status = "unknown-command") <=> (cmds[upto + 1] = "unknown")
  PROVE  TellsAll(cmds, Append(told, [line |-> upto + 1, status |-> status]), upto + 1)
<1> DEFINE e == [line |-> upto + 1, status |-> status]
           new == Append(told, e)
<1>1. /\ DOMAIN new = DOMAIN told \union {Len(told) + 1}
      /\ Len(told) + 1 \notin DOMAIN told /\ DOMAIN told = 1..Len(told) /\ Len(told) \in Nat
      /\ new[Len(told) + 1] = e
      /\ \A j \in DOMAIN told : new[j] = told[j]
  OBVIOUS
<1>2. \A j \in DOMAIN told : told[j].line \in 1..upto
  BY DEF TellsAll
<1>3. {new[j].line : j \in DOMAIN new} = {told[j].line : j \in DOMAIN told} \union {upto + 1}
  BY <1>1
<1>4. {l \in 1..(upto + 1) : cmds[l] # "malformed"}
        = {l \in 1..upto : cmds[l] # "malformed"} \union {upto + 1}
  OBVIOUS
<1>5. ASSUME NEW j \in DOMAIN new, NEW m \in DOMAIN new, j < m
      PROVE  new[j].line < new[m].line
  <2>1. j \in DOMAIN told
    BY <1>1, <1>5
  <2>2. CASE m \in DOMAIN told
    BY <1>1, <1>5, <2>1, <2>2 DEF TellsAll
  <2>3. CASE m = Len(told) + 1
    BY <1>1, <1>2, <2>1, <2>3
  <2> QED BY <1>1, <2>2, <2>3
<1>6. \A j \in DOMAIN new : (new[j].status = "unknown-command") <=> (cmds[new[j].line] = "unknown")
  BY <1>1 DEF TellsAll
<1> QED BY <1>3, <1>4, <1>5, <1>6 DEF TellsAll

LEMMA TellsNone ==
  ASSUME NEW cmds, NEW told, NEW upto \in Nat, TellsAll(cmds, told, upto),
         cmds[upto + 1] = "malformed"
  PROVE  TellsAll(cmds, told, upto + 1)
<1>1. {l \in 1..(upto + 1) : cmds[l] # "malformed"} = {l \in 1..upto : cmds[l] # "malformed"}
  OBVIOUS
<1> QED BY <1>1 DEF TellsAll

LEMMA TellsOfLonger ==
  ASSUME NEW cmds, NEW longer, NEW told, NEW upto \in Nat, TellsAll(cmds, told, upto),
         \A l \in 1..upto : longer[l] = cmds[l]
  PROVE  TellsAll(longer, told, upto)
<1>1. {l \in 1..upto : longer[l] # "malformed"} = {l \in 1..upto : cmds[l] # "malformed"}
  OBVIOUS
<1>2. \A j \in DOMAIN told : told[j].line \in 1..upto
  BY DEF TellsAll
<1> QED BY <1>1, <1>2 DEF TellsAll

LEMMA InitInFull == Init => InFull
BY DEF Init, InFull, SoFar, TellsAll

LEMMA OneRunInFull ==
  ASSUME InFull, NEW d \in Dispatcher, commands' = commands, results' = results, SoFar(d)',
         \A e \in Dispatcher \ {d} : pc'[e] = pc[e] /\ i'[e] = i[e] /\ answers'[e] = answers[e]
  PROVE  InFull'
BY DEF InFull, SoFar

(* An answer tells of a line that parses, and calls it unknown only if it is. *)
LEMMA AnswerInFull ==
  ASSUME Typing, InFull, NEW d \in Dispatcher, NEW status \in Statuses, Answer(d, status),
         commands[i[d]] # "malformed",
         (status = "unknown-command") <=> (commands[i[d]] = "unknown")
  PROVE  InFull'
<1>1. i[d] \in Nat /\ i[d] >= 1 /\ answers[d] \in Seq(Entry)
  BY RunFacts DEF Typing, Shape
<1>2. /\ pc'[d] = "next" /\ i'[d] = i[d] + 1 /\ commands' = commands /\ results' = results
      /\ answers'[d] = Append(answers[d], [line |-> i[d], status |-> status])
      /\ \A e \in Dispatcher \ {d} : pc'[e] = pc[e] /\ i'[e] = i[e] /\ answers'[e] = answers[e]
  BY DEF Answer, Advance, Typing, Shape
<1>3. TellsAll(commands, answers[d], i[d] - 1)
  BY DEF InFull, SoFar
<1>4. i[d] - 1 \in Nat /\ (i[d] - 1) + 1 = i[d] /\ (i[d] + 1) - 1 = i[d]
  BY <1>1
<1>5. TellsAll(commands, Append(answers[d], [line |-> i[d], status |-> status]), i[d])
  BY <1>1, <1>3, <1>4, TellsOne
<1>6. SoFar(d)'
  BY <1>2, <1>4, <1>5 DEF SoFar
<1> QED BY <1>2, <1>6, OneRunInFull

LEMMA AppendInFull ==
  ASSUME Typing, InFull, NEW line \in LineKind, AppendLine(line)
  PROVE  InFull'
<1>1. /\ UNCHANGED <<results, pc, i, answers>>
      /\ Len(commands) \in Nat /\ \A l \in 1..Len(commands) : commands'[l] = commands[l]
  BY DEF AppendLine, run, Typing, TypeOK
<1>2. ASSUME NEW k \in DOMAIN results
      PROVE  TellsAll(commands', results'[k].answers, results'[k].lines)
  <2>1. results[k].lines \in 0..Len(commands)
    BY DEF Typing, TypeOK
  <2>2. TellsAll(commands, results[k].answers, results[k].lines)
    BY DEF InFull
  <2>3. results[k].lines \in Nat /\ \A l \in 1..results[k].lines : commands'[l] = commands[l]
    BY <1>1, <2>1
  <2> QED BY <1>1, <2>2, <2>3, TellsOfLonger
<1>3. ASSUME NEW d \in Dispatcher
      PROVE  SoFar(d)'
  <2>1. SoFar(d) /\ i[d] \in Nat /\ i[d] >= 1 /\ i[d] - 1 <= Len(commands)
    <3>1. i[d] <= n[d] + 1
      BY RunFacts
    <3> QED BY <3>1, RunFacts DEF InFull
  <2>2. i[d] - 1 \in Nat /\ \A l \in 1..(i[d] - 1) : commands'[l] = commands[l]
    BY <1>1, <2>1
  <2>3. TellsAll(commands', answers[d], i[d] - 1)
    BY <2>1, <2>2, TellsOfLonger DEF SoFar
  <2> QED BY <1>1, <2>1, <2>3 DEF SoFar
<1> QED BY <1>1, <1>2, <1>3 DEF InFull

LEMMA StopInFull ==
  ASSUME Typing, InFull, NEW d \in Dispatcher, Die(d) \/ Report(d) \/ Crash(d)
  PROVE  InFull'
<1>1. Stop(d)
  BY DEF Die, Report, Crash
<1>2. \A e \in Dispatcher : SoFar(e)'
  <2>1. TellsAll(commands, <<>>, 1 - 1)
    BY DEF TellsAll
  <2>2. SoFar(d)'
    BY <1>1, <2>1, StopFacts DEF SoFar
  <2>3. \A e \in Dispatcher \ {d} : SoFar(e)'
    BY <1>1, StopFacts DEF InFull, SoFar
  <2> QED BY <2>2, <2>3
<1>3. ASSUME NEW k \in DOMAIN results'
      PROVE  TellsAll(commands, results'[k].answers, results'[k].lines)
  <2>1. CASE results' = results
    BY <1>3, <2>1 DEF InFull
  <2>2. CASE Report(d)
    <3>1. results' = Append(results, [lines |-> n[d], answers |-> answers[d]])
      BY <2>2 DEF Report
    <3>2. i[d] - 1 = n[d]
      BY <2>2, RunFacts DEF Report
    <3>3. TellsAll(commands, answers[d], n[d])
      BY <3>2 DEF InFull, SoFar
    <3>4. results \in Seq([lines : Nat, answers : Seq(Entry)])
      BY DEF Typing, Shape
    <3>5. CASE k = Len(results) + 1
      BY <3>1, <3>3, <3>4, <3>5
    <3>6. CASE k # Len(results) + 1
      <4>1. k \in DOMAIN results /\ results'[k] = results[k]
        BY <1>3, <3>1, <3>4, <3>6
      <4> QED BY <4>1 DEF InFull
    <3> QED BY <3>5, <3>6
  <2> QED BY <2>1, <2>2 DEF Die, Crash
<1> QED BY <1>1, <1>2, <1>3, StopFacts DEF InFull

LEMMA StepInFull ==
  ASSUME Typing, InFull, NEW d \in Dispatcher,
         Step(d) \/ ScriptEnds(d) \/ Compile(d) \/ CompileFails(d) \/ LaunchEnds(d)
         \/ LaunchFails(d) \/ Crash(d)
  PROVE  InFull'
<1>a. ASSUME NEW status \in {"success", "error", "dry-run"}, Answer(d, status),
             commands[i[d]] \in HANDLERS
      PROVE  InFull'
  <2>1. commands[i[d]] # "malformed" /\ commands[i[d]] # "unknown"
    BY <1>a DEF HANDLERS
  <2>2. status \in Statuses /\ status # "unknown-command"
    BY DEF Statuses
  <2> QED BY <1>a, <2>1, <2>2, AnswerInFull
<1>b. ASSUME UNCHANGED <<commands, results, i, answers>>, pc[d] # "idle", pc'[d] # "idle",
             \A e \in Dispatcher \ {d} : pc'[e] = pc[e]
      PROVE  InFull'
  BY <1>b DEF InFull, SoFar
<1>c. pc \in [Dispatcher -> {"idle", "next"} \union Busy]
  BY DEF Typing, Shape
<1>1. CASE Skip(d)
  <2>1. /\ i[d] \in Nat /\ i[d] >= 1 /\ commands[i[d]] = "malformed" /\ TellsAll(commands, answers[d], i[d] - 1)
    BY <1>1, RunFacts DEF Skip, At, InFull, SoFar
  <2>2. i[d] - 1 \in Nat /\ (i[d] - 1) + 1 = i[d] /\ (i[d] + 1) - 1 = i[d]
    BY <2>1
  <2>3. TellsAll(commands, answers[d], i[d])
    BY <2>1, <2>2, TellsNone
  <2>4. /\ pc'[d] = "next" /\ i'[d] = i[d] + 1 /\ UNCHANGED <<commands, results, answers>>
        /\ \A e \in Dispatcher \ {d} : pc'[e] = pc[e] /\ i'[e] = i[e]
    BY <1>1 DEF Skip, Advance, Typing, Shape
  <2>5. SoFar(d)'
    BY <2>2, <2>3, <2>4 DEF SoFar
  <2> QED BY <2>4, <2>5, OneRunInFull
<1>2. CASE Unknown(d)
  BY <1>2, AnswerInFull DEF Unknown, At, Statuses
<1>3. CASE DryRun(d)
  BY <1>3, <1>a DEF DryRun, At
<1>4. CASE EvaluateWorkers(d)
  BY <1>4, <1>a DEF EvaluateWorkers, Start, At, HANDLERS
<1>5. CASE RunScript(d) \/ Reset(d) \/ Remove(d) \/ Launch(d)
  BY <1>5, <1>b, <1>c DEF RunScript, Reset, Remove, Launch, Start, At
<1>6. CASE ScriptEnds(d)
  BY <1>6, <1>a, RunFacts DEF ScriptEnds, Busy
<1>7. CASE Compile(d)
  <2>1. CASE Answer(d, "success")
    BY <1>7, <2>1, <1>a, RunFacts DEF Compile, Busy
  <2>2. CASE ~Answer(d, "success")
    BY <1>7, <2>2, <1>b, <1>c DEF Compile
  <2> QED BY <2>1, <2>2
<1>8. CASE CompileFails(d) \/ LaunchEnds(d) \/ LaunchFails(d) \/ Timeout(d)
  BY <1>8, <1>a, RunFacts DEF CompileFails, LaunchEnds, LaunchFails, Timeout, Busy
<1>9. CASE Die(d) \/ Report(d) \/ Crash(d)
  BY <1>9, StopInFull
<1> QED BY <1>1, <1>2, <1>3, <1>4, <1>5, <1>6, <1>7, <1>8, <1>9 DEF Step

LEMMA NextInFull == Typing /\ InFull /\ [Next]_vars => InFull'
<1> SUFFICES ASSUME Typing, InFull, [Next]_vars PROVE InFull'
  OBVIOUS
<1>1. ASSUME NEW d \in Dispatcher, NEW isDry \in BOOLEAN, Begin(d, isDry)
      PROVE  InFull'
  <2>1. UNCHANGED <<commands, results, answers>> /\ pc[d] = "idle" /\ i'[d] = 1 /\ i[d] = 1
    BY <1>1 DEF Begin, InFull, SoFar, Typing, Shape
  <2>2. \A e \in Dispatcher \ {d} : pc'[e] = pc[e] /\ i'[e] = i[e]
    BY <1>1 DEF Begin, Typing, Shape
  <2>3. SoFar(d)'
    BY <2>1 DEF InFull, SoFar
  <2> QED BY <2>1, <2>2, <2>3, OneRunInFull
<1>2. ASSUME UNCHANGED <<commands, results, pc, i, answers>>
      PROVE  InFull'
  BY <1>2 DEF InFull, SoFar
<1>3. CASE UNCHANGED vars
  BY <1>2, <1>3 DEF vars, run
<1>4. CASE Next
  <2>1. ASSUME NEW d \in Dispatcher, NEW x \in Issue, LaunchWorker(d, x) \/ WorkerEnds(d, x)
        PROVE  InFull'
    BY <1>2, <2>1 DEF LaunchWorker, WorkerEnds, run
  <2>2. ASSUME NEW x \in Issue, StrayLaunches(x) \/ OrphanEnds(x)
        PROVE  InFull'
    BY <1>2, <2>2 DEF StrayLaunches, OrphanEnds, run
  <2> QED BY <1>1, <1>4, <2>1, <2>2, AppendInFull, StepInFull DEF Next
<1> QED BY <1>3, <1>4

(* However runs overlap, time out, fail and crash, a line of the results    *)
(* answers every line of the commands that the run read and that parses,    *)
(* once, in the file's order, and calls none unknown that has a handler.    *)
THEOREM ResultsAnswerAll == Spec => []AnsweredInFull
<1>1. InFull => AnsweredInFull
  BY DEF InFull, AnsweredInFull, TellsAll
<1>2. Spec => []InFull
  BY InitTyping, NextTyping, InitInFull, NextInFull, PTL DEF Spec
<1> QED BY <1>1, <1>2, PTL
-----------------------------------------------------------------------------
(***************************************************************************)
(* Counting.  A run that has not passed a line may still start its         *)
(* command, and one that started it may still report it.  Either kind is   *)
(* finite in number, as runs begin one by one.                             *)
(***************************************************************************)
Carried(told, l) ==
  \E j \in DOMAIN told : told[j].line = l /\ told[j].status \in {"success", "error"}

Ahead(l) ==
  {d \in Dispatcher : /\ pc[d] # "idle" /\ l <= n[d]
                      /\ i[d] < l \/ (i[d] = l /\ pc[d] = "next")}

Pending(l) ==
  {d \in Dispatcher : (pc[d] \in Busy /\ i[d] = l) \/ Carried(answers[d], l)}

Reported(l) == {k \in DOMAIN results : Carried(results[k].answers, l)}

Counted(l) ==
  /\ IsFiniteSet(Ahead(l)) /\ carried[l] + Cardinality(Ahead(l)) <= begun[l]
  /\ IsFiniteSet(Pending(l)) /\ Cardinality(Reported(l)) + Cardinality(Pending(l)) <= carried[l]

AllCounted == \A l \in 1..MaxLines : Counted(l)

LEMMA FewerOf ==
  ASSUME NEW S, IsFiniteSet(S), NEW T, T \subseteq S
  PROVE  /\ IsFiniteSet(T) /\ Cardinality(T) \in Nat /\ Cardinality(S) \in Nat
         /\ Cardinality(T) <= Cardinality(S)
BY FS_Subset, FS_CardinalityType

LEMMA OneMore ==
  ASSUME NEW S, IsFiniteSet(S), NEW x, NEW T, T \subseteq S \union {x}
  PROVE  /\ IsFiniteSet(T) /\ Cardinality(T) \in Nat /\ Cardinality(S) \in Nat
         /\ Cardinality(T) <= Cardinality(S) + 1
<1>1. /\ IsFiniteSet(S \union {x}) /\ Cardinality(S \union {x}) <= Cardinality(S) + 1
      /\ Cardinality(S) \in Nat
  BY FS_AddElement, FS_CardinalityType
<1> QED BY <1>1, FewerOf

LEMMA OneLess ==
  ASSUME NEW S, IsFiniteSet(S), NEW x \in S, NEW T, T \subseteq S \ {x}
  PROVE  /\ IsFiniteSet(T) /\ Cardinality(T) \in Nat /\ Cardinality(S) \in Nat
         /\ Cardinality(T) + 1 <= Cardinality(S)
<1>1. /\ IsFiniteSet(S \ {x}) /\ Cardinality(S \ {x}) = Cardinality(S) - 1
      /\ Cardinality(S) \in Nat
  BY FS_RemoveElement, FS_CardinalityType
<1>2. Cardinality(S \ {x}) \in Nat
  BY <1>1, FS_CardinalityType
<1> QED BY <1>1, <1>2, FewerOf

LEMMA CountTypes ==
  ASSUME Typing, NEW l \in 1..MaxLines
  PROVE  /\ IsFiniteSet(Reported(l)) /\ Cardinality(Reported(l)) \in Nat
         /\ carried[l] \in Nat /\ begun[l] \in Nat /\ l \in Nat /\ l >= 1
<1>1. DOMAIN results = 1..Len(results) /\ Len(results) \in Nat
  BY DEF Typing, Shape
<1>2. IsFiniteSet(DOMAIN results)
  BY <1>1, FS_Interval
<1>3. Reported(l) \subseteq DOMAIN results
  BY DEF Reported
<1> QED BY <1>2, <1>3, FewerOf, BoundsAssumption DEF Typing, TypeOK

(* A step that starts nothing and reports nothing.                          *)
LEMMA QuietCount ==
  ASSUME Typing, NEW l \in 1..MaxLines, Counted(l),
         carried'[l] = carried[l], begun'[l] = begun[l], results' = results,
         Ahead(l)' \subseteq Ahead(l), Pending(l)' \subseteq Pending(l)
  PROVE  Counted(l)'
<1>1. Reported(l)' = Reported(l)
  BY DEF Reported
<1>2. /\ IsFiniteSet(Ahead(l)') /\ Cardinality(Ahead(l)') \in Nat /\ Cardinality(Ahead(l)) \in Nat
      /\ Cardinality(Ahead(l)') <= Cardinality(Ahead(l))
  BY FewerOf DEF Counted
<1>3. /\ IsFiniteSet(Pending(l)') /\ Cardinality(Pending(l)') \in Nat /\ Cardinality(Pending(l)) \in Nat
      /\ Cardinality(Pending(l)') <= Cardinality(Pending(l))
  BY FewerOf DEF Counted
<1> QED BY <1>1, <1>2, <1>3, CountTypes DEF Counted

LEMMA OneRunQuiet ==
  ASSUME Typing, AllCounted, NEW d \in Dispatcher,
         UNCHANGED <<carried, begun, results>>,
         \A e \in Dispatcher \ {d} :
           pc'[e] = pc[e] /\ n'[e] = n[e] /\ i'[e] = i[e] /\ answers'[e] = answers[e],
         \A l \in 1..MaxLines : /\ d \in Ahead(l)' => d \in Ahead(l)
                                /\ d \in Pending(l)' => d \in Pending(l)
  PROVE  AllCounted'
<1> SUFFICES ASSUME NEW l \in 1..MaxLines PROVE Counted(l)'
  BY DEF AllCounted
<1>1. Ahead(l)' \subseteq Ahead(l)
  BY DEF Ahead
<1>2. Pending(l)' \subseteq Pending(l)
  BY DEF Pending
<1> QED BY <1>1, <1>2, QuietCount DEF AllCounted

(* The current line's command is started: its run is no longer ahead of it. *)
LEMMA StartCount ==
  ASSUME Typing, AllCounted, NEW d \in Dispatcher, NEW command \in HANDLERS, Start(d, command),
         results' = results,
         \A e \in Dispatcher \ {d} :
           pc'[e] = pc[e] /\ n'[e] = n[e] /\ i'[e] = i[e] /\ answers'[e] = answers[e],
         n'[d] = n[d],
         \A l \in 1..MaxLines :
           /\ i'[d] < l \/ (i'[d] = l /\ pc'[d] = "next") => i[d] < l
           /\ d \in Pending(l)' => d \in Pending(l) \/ l = i[d]
  PROVE  AllCounted'
<1> SUFFICES ASSUME NEW l \in 1..MaxLines PROVE Counted(l)'
  BY DEF AllCounted
<1>1. /\ i[d] \in 1..MaxLines /\ i[d] <= n[d] /\ pc[d] = "next" /\ begun' = begun
      /\ carried' = [carried EXCEPT ![i[d]] = carried[i[d]] + 1]
      /\ carried \in [1..MaxLines -> Nat] /\ n[d] \in Nat /\ i[d] \in Nat /\ l \in Nat
  BY StartFacts, RunFacts DEF Typing, TypeOK
<1>2. Reported(l)' = Reported(l)
  BY DEF Reported
<1>3. CASE l = i[d]
  <2>1. d \in Ahead(l) /\ Ahead(l)' \subseteq Ahead(l) \ {d}
    BY <1>1, <1>3 DEF Ahead
  <2>2. Pending(l)' \subseteq Pending(l) \union {d}
    BY DEF Pending
  <2>3. carried'[l] = carried[l] + 1
    BY <1>1, <1>3
  <2>4. /\ IsFiniteSet(Ahead(l)') /\ Cardinality(Ahead(l)') \in Nat /\ Cardinality(Ahead(l)) \in Nat
        /\ Cardinality(Ahead(l)') + 1 <= Cardinality(Ahead(l))
    BY <2>1, OneLess DEF AllCounted, Counted
  <2>5. /\ IsFiniteSet(Pending(l)') /\ Cardinality(Pending(l)') \in Nat /\ Cardinality(Pending(l)) \in Nat
        /\ Cardinality(Pending(l)') <= Cardinality(Pending(l)) + 1
    BY <2>2, OneMore DEF AllCounted, Counted
  <2>6. /\ carried[l] + Cardinality(Ahead(l)) <= begun[l]
        /\ Cardinality(Reported(l)) + Cardinality(Pending(l)) <= carried[l]
        /\ Cardinality(Reported(l)) \in Nat /\ carried[l] \in Nat /\ begun[l] \in Nat
    BY CountTypes DEF AllCounted, Counted
  <2>7. carried'[l] + Cardinality(Ahead(l)') <= begun'[l]
    BY <1>1, <2>3, <2>4, <2>6
  <2>8. Cardinality(Reported(l)') + Cardinality(Pending(l)') <= carried'[l]
    BY <1>2, <2>3, <2>5, <2>6
  <2> QED BY <2>4, <2>5, <2>7, <2>8 DEF Counted
<1>4. CASE l # i[d]
  <2>1. Ahead(l)' \subseteq Ahead(l)
    BY <1>1, <1>4 DEF Ahead
  <2>2. Pending(l)' \subseteq Pending(l)
    BY <1>4 DEF Pending
  <2>3. carried'[l] = carried[l] /\ begun'[l] = begun[l]
    BY <1>1, <1>4
  <2> QED BY <2>1, <2>2, <2>3, QuietCount DEF AllCounted
<1> QED BY <1>3, <1>4

LEMMA InitCount == Init => AllCounted
<1> SUFFICES ASSUME Init, NEW l \in 1..MaxLines PROVE Counted(l)
  BY DEF AllCounted
<1>1. Ahead(l) = {} /\ Pending(l) = {} /\ Reported(l) = {}
  BY DEF Init, Ahead, Pending, Reported, Carried, Busy
<1>2. carried[l] = 0 /\ begun[l] = 0
  BY DEF Init
<1> QED BY <1>1, <1>2, FS_EmptySet DEF Counted

(* A run that begins may start each line it read once.                      *)
LEMMA BeginCount ==
  ASSUME Typing, AllCounted, NEW d \in Dispatcher, NEW isDry \in BOOLEAN, Begin(d, isDry)
  PROVE  AllCounted'
<1> SUFFICES ASSUME NEW l \in 1..MaxLines PROVE Counted(l)'
  BY DEF AllCounted
<1>1. /\ pc[d] = "idle" /\ pc'[d] = "next" /\ n'[d] = Len(commands) /\ i'[d] = 1
      /\ UNCHANGED <<results, answers, carried>>
      /\ \A e \in Dispatcher \ {d} : pc'[e] = pc[e] /\ n'[e] = n[e] /\ i'[e] = i[e]
      /\ begun'[l] = IF l <= Len(commands) THEN begun[l] + 1 ELSE begun[l]
  BY DEF Begin, Typing, Shape
<1>2. Pending(l)' \subseteq Pending(l) /\ Reported(l)' = Reported(l)
  BY <1>1 DEF Pending, Reported, Busy
<1>3. CASE l <= Len(commands)
  <2>1. Ahead(l)' \subseteq Ahead(l) \union {d}
    BY <1>1 DEF Ahead
  <2>2. /\ IsFiniteSet(Ahead(l)') /\ Cardinality(Ahead(l)') \in Nat /\ Cardinality(Ahead(l)) \in Nat
        /\ Cardinality(Ahead(l)') <= Cardinality(Ahead(l)) + 1
    BY <2>1, OneMore DEF AllCounted, Counted
  <2>3. /\ IsFiniteSet(Pending(l)') /\ Cardinality(Pending(l)') \in Nat /\ Cardinality(Pending(l)) \in Nat
        /\ Cardinality(Pending(l)') <= Cardinality(Pending(l))
    BY <1>2, FewerOf DEF AllCounted, Counted
  <2>4. /\ carried[l] + Cardinality(Ahead(l)) <= begun[l]
        /\ Cardinality(Reported(l)) + Cardinality(Pending(l)) <= carried[l]
        /\ Cardinality(Reported(l)) \in Nat /\ carried[l] \in Nat /\ begun[l] \in Nat
    BY CountTypes DEF AllCounted, Counted
  <2>5. carried'[l] + Cardinality(Ahead(l)') <= begun'[l]
    BY <1>1, <1>3, <2>2, <2>4
  <2>6. Cardinality(Reported(l)') + Cardinality(Pending(l)') <= carried'[l]
    BY <1>1, <1>2, <2>3, <2>4
  <2> QED BY <2>2, <2>3, <2>5, <2>6 DEF Counted
<1>4. CASE ~(l <= Len(commands))
  <2>1. Ahead(l)' \subseteq Ahead(l)
    BY <1>1, <1>4 DEF Ahead
  <2>2. carried'[l] = carried[l] /\ begun'[l] = begun[l] /\ results' = results
    BY <1>1, <1>4
  <2> QED BY <1>2, <2>1, <2>2, QuietCount DEF AllCounted
<1> QED BY <1>3, <1>4

(* A run's report moves what it carried from the pending to the reported.   *)
LEMMA ReportCount ==
  ASSUME Typing, AllCounted, NEW d \in Dispatcher, Report(d)
  PROVE  AllCounted'
<1> SUFFICES ASSUME NEW l \in 1..MaxLines PROVE Counted(l)'
  BY DEF AllCounted
<1> DEFINE entry == [lines |-> n[d], answers |-> answers[d]]
<1>1. Stop(d) /\ results' = Append(results, entry) /\ UNCHANGED <<carried, begun>>
  BY DEF Report, ghosts
<1>2. /\ DOMAIN results' = DOMAIN results \union {Len(results) + 1}
      /\ \A k \in DOMAIN results : results'[k] = results[k]
      /\ results'[Len(results) + 1] = entry
  BY <1>1 DEF Typing, Shape
<1>3. Ahead(l)' \subseteq Ahead(l)
  BY <1>1, StopFacts DEF Ahead
<1>4. Pending(l)' \subseteq Pending(l) \ {d}
  <2>1. ~Carried(answers'[d], l) /\ pc'[d] = "idle"
    BY <1>1, StopFacts DEF Carried
  <2> QED BY <1>1, <2>1, StopFacts DEF Pending, Busy
<1>5. /\ IsFiniteSet(Ahead(l)') /\ Cardinality(Ahead(l)') \in Nat /\ Cardinality(Ahead(l)) \in Nat
      /\ Cardinality(Ahead(l)') <= Cardinality(Ahead(l))
  BY <1>3, FewerOf DEF AllCounted, Counted
<1>6. /\ carried[l] + Cardinality(Ahead(l)) <= begun[l]
      /\ IsFiniteSet(Pending(l)) /\ Cardinality(Reported(l)) + Cardinality(Pending(l)) <= carried[l]
      /\ Cardinality(Reported(l)) \in Nat /\ carried[l] \in Nat /\ begun[l] \in Nat
      /\ IsFiniteSet(Reported(l))
  BY CountTypes DEF AllCounted, Counted
<1>7. /\ IsFiniteSet(Pending(l)')
      /\ Cardinality(Reported(l)') + Cardinality(Pending(l)') <= carried[l]
  <2>1. CASE Carried(answers[d], l)
    <3>1. d \in Pending(l)
      BY <2>1 DEF Pending
    <3>2. /\ IsFiniteSet(Pending(l)') /\ Cardinality(Pending(l)') \in Nat /\ Cardinality(Pending(l)) \in Nat
          /\ Cardinality(Pending(l)') + 1 <= Cardinality(Pending(l))
      BY <1>4, <1>6, <3>1, OneLess
    <3>3. Reported(l)' \subseteq Reported(l) \union {Len(results) + 1}
      BY <1>2 DEF Reported
    <3>4. Cardinality(Reported(l)') \in Nat /\ Cardinality(Reported(l)') <= Cardinality(Reported(l)) + 1
      BY <1>6, <3>3, OneMore
    <3> QED BY <1>6, <3>2, <3>4
  <2>2. CASE ~Carried(answers[d], l)
    <3>1. Reported(l)' \subseteq Reported(l)
      BY <1>2, <2>2 DEF Reported
    <3>2. Cardinality(Reported(l)') \in Nat /\ Cardinality(Reported(l)') <= Cardinality(Reported(l))
      BY <1>6, <3>1, FewerOf
    <3>3. /\ IsFiniteSet(Pending(l)') /\ Cardinality(Pending(l)') \in Nat /\ Cardinality(Pending(l)) \in Nat
          /\ Cardinality(Pending(l)') <= Cardinality(Pending(l))
      BY <1>4, <1>6, FewerOf
    <3> QED BY <1>6, <3>2, <3>3
  <2> QED BY <2>1, <2>2
<1> QED BY <1>1, <1>5, <1>6, <1>7 DEF Counted

LEMMA CarriedMore ==
  ASSUME NEW told \in Seq(Entry), NEW e \in Entry, NEW l, Carried(Append(told, e), l)
  PROVE  Carried(told, l) \/ (e.line = l /\ e.status \in {"success", "error"})
<1>1. PICK j \in DOMAIN Append(told, e) :
        /\ Append(told, e)[j].line = l
        /\ Append(told, e)[j].status \in {"success", "error"}
  BY DEF Carried
<1>2. CASE j \in DOMAIN told
  <2>1. Append(told, e)[j] = told[j]
    BY <1>2
  <2> QED BY <1>1, <1>2, <2>1 DEF Carried
<1>3. CASE j \notin DOMAIN told
  <2>1. Append(told, e)[j] = e
    BY <1>3
  <2> QED BY <1>1, <2>1
<1> QED BY <1>2, <1>3

LEMMA AnswerPending ==
  ASSUME Typing, NEW d \in Dispatcher, NEW status \in Statuses, Answer(d, status),
         NEW l \in 1..MaxLines
  PROVE  /\ i'[d] = i[d] + 1 /\ n'[d] = n[d] /\ pc'[d] = "next" /\ results' = results
         /\ \A e \in Dispatcher \ {d} :
              pc'[e] = pc[e] /\ n'[e] = n[e] /\ i'[e] = i[e] /\ answers'[e] = answers[e]
         /\ i'[d] < l \/ (i'[d] = l /\ pc'[d] = "next") => i[d] < l
         /\ d \in Pending(l)' =>
              d \in Pending(l) \/ (i[d] = l /\ status \in {"success", "error"})
<1>1. /\ i[d] \in Nat /\ l \in Nat /\ answers[d] \in Seq(Entry)
      /\ [line |-> i[d], status |-> status] \in Entry
  <2>1. i[d] \in Nat
    BY RunFacts
  <2>2. answers[d] \in Seq(Entry)
    BY DEF Typing, Shape
  <2> QED BY <2>1, <2>2, BoundsAssumption DEF Entry
<1>2. /\ i'[d] = i[d] + 1 /\ n'[d] = n[d] /\ pc'[d] = "next" /\ results' = results
      /\ answers'[d] = Append(answers[d], [line |-> i[d], status |-> status])
      /\ \A e \in Dispatcher \ {d} :
           pc'[e] = pc[e] /\ n'[e] = n[e] /\ i'[e] = i[e] /\ answers'[e] = answers[e]
  BY DEF Answer, Advance, Typing, Shape
<1>3. d \in Pending(l)' => d \in Pending(l) \/ (i[d] = l /\ status \in {"success", "error"})
  <2>1. d \in Pending(l)' => Carried(Append(answers[d], [line |-> i[d], status |-> status]), l)
    BY <1>2 DEF Pending, Busy
  <2> QED BY <1>1, <2>1, CarriedMore DEF Pending
<1> QED BY <1>1, <1>2, <1>3

LEMMA AnswerCount ==
  ASSUME Typing, AllCounted, NEW d \in Dispatcher, NEW status \in Statuses, Answer(d, status),
         pc[d] # "idle", i[d] <= n[d], UNCHANGED <<carried, begun>>,
         pc[d] \in Busy \/ status \notin {"success", "error"}
  PROVE  AllCounted'
<1>1. results' = results /\ \A e \in Dispatcher \ {d} :
        pc'[e] = pc[e] /\ n'[e] = n[e] /\ i'[e] = i[e] /\ answers'[e] = answers[e]
  BY DEF Answer, Advance, Typing, Shape
<1>2. ASSUME NEW l \in 1..MaxLines
      PROVE  /\ d \in Ahead(l)' => d \in Ahead(l)
             /\ d \in Pending(l)' => d \in Pending(l)
  <2>1. d \in Ahead(l)' => d \in Ahead(l)
    BY AnswerPending DEF Ahead
  <2>2. d \in Pending(l)' => d \in Pending(l)
    BY AnswerPending DEF Pending
  <2> QED BY <2>1, <2>2
<1> QED BY <1>1, <1>2, OneRunQuiet

LEMMA StartedCount ==
  ASSUME Typing, AllCounted, NEW d \in Dispatcher,
         EvaluateWorkers(d) \/ RunScript(d) \/ Reset(d)
  PROVE  AllCounted'
<1>0. i[d] \in Nat /\ MaxLines \in Nat
  BY RunFacts, BoundsAssumption
<1>1. CASE EvaluateWorkers(d)
  <2>1. PICK status \in Statuses : Answer(d, status)
    BY <1>1 DEF EvaluateWorkers, Statuses
  <2>2. Start(d, "evaluate-workers")
    BY <1>1 DEF EvaluateWorkers
  <2>3. \A l \in 1..MaxLines :
           /\ i'[d] < l \/ (i'[d] = l /\ pc'[d] = "next") => i[d] < l
           /\ d \in Pending(l)' => d \in Pending(l) \/ l = i[d]
    BY <2>1, AnswerPending
  <2>4. /\ results' = results /\ n'[d] = n[d]
        /\ \A e \in Dispatcher \ {d} :
             pc'[e] = pc[e] /\ n'[e] = n[e] /\ i'[e] = i[e] /\ answers'[e] = answers[e]
    BY <2>1 DEF Answer, Advance, Typing, Shape
  <2> QED BY <2>2, <2>3, <2>4, StartCount DEF HANDLERS
<1>2. CASE RunScript(d) \/ Reset(d)
  <2>1. PICK command \in HANDLERS : Start(d, command)
    BY <1>2 DEF RunScript, Reset, HANDLERS
  <2>2. /\ UNCHANGED <<results, n, i, answers>> /\ pc'[d] \in Busy
        /\ \A e \in Dispatcher \ {d} : pc'[e] = pc[e]
    BY <1>2 DEF RunScript, Reset, Typing, Shape, Busy
  <2>3. \A l \in 1..MaxLines :
           /\ i'[d] < l \/ (i'[d] = l /\ pc'[d] = "next") => i[d] < l
           /\ d \in Pending(l)' => d \in Pending(l) \/ l = i[d]
    BY <2>2 DEF Pending, Busy
  <2> QED BY <2>1, <2>2, <2>3, StartCount
<1> QED BY <1>1, <1>2

LEMMA StepCount ==
  ASSUME Typing, AllCounted, NEW d \in Dispatcher,
         Step(d) \/ ScriptEnds(d) \/ Compile(d) \/ CompileFails(d) \/ LaunchEnds(d)
         \/ LaunchFails(d) \/ Crash(d)
  PROVE  AllCounted'
<1> USE DEF ghosts
<1>0. pc \in [Dispatcher -> {"idle", "next"} \union Busy] /\ i[d] \in Nat /\ MaxLines \in Nat
  BY RunFacts, BoundsAssumption DEF Typing, Shape
<1>a. ASSUME UNCHANGED <<carried, begun, results, n, i, answers>>,
             pc[d] \in Busy, pc'[d] \in Busy, \A e \in Dispatcher \ {d} : pc'[e] = pc[e]
      PROVE  AllCounted'
  <2>1. ASSUME NEW l \in 1..MaxLines
        PROVE  /\ d \in Ahead(l)' => d \in Ahead(l)
               /\ d \in Pending(l)' => d \in Pending(l)
    BY <1>a DEF Ahead, Pending, Busy
  <2>2. /\ UNCHANGED <<carried, begun, results>>
        /\ \A e \in Dispatcher \ {d} :
             pc'[e] = pc[e] /\ n'[e] = n[e] /\ i'[e] = i[e] /\ answers'[e] = answers[e]
    BY <1>a
  <2> QED BY <2>1, <2>2, OneRunQuiet
<1>b. ASSUME Stop(d), UNCHANGED <<carried, begun, results>>
      PROVE  AllCounted'
  <2>1. \A l \in 1..MaxLines : d \notin Ahead(l)' /\ d \notin Pending(l)'
    BY <1>b, StopFacts DEF Ahead, Pending, Carried, Busy
  <2> QED BY <1>b, <2>1, StopFacts, OneRunQuiet
<1>1. CASE Skip(d)
  <2>1. /\ pc[d] = "next" /\ i[d] <= n[d] /\ pc'[d] = "next" /\ i'[d] = i[d] + 1
        /\ UNCHANGED <<carried, begun, results, n, answers>>
        /\ \A e \in Dispatcher \ {d} : pc'[e] = pc[e] /\ i'[e] = i[e]
    BY <1>1 DEF Skip, At, Advance, Typing, Shape
  <2>2. ASSUME NEW l \in 1..MaxLines
        PROVE  /\ d \in Ahead(l)' => d \in Ahead(l)
               /\ d \in Pending(l)' => d \in Pending(l)
    BY <1>0, <2>1 DEF Ahead, Pending, Busy
  <2>3. /\ UNCHANGED <<carried, begun, results>>
        /\ \A e \in Dispatcher \ {d} :
             pc'[e] = pc[e] /\ n'[e] = n[e] /\ i'[e] = i[e] /\ answers'[e] = answers[e]
    BY <2>1
  <2> QED BY <2>2, <2>3, OneRunQuiet
<1>2. CASE Unknown(d) \/ DryRun(d)
  BY <1>2, AnswerCount DEF Unknown, DryRun, At, Statuses
<1>3. CASE EvaluateWorkers(d) \/ RunScript(d) \/ Reset(d)
  BY <1>3, StartedCount
<1>4. CASE Remove(d) \/ Launch(d)
  BY <1>0, <1>4, <1>a DEF Remove, Launch, Busy
<1>5. CASE Compile(d)
  <2>1. CASE Answer(d, "success")
    BY <1>5, <2>1, AnswerCount, RunFacts DEF Compile, Busy, Statuses
  <2>2. CASE ~Answer(d, "success")
    BY <1>0, <1>5, <2>2, <1>a DEF Compile, Busy
  <2> QED BY <2>1, <2>2
<1>6. CASE ScriptEnds(d)
  BY <1>6, AnswerCount, RunFacts DEF ScriptEnds, Busy, Statuses
<1>7. CASE CompileFails(d) \/ LaunchEnds(d)
  BY <1>7, AnswerCount, RunFacts DEF CompileFails, LaunchEnds, Busy, Statuses
<1>8. CASE LaunchFails(d) \/ Timeout(d)
  BY <1>8, AnswerCount, RunFacts DEF LaunchFails, Timeout, CutLoose, Busy, Statuses
<1>9. CASE Die(d) \/ Crash(d)
  BY <1>9, <1>b DEF Die, Crash, CutLoose
<1>10. CASE Report(d)
  BY <1>10, ReportCount
<1> QED BY <1>1, <1>2, <1>3, <1>4, <1>5, <1>6, <1>7, <1>8, <1>9, <1>10 DEF Step

LEMMA NextCount == Typing /\ AllCounted /\ [Next]_vars => AllCounted'
<1> SUFFICES ASSUME Typing, AllCounted, [Next]_vars PROVE AllCounted'
  OBVIOUS
<1>1. ASSUME UNCHANGED <<carried, begun, results, pc, n, i, answers>>
      PROVE  AllCounted'
  <2>1. \A l \in 1..MaxLines : Ahead(l)' = Ahead(l) /\ Pending(l)' = Pending(l)
    BY <1>1 DEF Ahead, Pending
  <2> QED BY <1>1, <2>1, QuietCount DEF AllCounted
<1>2. CASE UNCHANGED vars
  BY <1>1, <1>2 DEF vars, run, ghosts
<1>3. CASE Next
  <2>1. ASSUME NEW line \in LineKind, AppendLine(line)
        PROVE  AllCounted'
    BY <1>1, <2>1 DEF AppendLine, run, ghosts
  <2>2. ASSUME NEW d \in Dispatcher, NEW x \in Issue, LaunchWorker(d, x) \/ WorkerEnds(d, x)
        PROVE  AllCounted'
    BY <1>1, <2>2 DEF LaunchWorker, WorkerEnds, run, ghosts
  <2>3. ASSUME NEW x \in Issue, StrayLaunches(x) \/ OrphanEnds(x)
        PROVE  AllCounted'
    BY <1>1, <2>3 DEF StrayLaunches, OrphanEnds, run, ghosts
  <2> QED BY <1>3, <2>1, <2>2, <2>3, BeginCount, StepCount DEF Next
<1> QED BY <1>2, <1>3

(* A command is started at most once by every run that read it, and no more *)
(* results tell of it than times it was started, whatever errors, timeouts, *)
(* crashes and other runs come between.                                     *)
THEOREM StartedOncePerRun == Spec => []OncePerRun
<1>1. Typing /\ AllCounted => OncePerRun
  <2> SUFFICES ASSUME Typing, AllCounted, NEW l \in 1..MaxLines
               PROVE  AnsweredCarried(l) <= carried[l] /\ carried[l] <= begun[l]
    BY DEF OncePerRun
  <2>1. AnsweredCarried(l) = Cardinality(Reported(l))
    BY DEF AnsweredCarried, Reported, Carried
  <2>2. Cardinality(Ahead(l)) \in Nat /\ Cardinality(Pending(l)) \in Nat
    BY FS_CardinalityType DEF AllCounted, Counted
  <2> QED BY <2>1, <2>2, CountTypes DEF AllCounted, Counted
<1>2. Spec => []AllCounted
  BY InitTyping, NextTyping, InitCount, NextCount, PTL DEF Spec
<1> QED BY <1>1, <1>2, Typed, PTL
=============================================================================
