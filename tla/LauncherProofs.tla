--------------------------- MODULE LauncherProofs ---------------------------
(***************************************************************************)
(* The launcher for any number of runs, monitors and tasks.                *)
(*                                                                         *)
(* Typing is the type invariant with what makes it inductive: a run plans  *)
(* within its batch, and whoever is about to write holds a manifest.       *)
(***************************************************************************)
EXTENDS Launcher, FiniteSetTheorems, TLAPS

-----------------------------------------------------------------------------
(***************************************************************************)
(* What one step of Build-Waves does to a plan, for any plan and any task. *)
(***************************************************************************)

(* Clashing does not depend on which of the two tasks comes first.         *)
LEMMA ClashSymmetric ==
  ASSUME NEW s \in Task, NEW t \in Task
  PROVE  Clash(s, t) <=> Clash(t, s)
BY DEF Clash, SameGroup, LockOverlap, BothHighRisk

(* Joining a wave keeps the shape of the plan and lengthens that wave.     *)
LEMMA JoinShape ==
  ASSUME NEW ws \in Seq(Seq(Task)), NEW t \in Task, NEW i \in DOMAIN ws
  PROVE  /\ Join(ws, i, t) \in Seq(Seq(Task))
         /\ DOMAIN Join(ws, i, t) = DOMAIN ws
         /\ Len(Join(ws, i, t)) = Len(ws)
         /\ ws[i] \in Seq(Task)
         /\ Join(ws, i, t)[i] = Append(ws[i], t)
         /\ \A j \in DOMAIN ws : j # i => Join(ws, i, t)[j] = ws[j]
BY DEF Join

(* Opening a wave adds a one-task wave after the others.                   *)
LEMMA OpenShape ==
  ASSUME NEW ws \in Seq(Seq(Task)), NEW t \in Task
  PROVE  /\ Open(ws, t) \in Seq(Seq(Task))
         /\ Len(Open(ws, t)) = Len(ws) + 1
         /\ DOMAIN Open(ws, t) = 1 .. Len(ws) + 1
         /\ Open(ws, t)[Len(ws) + 1] = <<t>>
         /\ \A j \in DOMAIN ws : Open(ws, t)[j] = ws[j]
BY DEF Open

(* The elements of a lengthened wave.                                      *)
LEMMA AppendElements ==
  ASSUME NEW s \in Seq(Task), NEW t \in Task
  PROVE  /\ Append(s, t) \in Seq(Task)
         /\ Len(Append(s, t)) = Len(s) + 1
         /\ DOMAIN Append(s, t) = 1 .. Len(s) + 1
         /\ Append(s, t)[Len(s) + 1] = t
         /\ \A k \in DOMAIN s : Append(s, t)[k] = s[k]
OBVIOUS

(* A task joins a wave it fits in without bringing a clash into it.        *)
LEMMA JoinClashFree ==
  ASSUME NEW ws \in Seq(Seq(Task)), NEW t \in Task, NEW c \in Nat,
         NEW i \in DOMAIN ws, Fits(ws[i], t, c), ClashFree(ws)
  PROVE  ClashFree(Join(ws, i, t))
<1> DEFINE new == Join(ws, i, t)
<1>1. SUFFICES ASSUME NEW j \in DOMAIN new,
                      NEW k \in DOMAIN new[j], NEW l \in DOMAIN new[j], k # l
               PROVE  ~Clash(new[j][k], new[j][l])
  BY DEF ClashFree
<1>2. CASE j # i
  BY <1>1, <1>2, JoinShape DEF ClashFree
<1>3. CASE j = i
  <2>1. /\ new[j] = Append(ws[i], t) /\ ws[i] \in Seq(Task)
    BY <1>3, JoinShape
  <2>2. DOMAIN ws[i] = 1 .. Len(ws[i]) /\ Len(ws[i]) \in Nat
    BY <2>1
  <2>3. CASE k \in DOMAIN ws[i] /\ l \in DOMAIN ws[i]
    BY <1>1, <2>1, <2>3, AppendElements DEF ClashFree
  <2>4. CASE k = Len(ws[i]) + 1
    <3>1. l \in DOMAIN ws[i]
      BY <1>1, <2>1, <2>2, <2>4, AppendElements
    <3>2. new[j][k] = t /\ new[j][l] = ws[i][l] /\ ws[i][l] \in Task
      BY <2>1, <2>2, <2>4, <3>1, AppendElements
    <3>3. ~Clash(ws[i][l], t)
      BY <3>1 DEF Fits
    <3> QED BY <3>2, <3>3, ClashSymmetric
  <2>5. CASE l = Len(ws[i]) + 1
    <3>1. k \in DOMAIN ws[i]
      BY <1>1, <2>1, <2>2, <2>5, AppendElements
    <3>2. new[j][l] = t /\ new[j][k] = ws[i][k]
      BY <2>1, <2>2, <2>5, <3>1, AppendElements
    <3> QED BY <3>1, <3>2 DEF Fits
  <2> QED
    BY <1>1, <2>1, <2>2, <2>3, <2>4, <2>5, AppendElements
<1> QED BY <1>2, <1>3

(* A wave of one task has no clash.                                        *)
LEMMA OpenClashFree ==
  ASSUME NEW ws \in Seq(Seq(Task)), NEW t \in Task, ClashFree(ws)
  PROVE  ClashFree(Open(ws, t))
<1> DEFINE new == Open(ws, t)
<1>1. SUFFICES ASSUME NEW j \in DOMAIN new,
                      NEW k \in DOMAIN new[j], NEW l \in DOMAIN new[j], k # l
               PROVE  ~Clash(new[j][k], new[j][l])
  BY DEF ClashFree
<1>2. CASE j \in DOMAIN ws
  BY <1>1, <1>2, OpenShape DEF ClashFree
<1>3. CASE j = Len(ws) + 1
  BY <1>1, <1>3, OpenShape
<1> QED BY <1>2, <1>3, OpenShape

(* No wave outgrows its cap, and none is empty.                            *)
LEMMA JoinCapped ==
  ASSUME NEW ws \in Seq(Seq(Task)), NEW t \in Task, NEW c \in Nat,
         NEW i \in DOMAIN ws, Fits(ws[i], t, c), Capped(ws, c)
  PROVE  Capped(Join(ws, i, t), c)
<1>1. SUFFICES ASSUME NEW j \in DOMAIN ws
               PROVE  Len(Join(ws, i, t)[j]) \in 1 .. c
  BY JoinShape DEF Capped
<1>2. CASE j # i
  BY <1>2, JoinShape DEF Capped
<1>3. CASE j = i
  <2>1. Len(Join(ws, i, t)[i]) = Len(ws[i]) + 1 /\ Len(ws[i]) \in Nat
    BY JoinShape, AppendElements
  <2> QED BY <1>3, <2>1 DEF Fits
<1> QED BY <1>2, <1>3

LEMMA OpenCapped ==
  ASSUME NEW ws \in Seq(Seq(Task)), NEW t \in Task, NEW c \in Nat \ {0},
         Capped(ws, c)
  PROVE  Capped(Open(ws, t), c)
<1>1. SUFFICES ASSUME NEW j \in 1 .. Len(ws) + 1
               PROVE  Len(Open(ws, t)[j]) \in 1 .. c
  BY OpenShape DEF Capped
<1>2. CASE j \in DOMAIN ws
  BY <1>2, OpenShape DEF Capped
<1>3. CASE j = Len(ws) + 1
  <2>1. Open(ws, t)[j] = <<t>>
    BY <1>3, OpenShape
  <2>2. Len(<<t>>) = 1
    OBVIOUS
  <2> QED BY <2>1, <2>2
<1> QED BY <1>2, <1>3

-----------------------------------------------------------------------------
Writing == {"reset.fill", "record.fill", "check", "poll.fill"}

MemHeld == \A p \in Actor : pc[p] \in Writing => mem[p] \in Projection

InBatch ==
  \A r \in Run :
    /\ pc[r] \in {"gate", "capacity"} => plans[r] # <<>> /\ ix[r] = 1
    /\ pc[r] \in {"plan", "seq", "seq.wait"} => ix[r] \in DOMAIN plans[r]
    /\ pc[r] \in {"idle", "reset"} => ix[r] = 1

Typing == TypeOK /\ MemHeld /\ InBatch

LEMMA ActorFacts == /\ Run \subseteq Actor /\ Monitor \subseteq Actor
                    /\ \A r \in Run : r \notin Monitor
BY LauncherAssumption DEF Actor

(* A batch is a nonempty sequence of the run's tasks, each named once.     *)
LEMMA BatchFacts ==
  ASSUME NEW r \in Run, NEW b \in BatchOf(r)
  PROVE  /\ b \in Seq(Task) /\ b # <<>>
         /\ \A i \in DOMAIN b : owner[b[i]] = r
         /\ \A i, j \in DOMAIN b : b[i] = b[j] => i = j
<1>1. PICK n \in 1 .. Cardinality(Task) : b \in [1 .. n -> Task]
  BY DEF BatchOf
<1>2. b \in Seq(Task) /\ Len(b) = n /\ n \in Nat /\ n >= 1
  BY <1>1
<1> QED BY <1>2 DEF BatchOf

LEMMA InitTyping == Init => Typing
<1> SUFFICES ASSUME Init PROVE Typing
  OBVIOUS
<1>1. TypeOK
  <2>1. <<>> \in Seq(Task) /\ <<>> \in Seq(Seq(Task))
    OBVIOUS
  <2>2. plans \in [Run -> Seq(Task)] /\ waves \in [Run -> Seq(Seq(Task))]
    BY <2>1 DEF Init
  <2>3. file \in Projection /\ mem \in [Actor -> Projection \cup {NoManifest}]
    BY DEF Init, Projection, Status
  <2>4. pc \in [Actor -> Labels] /\ mode \in [Run -> Modes \cup {"none"}]
    BY DEF Init, Labels
  <2>5. /\ gate \in [Run -> {"unasked", "pass", "batch", "running", "policy", "no-report"}]
        /\ cap \in [Run -> Nat \ {0}]
        /\ at \in [Run -> Nat \ {0}] /\ ix \in [Run -> Nat \ {0}]
    BY DEF Init
  <2>6. /\ torn \in BOOLEAN /\ old \subseteq Task
        /\ proc \in [Task -> {"none", "working", "exited"}]
        /\ result \in [Task -> {"none", "partial", "ok", "fail"}]
    BY DEF Init
  <2> QED BY <2>2, <2>3, <2>4, <2>5, <2>6 DEF TypeOK
<1>2. MemHeld /\ InBatch
  BY ActorFacts DEF Init, MemHeld, InBatch, Writing
<1> QED BY <1>1, <1>2 DEF Typing

(* Counting up keeps a counter positive.                                   *)
LEMMA CountUp ==
  ASSUME NEW f \in [Run -> Nat \ {0}], NEW r \in Run
  PROVE  [f EXCEPT ![r] = f[r] + 1] \in [Run -> Nat \ {0}]
OBVIOUS

(* The file-facing rules give statuses.                                    *)
LEMMA RuleTypes ==
  ASSUME NEW t \in Task, NEW s \in Status
  PROVE  ByResult(t, s) \in Status /\ ByProcess(t, s) \in Status
BY DEF ByResult, ByProcess, Status, Unsettled

LEMMA RunStepTyping ==
  ASSUME Typing, NEW r \in Run, Begin(r) \/ RunStep(r) \/ Crash(r)
  PROVE  Typing'
<1> USE ActorFacts DEF Typing
<1>0. r \in Actor
  OBVIOUS
<1>1. CASE Begin(r)
  <2>1. PICK m \in Modes, b \in BatchOf(r) :
          /\ mode' = [mode EXCEPT ![r] = m]
          /\ plans' = [plans EXCEPT ![r] = b]
          /\ pc' = [pc EXCEPT ![r] = IF m = "sequential" /\ DuplicateNonDocGroup(b)
                                     THEN "failed" ELSE "gate"]
    BY <1>1 DEF Begin, Goto
  <2>2. b \in Seq(Task) /\ b # <<>>
    BY BatchFacts
  <2>3. TypeOK'
    BY <1>0, <1>1, <2>1, <2>2 DEF Begin, TypeOK, Labels, workerVars
  <2>4. MemHeld'
    BY <1>0, <1>1, <2>1 DEF Begin, TypeOK, MemHeld, Writing
  <2>5. InBatch'
    BY <1>0, <1>1, <2>1, <2>2 DEF Begin, TypeOK, InBatch
  <2> QED BY <2>3, <2>4, <2>5
<1>2. CASE GatePass(r) \/ GateBlock(r) \/ GateUnparsed(r)
  <2>1. \E why \in {"pass", "batch", "running", "policy", "no-report"} :
          gate' = [gate EXCEPT ![r] = why]
    BY <1>2 DEF GatePass, GateBlock, GateUnparsed
  <2>2. \E l \in {"capacity", "failed"} : pc' = [pc EXCEPT ![r] = l]
    BY <1>2 DEF GatePass, GateBlock, GateUnparsed, Goto
  <2>3. UNCHANGED <<mode, plans, cap, waves, at, ix, mem, file, torn, workerVars>>
    BY <1>2 DEF GatePass, GateBlock, GateUnparsed
  <2>4. pc[r] = "gate"
    BY <1>2 DEF GatePass, GateBlock, GateUnparsed
  <2>5. TypeOK'
    BY <1>0, <2>1, <2>2, <2>3 DEF TypeOK, Labels, workerVars
  <2>6. MemHeld'
    BY <1>0, <2>2, <2>3 DEF TypeOK, MemHeld, Writing
  <2>7. InBatch'
    BY <1>0, <2>2, <2>3, <2>4 DEF TypeOK, InBatch
  <2> QED BY <2>5, <2>6, <2>7
<1>3. CASE Capacity(r)
  <2>1. PICK slots \in 0 .. MaxSlots :
          /\ cap' = [cap EXCEPT ![r] = IF slots = 0 THEN 1 ELSE slots]
          /\ \E l \in {"seq", "reset", "done", "failed", "plan"} : pc' = [pc EXCEPT ![r] = l]
    BY <1>3 DEF Capacity, Goto
  <2>2. TypeOK'
    BY <1>0, <1>3, <2>1, LauncherAssumption DEF Capacity, TypeOK, Labels, workerVars
  <2>3. MemHeld'
    BY <1>0, <1>3, <2>1 DEF Capacity, TypeOK, MemHeld, Writing
  <2>4. 1 \in DOMAIN plans[r]
    BY <1>3 DEF Capacity, TypeOK, InBatch
  <2>5. InBatch'
    BY <1>0, <1>3, <2>1, <2>4 DEF Capacity, TypeOK, InBatch
  <2> QED BY <2>2, <2>3, <2>5
<1>4. CASE PlanTask(r)
  <2>1. plans[r][ix[r]] \in Task /\ waves[r] \in Seq(Seq(Task)) /\ plans[r] \in Seq(Task)
    BY <1>4 DEF PlanTask, TypeOK, InBatch
  <2>2. PICK w \in Seq(Seq(Task)) : waves' = [waves EXCEPT ![r] = w]
    <3>1. CASE waves' = [waves EXCEPT ![r] = Open(waves[r], plans[r][ix[r]])]
      BY <2>1, <3>1, OpenShape
    <3>2. ASSUME NEW i \in DOMAIN waves[r],
                 waves' = [waves EXCEPT ![r] = Join(waves[r], i, plans[r][ix[r]])]
          PROVE  \E w \in Seq(Seq(Task)) : waves' = [waves EXCEPT ![r] = w]
      BY <2>1, <3>2, JoinShape
    <3> QED BY <1>4, <3>1, <3>2 DEF PlanTask
  <2>3. PICK l \in {"plan", "reset"}, n \in 1 .. Len(plans[r]) :
          /\ pc' = [pc EXCEPT ![r] = l]
          /\ ix' = [ix EXCEPT ![r] = n]
          /\ l = "reset" => n = 1
    <3>1. ix[r] \in 1 .. Len(plans[r]) /\ pc[r] = "plan"
      BY <1>4, <2>1 DEF PlanTask, InBatch
    <3>2. CASE ix[r] = Len(plans[r])
      BY <1>4, <3>1, <3>2 DEF PlanTask, Goto
    <3>3. CASE ix[r] # Len(plans[r])
      <4>1. pc' = [pc EXCEPT ![r] = "plan"]
        BY <1>0, <1>4, <3>1, <3>3 DEF PlanTask, TypeOK
      <4>2. ix' = [ix EXCEPT ![r] = ix[r] + 1] /\ ix[r] + 1 \in 1 .. Len(plans[r])
        BY <1>4, <2>1, <3>1, <3>3 DEF PlanTask
      <4> QED BY <4>1, <4>2
    <3> QED BY <3>2, <3>3
  <2>4. UNCHANGED <<mode, plans, gate, cap, at, mem, file, torn, workerVars>>
    BY <1>4 DEF PlanTask
  <2>5. TypeOK'
    BY <1>0, <2>2, <2>3, <2>4 DEF TypeOK, Labels, workerVars
  <2>6. MemHeld'
    BY <1>0, <2>3, <2>4 DEF TypeOK, MemHeld, Writing
  <2>7. InBatch'
    BY <1>0, <2>1, <2>3, <2>4 DEF TypeOK, InBatch
  <2> QED BY <2>5, <2>6, <2>7
<1>5. CASE Reset(r)
  <2>1. TypeOK' /\ mem'[r] \in Projection
    BY <1>0, <1>5 DEF Reset, Goto, TypeOK, Labels, Projection, Status, launchVars, workerVars
  <2>2. MemHeld'
    BY <1>0, <1>5, <2>1 DEF Reset, Goto, TypeOK, MemHeld
  <2>3. InBatch'
    BY <1>0, <1>5 DEF Reset, Goto, TypeOK, InBatch, launchVars
  <2> QED BY <2>1, <2>2, <2>3
<1>6. CASE FillReset(r)
  <2>1. mem[r] \in Projection
    BY <1>0, <1>6 DEF FillReset, MemHeld, Writing
  <2>2. TypeOK'
    BY <1>0, <1>6, <2>1 DEF FillReset, Goto, TypeOK, Labels, launchVars, workerVars
  <2>3. MemHeld' /\ InBatch'
    BY <1>0, <1>6 DEF FillReset, Goto, TypeOK, MemHeld, Writing, InBatch, launchVars
  <2> QED BY <2>2, <2>3
<1>7. CASE Launch(r) \/ WorktreeFails(r) \/ RecordFails(r) \/ ReadFails(r) \/ Crash(r)
  <2>1. TypeOK'
    BY <1>0, <1>7 DEF Launch, WorktreeFails, RecordFails, ReadFails, Crash, Goto,
      TypeOK, Labels, launchVars, workerVars
  <2>2. MemHeld' /\ InBatch'
    BY <1>0, <1>7 DEF Launch, WorktreeFails, RecordFails, ReadFails, Crash, Goto,
      TypeOK, MemHeld, Writing, InBatch, launchVars
  <2> QED BY <2>1, <2>2
<1>8. CASE Record(r)
  <2>1. mem[r] \in Projection
    BY <1>0, <1>8 DEF Record, TypeOK
  <2>2. mem'[r] \in Projection /\ mem' \in [Actor -> Projection \cup {NoManifest}]
    BY <1>0, <1>8, <2>1 DEF Record, TypeOK, Projection, Status
  <2>3. TypeOK'
    BY <1>0, <1>8, <2>2 DEF Record, Goto, TypeOK, Labels, launchVars, workerVars
  <2>4. MemHeld' /\ InBatch'
    BY <1>0, <1>8, <2>2 DEF Record, Goto, TypeOK, MemHeld, Writing, InBatch, launchVars
  <2> QED BY <2>3, <2>4
<1>9. CASE FillRecord(r)
  <2>1. mem[r] \in Projection
    BY <1>0, <1>9 DEF FillRecord, MemHeld, Writing
  <2>2. \E l \in {"poll", "launch"} : pc' = [pc EXCEPT ![r] = l]
    BY <1>9 DEF FillRecord, Goto
  <2>3. ix' = ix \/ ix' = [ix EXCEPT ![r] = ix[r] + 1]
    BY <1>9 DEF FillRecord
  <2>4. /\ file' = mem[r] /\ torn' = FALSE
        /\ UNCHANGED <<mode, plans, gate, cap, waves, at, mem, workerVars>>
    BY <1>9 DEF FillRecord
  <2>5. ix' \in [Run -> Nat \ {0}] /\ pc' \in [Actor -> Labels]
    <3>1. ix \in [Run -> Nat \ {0}]
      BY DEF TypeOK
    <3>2. ix' \in [Run -> Nat \ {0}]
      BY <2>3, <3>1, CountUp
    <3>3. pc' \in [Actor -> Labels]
      BY <1>0, <2>2 DEF TypeOK, Labels
    <3> QED BY <3>2, <3>3
  <2>6. TypeOK'
    BY <2>1, <2>4, <2>5 DEF TypeOK, workerVars
  <2>7. MemHeld' /\ InBatch'
    BY <1>0, <2>2, <2>3, <2>4 DEF TypeOK, MemHeld, Writing, InBatch
  <2> QED BY <2>6, <2>7
<1>10. CASE Reread(r)
  <2>1. \E l \in {"done", "launch"} : pc' = [pc EXCEPT ![r] = l]
    BY <1>10 DEF Reread, Goto
  <2>2. /\ ix' = ix \/ ix' = [ix EXCEPT ![r] = 1]
        /\ at' = at \/ at' = [at EXCEPT ![r] = at[r] + 1]
        /\ \/ mem' = mem
           \/ mem' = [mem EXCEPT ![r] = NoManifest]
           \/ mem' = [mem EXCEPT ![r] = file]
    BY <1>10 DEF Reread
  <2>3. UNCHANGED <<mode, plans, gate, cap, waves, file, torn, workerVars>>
    BY <1>10 DEF Reread
  <2>4. ix' \in [Run -> Nat \ {0}] /\ at' \in [Run -> Nat \ {0}]
    <3>1. ix \in [Run -> Nat \ {0}] /\ at \in [Run -> Nat \ {0}]
      BY DEF TypeOK
    <3>2. ix' \in [Run -> Nat \ {0}]
      BY <2>2, <3>1
    <3>3. at' \in [Run -> Nat \ {0}]
      BY <2>2, <3>1, CountUp
    <3> QED BY <3>2, <3>3
  <2>5. mem' \in [Actor -> Projection \cup {NoManifest}] /\ pc' \in [Actor -> Labels]
    <3>1. mem' \in [Actor -> Projection \cup {NoManifest}]
      <4>1. mem \in [Actor -> Projection \cup {NoManifest}] /\ file \in Projection
        BY DEF TypeOK
      <4> QED BY <1>0, <2>2, <4>1
    <3>2. pc' \in [Actor -> Labels]
      BY <1>0, <2>1 DEF TypeOK, Labels
    <3> QED BY <3>1, <3>2
  <2>6. TypeOK'
    BY <2>3, <2>4, <2>5 DEF TypeOK, workerVars
  <2>7. MemHeld' /\ InBatch'
    BY <1>0, <2>1, <2>2, <2>3 DEF TypeOK, MemHeld, Writing, InBatch
  <2> QED BY <2>6, <2>7
<1>11. CASE SeqLaunch(r)
  <2>1. TypeOK'
    BY <1>0, <1>11 DEF SeqLaunch, Goto, TypeOK, Labels, launchVars
  <2>2. MemHeld' /\ InBatch'
    BY <1>0, <1>11 DEF SeqLaunch, Goto, TypeOK, MemHeld, Writing, InBatch, launchVars
  <2> QED BY <2>1, <2>2
<1>12. CASE SeqNext(r)
  <2>1. UNCHANGED <<mode, plans, gate, cap, waves, at, mem, file, torn, workerVars>>
    BY <1>12 DEF SeqNext
  <2>2. CASE ix[r] = Len(plans[r])
    <3>1. pc' = [pc EXCEPT ![r] = "done"] /\ ix' = ix
      BY <1>12, <2>2 DEF SeqNext, Goto
    <3>2. TypeOK'
      BY <1>0, <2>1, <3>1 DEF TypeOK, Labels, workerVars
    <3>3. MemHeld' /\ InBatch'
      BY <1>0, <2>1, <3>1 DEF TypeOK, MemHeld, Writing, InBatch
    <3> QED BY <3>2, <3>3
  <2>3. CASE ix[r] # Len(plans[r])
    <3>1. pc' = [pc EXCEPT ![r] = "seq"] /\ ix' = [ix EXCEPT ![r] = ix[r] + 1]
      BY <1>12, <2>3 DEF SeqNext, Goto
    <3>2. ix[r] \in 1 .. Len(plans[r]) /\ Len(plans[r]) \in Nat
      BY <1>12 DEF SeqNext, TypeOK, InBatch
    <3>3. ix[r] + 1 \in DOMAIN plans[r]
      BY <2>3, <3>2 DEF TypeOK
    <3>4. TypeOK'
      BY <1>0, <2>1, <3>1 DEF TypeOK, Labels, workerVars
    <3>5. MemHeld' /\ InBatch'
      BY <1>0, <2>1, <3>1, <3>3 DEF TypeOK, MemHeld, Writing, InBatch
    <3> QED BY <3>4, <3>5
  <2> QED BY <2>2, <2>3
<1> QED
  BY <1>1, <1>2, <1>3, <1>4, <1>5, <1>6, <1>7, <1>8, <1>9, <1>10, <1>11, <1>12 DEF RunStep

LEMMA PollStepTyping ==
  ASSUME Typing, NEW p \in Actor, PollStep(p)
  PROVE  Typing'
<1> USE ActorFacts DEF Typing
<1>1. CASE ReadResults(p)
  <2>1. [t \in Task |-> ByResult(t, file[t])] \in Projection
    BY RuleTypes DEF TypeOK, Projection
  <2>2. TypeOK'
    BY <1>1, <2>1 DEF ReadResults, Goto, TypeOK, Labels, launchVars, workerVars
  <2>3. MemHeld' /\ InBatch'
    BY <1>1, <2>1 DEF ReadResults, Goto, TypeOK, MemHeld, Writing, InBatch, launchVars
  <2> QED BY <2>2, <2>3
<1>2. CASE CheckProcesses(p)
  <2>1. mem[p] \in Projection
    BY <1>2 DEF CheckProcesses, MemHeld, Writing
  <2>2. [t \in Task |-> ByProcess(t, mem[p][t])] \in Projection
    BY <2>1, RuleTypes DEF Projection
  <2>3. TypeOK'
    BY <1>2, <2>2 DEF CheckProcesses, Goto, TypeOK, Labels, launchVars, workerVars
  <2>4. MemHeld' /\ InBatch'
    BY <1>2, <2>2 DEF CheckProcesses, Goto, TypeOK, MemHeld, Writing, InBatch, launchVars
  <2> QED BY <2>3, <2>4
<1>3. CASE FillPoll(p)
  <2>1. mem[p] \in Projection
    BY <1>3 DEF FillPoll, MemHeld, Writing
  <2>2. TypeOK'
    BY <1>3, <2>1 DEF FillPoll, Goto, TypeOK, Labels, launchVars, workerVars
  <2>3. MemHeld' /\ InBatch'
    BY <1>3 DEF FillPoll, Goto, TypeOK, MemHeld, Writing, InBatch, launchVars
  <2> QED BY <2>2, <2>3
<1> QED BY <1>1, <1>2, <1>3 DEF PollStep

LEMMA WorkerStepTyping ==
  ASSUME Typing, NEW t \in Task, WorkerStep(t)
  PROVE  Typing'
<1> USE DEF Typing
<1>1. TypeOK'
  BY DEF WorkerStep, BeginResult, EndResult, Exit, StopWorker, GrowOld, TypeOK, launchVars
<1>2. MemHeld' /\ InBatch'
  BY DEF WorkerStep, BeginResult, EndResult, Exit, StopWorker, GrowOld, MemHeld, InBatch, launchVars
<1> QED BY <1>1, <1>2

LEMMA StutterTyping ==
  ASSUME Typing, UNCHANGED vars
  PROVE  Typing'
BY DEF Typing, TypeOK, MemHeld, InBatch, vars, launchVars, workerVars

LEMMA NextTyping == Typing /\ [Next]_vars => Typing'
BY RunStepTyping, PollStepTyping, WorkerStepTyping, StutterTyping DEF Next

(* The launcher's state stays within its types, for any number of runs,    *)
(* monitors and tasks, however they overlap and wherever they crash.       *)
THEOREM TypeCorrect == Spec => []TypeOK
<1>1. Typing => TypeOK
  BY DEF Typing
<1> QED BY <1>1, InitTyping, NextTyping, PTL DEF Spec
-----------------------------------------------------------------------------
(***************************************************************************)
(* Why the file never lies about a worker, and why waves never overlap.    *)
(*                                                                         *)
(* Both rest on RunInv, what a run owes to its own program order: its      *)
(* batch and its waves name each task once, and the tasks ahead of its     *)
(* position were never started.  Every other actor keeps RunInv(r), as no  *)
(* other actor starts a task of r.                                         *)
(***************************************************************************)
Early == {"idle", "gate", "capacity", "plan", "reset", "reset.fill"}
Filling == {"launch", "record", "record.fill"}
Waiting == {"poll", "check", "poll.fill", "reread"}

Batch(r) ==
  /\ \A k \in DOMAIN plans[r] : owner[plans[r][k]] = r
  /\ \A k, l \in DOMAIN plans[r] : plans[r][k] = plans[r][l] => k = l

Placed(r) ==
  /\ pc[r] \in {"idle", "gate", "capacity", "seq", "seq.wait"} => waves[r] = <<>>
  /\ \A i \in DOMAIN waves[r] : \A k \in DOMAIN waves[r][i] :
       /\ \E n \in DOMAIN plans[r] :
            waves[r][i][k] = plans[r][n] /\ (pc[r] = "plan" => n < ix[r])
       /\ \A j \in DOMAIN waves[r] : \A l \in DOMAIN waves[r][j] :
            waves[r][i][k] = waves[r][j][l] => i = j /\ k = l

Position(r) ==
  /\ Capped(waves[r], cap[r])
  /\ pc[r] \in Early => at[r] = 1
  /\ pc[r] = "plan" => ix[r] = 1 \/ waves[r] # <<>>
  /\ pc[r] \in {"reset", "reset.fill"} =>
       ix[r] = 1 /\ (mode[r] = "dry-run" \/ waves[r] # <<>>)
  /\ pc[r] \in Filling => at[r] \in DOMAIN waves[r] /\ ix[r] \in DOMAIN waves[r][at[r]]
  /\ pc[r] \in Waiting => at[r] \in DOMAIN waves[r]

\* Place k of wave i is ahead of run r.
Ahead(r, i, k) ==
  \/ i > at[r]
  \/ i = at[r] /\ pc[r] = "launch" /\ k >= ix[r]
  \/ i = at[r] /\ pc[r] \in {"record", "record.fill"} /\ k > ix[r]

NotStarted(r) ==
  /\ pc[r] \in Early => \A t \in Task : owner[t] = r => proc[t] = "none"
  /\ \A i \in DOMAIN waves[r] : \A k \in DOMAIN waves[r][i] :
       Ahead(r, i, k) => proc[waves[r][i][k]] = "none"
  /\ pc[r] = "seq" =>
       \A k \in DOMAIN plans[r] : k >= ix[r] => proc[plans[r][k]] = "none"
  /\ pc[r] = "seq.wait" =>
       \A k \in DOMAIN plans[r] : k > ix[r] => proc[plans[r][k]] = "none"
  /\ pc[r] = "record" => proc[Current(r)] # "none"

RunInv(r) == Batch(r) /\ Placed(r) /\ Position(r) /\ NotStarted(r)

-----------------------------------------------------------------------------
\* The worker of t was left as it was, or moved on by itself.
Onward(t) ==
  /\ (proc[t] = "none") <=> (proc'[t] = "none")
  /\ proc[t] = "exited" => proc'[t] = "exited"

\* A step that is not one of run r.
Bystander(r) ==
  /\ pc'[r] = pc[r] /\ mode'[r] = mode[r] /\ plans'[r] = plans[r]
  /\ cap'[r] = cap[r] /\ waves'[r] = waves[r] /\ at'[r] = at[r] /\ ix'[r] = ix[r]
  /\ \A t \in Task : owner[t] = r => Onward(t)

(* The tasks of a run are its own.                                         *)
LEMMA PlansOwned ==
  ASSUME Typing, NEW r \in Run, Batch(r), NEW k \in DOMAIN plans[r]
  PROVE  plans[r][k] \in Task /\ owner[plans[r][k]] = r
BY DEF Typing, TypeOK, Batch

LEMMA WavesOwned ==
  ASSUME Typing, NEW r \in Run, RunInv(r),
         NEW i \in DOMAIN waves[r], NEW k \in DOMAIN waves[r][i]
  PROVE  waves[r][i][k] \in Task /\ owner[waves[r][i][k]] = r
<1>1. PICK n \in DOMAIN plans[r] : waves[r][i][k] = plans[r][n]
  BY DEF RunInv, Placed
<1> QED BY <1>1, PlansOwned DEF RunInv

LEMMA BystanderInv ==
  ASSUME Typing, NEW r \in Run, RunInv(r), Bystander(r)
  PROVE  RunInv(r)'
<1>1. Batch(r)' /\ Placed(r)' /\ Position(r)'
  BY DEF RunInv, Bystander, Batch, Placed, Position, Capped
<1>2. NotStarted(r)'
  <2>1. pc'[r] \in Early => \A t \in Task : owner[t] = r => proc'[t] = "none"
    BY DEF RunInv, NotStarted, Bystander, Onward
  <2>2. ASSUME NEW i \in DOMAIN waves[r], NEW k \in DOMAIN waves[r][i], Ahead(r, i, k)'
        PROVE  proc'[waves[r][i][k]] = "none"
    BY <2>2, WavesOwned DEF RunInv, NotStarted, Bystander, Onward, Ahead
  <2>3. ASSUME NEW k \in DOMAIN plans[r], proc[plans[r][k]] = "none"
        PROVE  proc'[plans[r][k]] = "none"
    BY <2>3, PlansOwned DEF RunInv, Bystander, Onward
  <2>4. pc[r] = "record" => proc'[Current(r)] # "none"
    BY WavesOwned DEF RunInv, NotStarted, Position, Filling, Bystander, Onward, Current
  <2> QED
    BY <2>1, <2>2, <2>3, <2>4 DEF RunInv, NotStarted, Bystander, Current
<1> QED BY <1>1, <1>2 DEF RunInv

-----------------------------------------------------------------------------
(* The run's own steps, one lemma per phase.                               *)
LEMMA BeginInv ==
  ASSUME Typing, NEW r \in Run, RunInv(r), Begin(r)
  PROVE  RunInv(r)'
<1> USE ActorFacts DEF Typing
<1>1. PICK m \in Modes, b \in BatchOf(r) :
        /\ mode' = [mode EXCEPT ![r] = m]
        /\ plans' = [plans EXCEPT ![r] = b]
        /\ pc' = [pc EXCEPT ![r] = IF m = "sequential" /\ DuplicateNonDocGroup(b)
                                   THEN "failed" ELSE "gate"]
  BY DEF Begin, Goto
<1>2. plans'[r] = b /\ pc[r] = "idle" /\ pc'[r] \in {"failed", "gate"}
  BY <1>1 DEF Begin, TypeOK
<1>3. Batch(r)'
  BY <1>2, BatchFacts DEF Batch
<1>4. waves[r] = <<>> /\ DOMAIN waves[r] = {}
  BY <1>2 DEF RunInv, Placed
<1>5. UNCHANGED <<gate, cap, waves, at, ix, mem, file, torn, proc, result, old>>
  BY DEF Begin, workerVars
<1>6. Placed(r)'
  BY <1>2, <1>4, <1>5 DEF Placed
<1>7. Position(r)'
  BY <1>2, <1>4, <1>5 DEF RunInv, Position, Capped, Early, Filling, Waiting
<1>8. NotStarted(r)'
  BY <1>2, <1>4, <1>5 DEF RunInv, NotStarted, Early
<1> QED BY <1>3, <1>6, <1>7, <1>8 DEF RunInv

LEMMA GateInv ==
  ASSUME Typing, NEW r \in Run, RunInv(r),
         GatePass(r) \/ GateBlock(r) \/ GateUnparsed(r)
  PROVE  RunInv(r)'
<1> USE ActorFacts DEF Typing
<1>1. /\ pc[r] = "gate" /\ pc'[r] \in {"capacity", "failed"}
      /\ UNCHANGED <<mode, plans, cap, waves, at, ix, proc>>
  BY DEF GatePass, GateBlock, GateUnparsed, Goto, TypeOK, workerVars
<1>2. Batch(r)' /\ Placed(r)'
  BY <1>1 DEF RunInv, Batch, Placed
<1>3. Position(r)' /\ NotStarted(r)'
  BY <1>1 DEF RunInv, Position, Capped, NotStarted, Ahead, Early, Filling, Waiting
<1> QED BY <1>2, <1>3 DEF RunInv

LEMMA CapacityInv ==
  ASSUME Typing, NEW r \in Run, RunInv(r), Capacity(r)
  PROVE  RunInv(r)'
<1> USE ActorFacts DEF Typing
<1>1. /\ pc[r] = "capacity"
      /\ pc'[r] \in {"seq", "reset", "done", "failed", "plan"}
      /\ pc'[r] \in {"reset", "done"} => mode[r] = "dry-run"
      /\ UNCHANGED <<mode, plans, waves, at, ix, proc>>
  BY DEF Capacity, Goto, TypeOK, workerVars
<1>2. waves[r] = <<>> /\ DOMAIN waves[r] = {} /\ ix[r] = 1
  BY <1>1 DEF RunInv, Placed, InBatch
<1>3. Batch(r)' /\ Placed(r)'
  BY <1>1, <1>2 DEF RunInv, Batch, Placed
<1>4. Position(r)'
  BY <1>1, <1>2 DEF RunInv, Position, Capped, Early, Filling, Waiting
<1>5. NotStarted(r)'
  <2>1. \A t \in Task : owner[t] = r => proc[t] = "none"
    BY <1>1 DEF RunInv, NotStarted, Early
  <2>2. \A k \in DOMAIN plans[r] : proc[plans[r][k]] = "none"
    BY <2>1, PlansOwned DEF RunInv
  <2> QED BY <1>1, <1>2, <2>1, <2>2 DEF NotStarted, Early
<1> QED BY <1>3, <1>4, <1>5 DEF RunInv

LEMMA PlanInv ==
  ASSUME Typing, NEW r \in Run, RunInv(r), PlanTask(r)
  PROVE  RunInv(r)'
<1> USE ActorFacts DEF Typing
<1> DEFINE t == plans[r][ix[r]]
<1>1. /\ pc[r] = "plan" /\ pc'[r] \in {"plan", "reset"}
      /\ pc'[r] = "reset" => ix'[r] = 1
      /\ pc'[r] = "plan" => ix'[r] = ix[r] + 1
      /\ UNCHANGED <<mode, plans, cap, at, proc>>
  BY DEF PlanTask, Goto, TypeOK, workerVars
<1>2. ix[r] \in DOMAIN plans[r] /\ t \in Task /\ waves[r] \in Seq(Seq(Task))
  BY <1>1 DEF InBatch, TypeOK
<1>3. cap[r] \in Nat \ {0} /\ Capped(waves[r], cap[r])
  BY DEF TypeOK, RunInv, Position
<1>4. \A i \in DOMAIN waves[r] : \A k \in DOMAIN waves[r][i] : waves[r][i][k] # t
  <2>1. SUFFICES ASSUME NEW i \in DOMAIN waves[r], NEW k \in DOMAIN waves[r][i]
                 PROVE  waves[r][i][k] # t
    OBVIOUS
  <2>2. PICK n \in DOMAIN plans[r] : waves[r][i][k] = plans[r][n] /\ n < ix[r]
    BY <1>1 DEF RunInv, Placed
  <2>3. n # ix[r]
    BY <1>2, <2>2 DEF TypeOK
  <2> QED BY <1>2, <2>2, <2>3 DEF RunInv, Batch
<1>5. Batch(r)'
  BY <1>1 DEF RunInv, Batch
<1>6. CASE waves' = [waves EXCEPT ![r] = Open(waves[r], t)] /\ NoWaveFits(waves[r], t, cap[r])
  <2>1. waves'[r] = Open(waves[r], t)
    BY <1>6 DEF TypeOK
  <2>2. /\ DOMAIN waves'[r] = 1 .. Len(waves[r]) + 1
        /\ waves'[r][Len(waves[r]) + 1] = <<t>>
        /\ \A j \in DOMAIN waves[r] : waves'[r][j] = waves[r][j]
    <3> HIDE DEF t
    <3>1. waves[r] \in Seq(Seq(Task)) /\ t \in Task
      BY <1>2
    <3>2. /\ DOMAIN Open(waves[r], t) = 1 .. Len(waves[r]) + 1
          /\ Open(waves[r], t)[Len(waves[r]) + 1] = <<t>>
          /\ \A j \in DOMAIN waves[r] : Open(waves[r], t)[j] = waves[r][j]
      BY <3>1, OpenShape
    <3> QED BY <2>1, <3>2
  <2>3. Placed(r)'
    <3>1. \A i \in DOMAIN waves'[r] : \A k \in DOMAIN waves'[r][i] :
            \/ i \in DOMAIN waves[r] /\ waves'[r][i] = waves[r][i]
            \/ i = Len(waves[r]) + 1 /\ k = 1 /\ waves'[r][i][k] = t
      BY <1>2, <2>2
    <3>2. ASSUME NEW i \in DOMAIN waves'[r], NEW k \in DOMAIN waves'[r][i]
          PROVE  \E n \in DOMAIN plans[r] :
                   waves'[r][i][k] = plans[r][n] /\ (pc'[r] = "plan" => n < ix'[r])
      <4>1. CASE i \in DOMAIN waves[r] /\ waves'[r][i] = waves[r][i]
        <5>1. PICK n \in DOMAIN plans[r] : waves[r][i][k] = plans[r][n] /\ n < ix[r]
          BY <1>1, <3>2, <4>1 DEF RunInv, Placed
        <5>2. n < ix[r] + 1
          BY <1>2, <5>1 DEF TypeOK
        <5> QED BY <1>1, <4>1, <5>1, <5>2
      <4>2. CASE waves'[r][i][k] = t
        BY <1>1, <1>2, <4>2 DEF TypeOK
      <4> QED BY <3>1, <3>2, <4>1, <4>2
    <3>3. ASSUME NEW i \in DOMAIN waves'[r], NEW k \in DOMAIN waves'[r][i],
                 NEW j \in DOMAIN waves'[r], NEW l \in DOMAIN waves'[r][j],
                 waves'[r][i][k] = waves'[r][j][l]
          PROVE  i = j /\ k = l
      BY <1>4, <3>1, <3>3 DEF RunInv, Placed
    <3> QED BY <1>1, <3>2, <3>3 DEF Placed
  <2>4. Position(r)'
    <3>1. Capped(waves'[r], cap[r])
      BY <1>2, <1>3, <2>1, OpenCapped
    <3>2. waves'[r] # <<>>
      BY <1>2, <2>1 DEF Open
    <3> QED BY <1>1, <3>1, <3>2 DEF RunInv, Position, Early, Filling, Waiting
  <2>5. NotStarted(r)'
    <3>1. \A u \in Task : owner[u] = r => proc[u] = "none"
      BY <1>1 DEF RunInv, NotStarted, Early
    <3>2. \A i \in DOMAIN waves'[r] : \A k \in DOMAIN waves'[r][i] :
            proc[waves'[r][i][k]] = "none"
      <4> SUFFICES ASSUME NEW i \in DOMAIN waves'[r], NEW k \in DOMAIN waves'[r][i]
                   PROVE  proc[waves'[r][i][k]] = "none"
        OBVIOUS
      <4>1. PICK n \in DOMAIN plans[r] : waves'[r][i][k] = plans[r][n]
        BY <1>1, <2>3 DEF Placed
      <4> QED BY <3>1, <4>1, PlansOwned DEF RunInv
    <3> QED BY <1>1, <3>1, <3>2 DEF NotStarted, Early
  <2> QED BY <1>5, <2>3, <2>4, <2>5 DEF RunInv
<1>7. ASSUME NEW h \in DOMAIN waves[r], FirstFit(waves[r], t, cap[r], h),
             waves' = [waves EXCEPT ![r] = Join(waves[r], h, t)]
      PROVE  RunInv(r)'
  <2>1. waves'[r] = Join(waves[r], h, t) /\ Fits(waves[r][h], t, cap[r])
    BY <1>7 DEF TypeOK, FirstFit
  <2>2. /\ DOMAIN waves'[r] = DOMAIN waves[r] /\ waves[r][h] \in Seq(Task)
        /\ waves'[r][h] = Append(waves[r][h], t)
        /\ \A j \in DOMAIN waves[r] : j # h => waves'[r][j] = waves[r][j]
    <3> HIDE DEF t
    <3>1. waves[r] \in Seq(Seq(Task)) /\ t \in Task
      BY <1>2
    <3>2. /\ DOMAIN Join(waves[r], h, t) = DOMAIN waves[r] /\ waves[r][h] \in Seq(Task)
          /\ Join(waves[r], h, t)[h] = Append(waves[r][h], t)
          /\ \A j \in DOMAIN waves[r] : j # h => Join(waves[r], h, t)[j] = waves[r][j]
      BY <1>7, <3>1, JoinShape
    <3> QED BY <2>1, <3>2
  <2>3. Placed(r)'
    <3>1. \A i \in DOMAIN waves'[r] : \A k \in DOMAIN waves'[r][i] :
            \/ i \in DOMAIN waves[r] /\ k \in DOMAIN waves[r][i] /\ waves'[r][i][k] = waves[r][i][k]
            \/ i = h /\ k = Len(waves[r][h]) + 1 /\ waves'[r][i][k] = t
      <4> HIDE DEF t
      <4>1. /\ DOMAIN waves'[r][h] = 1 .. Len(waves[r][h]) + 1
            /\ waves'[r][h][Len(waves[r][h]) + 1] = t
            /\ \A k \in DOMAIN waves[r][h] : waves'[r][h][k] = waves[r][h][k]
        BY <1>2, <2>2, AppendElements
      <4>2. DOMAIN waves[r][h] = 1 .. Len(waves[r][h]) /\ Len(waves[r][h]) \in Nat
        BY <2>2
      <4> QED BY <2>2, <4>1, <4>2
    <3>2. ASSUME NEW i \in DOMAIN waves'[r], NEW k \in DOMAIN waves'[r][i]
          PROVE  \E n \in DOMAIN plans[r] :
                   waves'[r][i][k] = plans[r][n] /\ (pc'[r] = "plan" => n < ix'[r])
      <4>1. CASE /\ i \in DOMAIN waves[r] /\ k \in DOMAIN waves[r][i]
                 /\ waves'[r][i][k] = waves[r][i][k]
        <5>1. PICK n \in DOMAIN plans[r] : waves[r][i][k] = plans[r][n] /\ n < ix[r]
          BY <1>1, <4>1 DEF RunInv, Placed
        <5>2. n < ix[r] + 1
          BY <1>2, <5>1 DEF TypeOK
        <5> QED BY <1>1, <4>1, <5>1, <5>2
      <4>2. CASE waves'[r][i][k] = t
        BY <1>1, <1>2, <4>2 DEF TypeOK
      <4> QED BY <3>1, <3>2, <4>1, <4>2
    <3>3. ASSUME NEW i \in DOMAIN waves'[r], NEW k \in DOMAIN waves'[r][i],
                 NEW j \in DOMAIN waves'[r], NEW l \in DOMAIN waves'[r][j],
                 waves'[r][i][k] = waves'[r][j][l]
          PROVE  i = j /\ k = l
      BY <1>4, <3>1, <3>3 DEF RunInv, Placed
    <3> QED BY <1>1, <3>2, <3>3 DEF Placed
  <2>4. Position(r)'
    <3>1. Capped(waves'[r], cap[r])
      BY <1>2, <1>3, <1>7, <2>1, JoinCapped
    <3>2. waves'[r] # <<>>
      BY <1>2, <1>7, <2>2
    <3> QED BY <1>1, <3>1, <3>2 DEF RunInv, Position, Early, Filling, Waiting
  <2>5. NotStarted(r)'
    <3>1. \A u \in Task : owner[u] = r => proc[u] = "none"
      BY <1>1 DEF RunInv, NotStarted, Early
    <3>2. \A i \in DOMAIN waves'[r] : \A k \in DOMAIN waves'[r][i] :
            proc[waves'[r][i][k]] = "none"
      <4> SUFFICES ASSUME NEW i \in DOMAIN waves'[r], NEW k \in DOMAIN waves'[r][i]
                   PROVE  proc[waves'[r][i][k]] = "none"
        OBVIOUS
      <4>1. PICK n \in DOMAIN plans[r] : waves'[r][i][k] = plans[r][n]
        BY <1>1, <2>3 DEF Placed
      <4> QED BY <3>1, <4>1, PlansOwned DEF RunInv
    <3> QED BY <1>1, <3>1, <3>2 DEF NotStarted, Early
  <2> QED BY <1>5, <2>3, <2>4, <2>5 DEF RunInv
<1> QED BY <1>6, <1>7 DEF PlanTask

(* A run that stops keeps what it had.                                     *)
LEMMA StopInv ==
  ASSUME Typing, NEW r \in Run, RunInv(r), pc'[r] \in {"failed", "done"},
         UNCHANGED <<launchVars, proc>>
  PROVE  RunInv(r)'
<1>1. Batch(r)' /\ Placed(r)' /\ Position(r)'
  BY DEF RunInv, Batch, Placed, Position, Capped, Early, Filling, Waiting, launchVars
<1>2. NotStarted(r)'
  BY DEF RunInv, NotStarted, Ahead, Early, launchVars
<1> QED BY <1>1, <1>2 DEF RunInv

(* A run that waits for its wave keeps what it had.                        *)
LEMMA WaitInv ==
  ASSUME Typing, NEW r \in Run, RunInv(r), pc[r] \in Waiting,
         pc'[r] \in Waiting \cup {"failed", "done"}, UNCHANGED <<launchVars, proc>>
  PROVE  RunInv(r)'
<1>1. Batch(r)' /\ Placed(r)' /\ Position(r)'
  BY DEF RunInv, Batch, Placed, Position, Capped, Early, Filling, Waiting, launchVars
<1>2. NotStarted(r)'
  BY DEF RunInv, NotStarted, Ahead, Early, Waiting, launchVars
<1> QED BY <1>1, <1>2 DEF RunInv

LEMMA ResetInv ==
  ASSUME Typing, NEW r \in Run, RunInv(r), Reset(r) \/ FillReset(r)
  PROVE  RunInv(r)'
<1> USE ActorFacts DEF Typing
<1>0. UNCHANGED <<launchVars, proc>>
  BY DEF Reset, FillReset, workerVars
<1>1. CASE Reset(r)
  <2>1. pc[r] = "reset" /\ pc'[r] = "reset.fill" /\ ix[r] = 1
    BY <1>1 DEF Reset, Goto, TypeOK, InBatch
  <2>2. Batch(r)' /\ Placed(r)' /\ Position(r)'
    BY <1>0, <2>1 DEF RunInv, Batch, Placed, Position, Capped, Early, Filling, Waiting, launchVars
  <2>3. NotStarted(r)'
    BY <1>0, <2>1 DEF RunInv, NotStarted, Ahead, Early, launchVars
  <2> QED BY <2>2, <2>3 DEF RunInv
<1>2. CASE FillReset(r) /\ mode[r] = "dry-run"
  <2>1. pc'[r] = "done"
    BY <1>2 DEF FillReset, Goto, TypeOK
  <2> QED BY <1>0, <2>1, StopInv
<1>3. CASE FillReset(r) /\ mode[r] # "dry-run"
  <2>1. pc[r] = "reset.fill" /\ pc'[r] = "launch"
    BY <1>3 DEF FillReset, Goto, TypeOK
  <2>2. at[r] = 1 /\ ix[r] = 1 /\ waves[r] # <<>> /\ waves[r] \in Seq(Seq(Task))
    BY <1>3, <2>1 DEF RunInv, Position, Early, TypeOK
  <2>3. 1 \in DOMAIN waves[r] /\ waves[r][1] \in Seq(Task)
    BY <2>2
  <2>4. 1 \in DOMAIN waves[r][1]
    BY <2>3 DEF RunInv, Position, Capped, TypeOK
  <2>5. Batch(r)' /\ Placed(r)'
    BY <1>0, <2>1 DEF RunInv, Batch, Placed, launchVars
  <2>6. Position(r)'
    BY <1>0, <2>1, <2>2, <2>3, <2>4 DEF RunInv, Position, Capped, Early, Filling, Waiting, launchVars
  <2>7. \A t \in Task : owner[t] = r => proc[t] = "none"
    BY <2>1 DEF RunInv, NotStarted, Early
  <2>8. NotStarted(r)'
    BY <1>0, <2>1, <2>7, WavesOwned DEF NotStarted, Ahead, Early, launchVars
  <2> QED BY <2>5, <2>6, <2>8 DEF RunInv
<1> QED BY <1>1, <1>2, <1>3

LEMMA LaunchInv ==
  ASSUME Typing, NEW r \in Run, RunInv(r), Launch(r)
  PROVE  RunInv(r)'
<1> USE ActorFacts DEF Typing
<1>1. /\ pc[r] = "launch" /\ pc'[r] = "record"
      /\ proc' = [proc EXCEPT ![Current(r)] = "working"]
      /\ UNCHANGED launchVars
  BY DEF Launch, Goto, TypeOK
<1>2. at[r] \in DOMAIN waves[r] /\ ix[r] \in DOMAIN waves[r][at[r]]
  BY <1>1 DEF RunInv, Position, Filling
<1>3. Current(r) \in Task /\ proc'[Current(r)] = "working"
  BY <1>1, <1>2, WavesOwned DEF Current, TypeOK
<1>4. Batch(r)' /\ Placed(r)' /\ Position(r)'
  BY <1>1 DEF RunInv, Batch, Placed, Position, Capped, Early, Filling, Waiting, launchVars
<1>5. ASSUME NEW i \in DOMAIN waves[r], NEW k \in DOMAIN waves[r][i], Ahead(r, i, k)'
      PROVE  proc'[waves[r][i][k]] = "none"
  <2>1. i > at[r] \/ (i = at[r] /\ k > ix[r])
    BY <1>1, <1>5 DEF Ahead, launchVars
  <2>2. proc[waves[r][i][k]] = "none"
    <3>1. waves[r] \in Seq(Seq(Task)) /\ ix[r] \in Int
      BY DEF TypeOK
    <3>2. k \in Int
      BY <3>1
    <3>3. Ahead(r, i, k)
      BY <1>1, <2>1, <3>1, <3>2 DEF Ahead
    <3> QED BY <3>3 DEF RunInv, NotStarted
  <2>3. waves[r][i][k] # Current(r)
    <3>1. i # at[r] \/ k # ix[r]
      BY <2>1 DEF TypeOK
    <3> QED BY <1>2, <3>1 DEF RunInv, Placed, Current
  <2> QED BY <1>1, <2>2, <2>3, WavesOwned DEF TypeOK
<1>6. NotStarted(r)'
  BY <1>1, <1>3, <1>5 DEF NotStarted, Early, Current, launchVars
<1> QED BY <1>4, <1>6 DEF RunInv

LEMMA RecordInv ==
  ASSUME Typing, NEW r \in Run, RunInv(r), Record(r)
  PROVE  RunInv(r)'
<1> USE ActorFacts DEF Typing
<1>1. pc[r] = "record" /\ pc'[r] = "record.fill" /\ UNCHANGED <<launchVars, proc>>
  BY DEF Record, Goto, TypeOK, workerVars
<1>2. Batch(r)' /\ Placed(r)' /\ Position(r)'
  BY <1>1 DEF RunInv, Batch, Placed, Position, Capped, Early, Filling, Waiting, launchVars
<1>3. NotStarted(r)'
  BY <1>1 DEF RunInv, NotStarted, Ahead, Early, launchVars
<1> QED BY <1>2, <1>3 DEF RunInv

LEMMA FillRecordInv ==
  ASSUME Typing, NEW r \in Run, RunInv(r), FillRecord(r)
  PROVE  RunInv(r)'
<1> USE ActorFacts DEF Typing
<1>1. pc[r] = "record.fill" /\ UNCHANGED <<mode, plans, cap, waves, at, proc>>
  BY DEF FillRecord, workerVars
<1>2. at[r] \in DOMAIN waves[r] /\ ix[r] \in DOMAIN waves[r][at[r]]
  BY <1>1 DEF RunInv, Position, Filling
<1>3. Batch(r)'
  BY <1>1 DEF RunInv, Batch
<1>4. CASE ix[r] = Len(waves[r][at[r]])
  <2>1. pc'[r] = "poll" /\ ix' = ix
    BY <1>4 DEF FillRecord, Goto, TypeOK
  <2>2. Placed(r)' /\ Position(r)'
    BY <1>1, <1>2, <2>1 DEF RunInv, Placed, Position, Capped, Early, Filling, Waiting
  <2>3. NotStarted(r)'
    BY <1>1, <2>1 DEF RunInv, NotStarted, Ahead, Early
  <2> QED BY <1>3, <2>2, <2>3 DEF RunInv
<1>5. CASE ix[r] # Len(waves[r][at[r]])
  <2>1. pc'[r] = "launch" /\ ix'[r] = ix[r] + 1
    BY <1>5 DEF FillRecord, Goto, TypeOK
  <2>2. waves[r] \in Seq(Seq(Task))
    BY DEF TypeOK
  <2>3. waves[r][at[r]] \in Seq(Task)
    BY <1>2, <2>2
  <2>4. ix[r] + 1 \in DOMAIN waves[r][at[r]]
    BY <1>2, <1>5, <2>3
  <2>5. Placed(r)' /\ Position(r)'
    BY <1>1, <1>2, <2>1, <2>4 DEF RunInv, Placed, Position, Capped, Early, Filling, Waiting
  <2>6. ASSUME NEW i \in DOMAIN waves[r], NEW k \in DOMAIN waves[r][i], Ahead(r, i, k)'
        PROVE  Ahead(r, i, k)
    <3>1. k \in Int /\ ix[r] \in Int
      BY <2>2, <2>6 DEF TypeOK
    <3> QED BY <1>1, <2>1, <2>6, <3>1 DEF Ahead
  <2>7. NotStarted(r)'
    BY <1>1, <2>1, <2>6 DEF RunInv, NotStarted, Early
  <2> QED BY <1>3, <2>5, <2>7 DEF RunInv
<1> QED BY <1>4, <1>5

LEMMA RereadInv ==
  ASSUME Typing, NEW r \in Run, RunInv(r), Reread(r)
  PROVE  RunInv(r)'
<1> USE ActorFacts DEF Typing
<1>1. pc[r] = "reread" /\ UNCHANGED <<mode, plans, cap, waves, gate, proc>>
  BY DEF Reread, workerVars
<1>2. at[r] \in DOMAIN waves[r] /\ waves[r] \in Seq(Seq(Task))
  BY <1>1 DEF RunInv, Position, Waiting, TypeOK
<1>3. CASE at[r] = Len(waves[r])
  <2>1. pc'[r] = "done" /\ UNCHANGED <<launchVars, proc>>
    BY <1>3 DEF Reread, Goto, TypeOK, launchVars, workerVars
  <2> QED BY <2>1, StopInv
<1>4. CASE at[r] # Len(waves[r])
  <2>1. pc'[r] = "launch" /\ at'[r] = at[r] + 1 /\ ix'[r] = 1
    BY <1>4 DEF Reread, Goto, TypeOK
  <2>2. at[r] + 1 \in DOMAIN waves[r]
    BY <1>2, <1>4
  <2>3. waves[r][at[r] + 1] \in Seq(Task)
    BY <1>2, <2>2
  <2>4. 1 \in DOMAIN waves[r][at[r] + 1]
    BY <2>2, <2>3 DEF RunInv, Position, Capped, TypeOK
  <2>5. Batch(r)' /\ Placed(r)'
    BY <1>1, <2>1 DEF RunInv, Batch, Placed
  <2>6. Position(r)'
    BY <1>1, <2>1, <2>2, <2>4 DEF RunInv, Position, Capped, Early, Filling, Waiting
  <2>7. ASSUME NEW i \in DOMAIN waves[r], NEW k \in DOMAIN waves[r][i], Ahead(r, i, k)'
        PROVE  Ahead(r, i, k)
    <3>1. i \in Int /\ at[r] \in Int
      BY <1>2 DEF TypeOK
    <3> QED BY <1>1, <2>1, <2>7, <3>1 DEF Ahead
  <2>8. NotStarted(r)'
    BY <1>1, <2>1, <2>7 DEF RunInv, NotStarted, Early
  <2> QED BY <2>5, <2>6, <2>8 DEF RunInv
<1> QED BY <1>3, <1>4

LEMMA SeqInv ==
  ASSUME Typing, NEW r \in Run, RunInv(r), SeqLaunch(r) \/ SeqNext(r)
  PROVE  RunInv(r)'
<1> USE ActorFacts DEF Typing
<1>1. CASE SeqLaunch(r)
  <2>1. /\ pc[r] = "seq" /\ pc'[r] = "seq.wait"
        /\ proc' = [proc EXCEPT ![plans[r][ix[r]]] = "working"]
        /\ UNCHANGED launchVars
    BY <1>1 DEF SeqLaunch, Goto, TypeOK
  <2>2. Batch(r)' /\ Placed(r)' /\ Position(r)'
    BY <2>1 DEF RunInv, Batch, Placed, Position, Capped, Early, Filling, Waiting, launchVars
  <2>3. ix[r] \in DOMAIN plans[r]
    BY <2>1 DEF InBatch
  <2>4. ASSUME NEW k \in DOMAIN plans[r], k > ix[r]
        PROVE  proc'[plans[r][k]] = "none"
    <3>1. k # ix[r] /\ k >= ix[r]
      BY <2>4 DEF TypeOK
    <3>2. plans[r][k] # plans[r][ix[r]]
      BY <2>3, <3>1 DEF RunInv, Batch
    <3>3. proc[plans[r][k]] = "none"
      BY <2>1, <3>1 DEF RunInv, NotStarted
    <3> QED BY <2>1, <3>2, <3>3, PlansOwned DEF RunInv, TypeOK
  <2>5. DOMAIN waves[r] = {} /\ waves'[r] = waves[r]
    BY <2>1 DEF RunInv, Placed, launchVars
  <2>6. NotStarted(r)'
    BY <2>1, <2>4, <2>5 DEF RunInv, NotStarted, Early, launchVars
  <2> QED BY <2>2, <2>6 DEF RunInv
<1>2. CASE SeqNext(r) /\ ix[r] = Len(plans[r])
  <2>1. pc'[r] = "done" /\ UNCHANGED <<launchVars, proc>>
    BY <1>2 DEF SeqNext, Goto, TypeOK, launchVars, workerVars
  <2> QED BY <2>1, StopInv
<1>3. CASE SeqNext(r) /\ ix[r] # Len(plans[r])
  <2>1. /\ pc[r] = "seq.wait" /\ pc'[r] = "seq" /\ ix'[r] = ix[r] + 1
        /\ UNCHANGED <<mode, plans, cap, waves, at, proc>>
    BY <1>3 DEF SeqNext, Goto, TypeOK, workerVars
  <2>2. Batch(r)' /\ Placed(r)' /\ Position(r)'
    BY <2>1 DEF RunInv, Batch, Placed, Position, Capped, Early, Filling, Waiting
  <2>3. ASSUME NEW k \in DOMAIN plans[r], k >= ix'[r]
        PROVE  proc[plans[r][k]] = "none"
    <3>1. k > ix[r]
      BY <2>1, <2>3 DEF TypeOK
    <3> QED BY <2>1, <3>1 DEF RunInv, NotStarted
  <2>4. DOMAIN waves[r] = {} /\ waves'[r] = waves[r]
    BY <2>1 DEF RunInv, Placed
  <2>5. NotStarted(r)'
    BY <2>1, <2>3, <2>4 DEF NotStarted, Early
  <2> QED BY <2>2, <2>5 DEF RunInv
<1> QED BY <1>1, <1>2, <1>3

(* A poll of the run itself.                                               *)
LEMMA PollInv ==
  ASSUME Typing, NEW r \in Run, RunInv(r), PollStep(r)
  PROVE  RunInv(r)'
<1> USE ActorFacts DEF Typing
<1>1. /\ pc[r] \in Waiting /\ pc'[r] \in Waiting \cup {"failed"}
      /\ UNCHANGED <<launchVars, proc>>
  BY DEF PollStep, ReadResults, CheckProcesses, FillPoll, Goto, TypeOK, Waiting, workerVars
<1> QED BY <1>1, WaitInv

LEMMA OwnStepInv ==
  ASSUME Typing, NEW r \in Run, RunInv(r),
         Begin(r) \/ RunStep(r) \/ Crash(r) \/ PollStep(r)
  PROVE  RunInv(r)'
<1>1. ASSUME WorktreeFails(r) \/ RecordFails(r) \/ ReadFails(r) \/ Crash(r)
      PROVE  RunInv(r)'
  <2>1. pc'[r] = "failed" /\ UNCHANGED <<launchVars, proc>>
    BY <1>1, ActorFacts DEF WorktreeFails, RecordFails, ReadFails, Crash, Goto, Typing,
      TypeOK, workerVars
  <2> QED BY <2>1, StopInv
<1> QED
  BY <1>1, BeginInv, GateInv, CapacityInv, PlanInv, ResetInv, LaunchInv, RecordInv,
     FillRecordInv, RereadInv, SeqInv, PollInv DEF RunStep

-----------------------------------------------------------------------------
AllRuns == \A r \in Run : RunInv(r)

(* Whoever steps, the other runs are bystanders.                           *)
LEMMA OthersStand ==
  ASSUME Typing, AllRuns, NEW q \in Run, Begin(q) \/ RunStep(q) \/ Crash(q),
         NEW r \in Run, r # q
  PROVE  Bystander(r)
<1> USE ActorFacts DEF Typing
<1>1. \A x \in Actor : x # q => pc'[x] = pc[x]
  BY DEF Begin, RunStep, Crash, Goto, TypeOK, GatePass, GateBlock, GateUnparsed, Capacity,
    PlanTask, Reset, FillReset, Launch, WorktreeFails, Record, RecordFails, FillRecord,
    ReadFails, Reread, SeqLaunch, SeqNext
<1>2. /\ mode'[r] = mode[r] /\ plans'[r] = plans[r] /\ cap'[r] = cap[r]
  BY DEF Begin, RunStep, Crash, TypeOK, GatePass, GateBlock, GateUnparsed, Capacity,
    PlanTask, Reset, FillReset, Launch, WorktreeFails, Record, RecordFails, FillRecord,
    ReadFails, Reread, SeqLaunch, SeqNext, launchVars
<1>3. /\ waves'[r] = waves[r] /\ at'[r] = at[r] /\ ix'[r] = ix[r]
  BY DEF Begin, RunStep, Crash, TypeOK, GatePass, GateBlock, GateUnparsed, Capacity,
    PlanTask, Reset, FillReset, Launch, WorktreeFails, Record, RecordFails, FillRecord,
    ReadFails, Reread, SeqLaunch, SeqNext, launchVars
<1>4. \A t \in Task : owner[t] = r => proc'[t] = proc[t]
  <2>1. CASE Launch(q)
    <3>1. owner[Current(q)] = q
      BY <2>1, WavesOwned DEF Launch, AllRuns, RunInv, Position, Filling, Current
    <3> QED BY <2>1, <3>1 DEF Launch, TypeOK
  <2>2. CASE SeqLaunch(q)
    <3>1. owner[plans[q][ix[q]]] = q
      BY <2>2, PlansOwned DEF SeqLaunch, AllRuns, RunInv, InBatch
    <3> QED BY <2>2, <3>1 DEF SeqLaunch, TypeOK
  <2>3. CASE ~Launch(q) /\ ~SeqLaunch(q)
    <3>1. proc' = proc
      BY <2>3 DEF Begin, RunStep, Crash, GatePass, GateBlock, GateUnparsed, Capacity,
        PlanTask, Reset, FillReset, WorktreeFails, Record, RecordFails, FillRecord,
        ReadFails, Reread, SeqNext, workerVars
    <3> QED BY <3>1
  <2> QED BY <2>1, <2>2, <2>3
<1> QED BY <1>1, <1>2, <1>3, <1>4 DEF Bystander, Onward

LEMMA PollersStand ==
  ASSUME Typing, NEW p \in Actor, PollStep(p), NEW r \in Run, r # p
  PROVE  Bystander(r)
BY ActorFacts DEF Typing, PollStep, ReadResults, CheckProcesses, FillPoll, Goto, TypeOK,
  Bystander, Onward, launchVars, workerVars

LEMMA WorkersStand ==
  ASSUME Typing, NEW t \in Task, WorkerStep(t), NEW r \in Run
  PROVE  Bystander(r)
BY DEF Typing, WorkerStep, BeginResult, EndResult, Exit, StopWorker, GrowOld, TypeOK,
  Bystander, Onward, launchVars

LEMMA InitAllRuns == Init => AllRuns
<1> SUFFICES ASSUME Init, NEW r \in Run PROVE RunInv(r)
  BY DEF AllRuns
<1>1. /\ pc[r] = "idle" /\ plans[r] = <<>> /\ waves[r] = <<>> /\ at[r] = 1 /\ ix[r] = 1
      /\ \A t \in Task : proc[t] = "none"
  BY ActorFacts DEF Init
<1>2. DOMAIN plans[r] = {} /\ DOMAIN waves[r] = {}
  BY <1>1
<1> QED
  BY <1>1, <1>2 DEF RunInv, Batch, Placed, Position, Capped, NotStarted, Early, Filling, Waiting

LEMMA NextAllRuns == Typing /\ AllRuns /\ [Next]_vars => AllRuns'
<1> SUFFICES ASSUME Typing, AllRuns, [Next]_vars, NEW r \in Run PROVE RunInv(r)'
  BY DEF AllRuns
<1>1. RunInv(r)
  BY DEF AllRuns
<1>2. ASSUME NEW q \in Run, Begin(q) \/ RunStep(q) \/ Crash(q) PROVE RunInv(r)'
  BY <1>1, <1>2, OwnStepInv, OthersStand, BystanderInv
<1>3. ASSUME NEW p \in Actor, PollStep(p) PROVE RunInv(r)'
  BY <1>1, <1>3, OwnStepInv, PollersStand, BystanderInv
<1>4. ASSUME NEW t \in Task, WorkerStep(t) PROVE RunInv(r)'
  BY <1>1, <1>4, WorkersStand, BystanderInv
<1>5. CASE UNCHANGED vars
  <2>1. Bystander(r)
    BY <1>5 DEF vars, launchVars, workerVars, Bystander, Onward
  <2> QED BY <1>1, <2>1, BystanderInv
<1> QED BY <1>2, <1>3, <1>4, <1>5 DEF Next

-----------------------------------------------------------------------------
(***************************************************************************)
(* Honesty: every copy of the manifest, on file or in some process, tells  *)
(* the truth of every worker, because what it tells can only stay true.    *)
(***************************************************************************)
NoEarlyResult == \A t \in Task : proc[t] = "none" => result[t] = "none"

Honest ==
  /\ NoEarlyResult
  /\ VerdictsHold
  /\ \A p \in Actor : mem[p] \in Projection => \A t \in Task : VerdictHolds(t, mem[p][t])

\* A step of the workers' own state that takes back nothing.
Forward ==
  /\ old \subseteq old'
  /\ \A t \in Task :
       /\ result[t] = "ok" => result'[t] = "ok"
       /\ result[t] # "none" => result'[t] # "none"
       /\ proc[t] # "none" => proc'[t] # "none"
       /\ proc[t] = "exited" => proc'[t] = "exited"
       /\ proc'[t] = "none" => result'[t] = "none"

LEMMA NextForward ==
  ASSUME Typing, AllRuns, NoEarlyResult, [Next]_vars
  PROVE  Forward
<1> USE ActorFacts DEF Typing
<1>1. ASSUME NEW r \in Run, Launch(r) PROVE Forward
  <2>1. /\ Current(r) \in Task /\ proc[Current(r)] = "none"
    BY <1>1, WavesOwned DEF Launch, AllRuns, RunInv, Position, Filling, NotStarted, Ahead,
      Current, TypeOK
  <2> QED BY <1>1, <2>1 DEF Launch, Forward, NoEarlyResult, TypeOK
<1>2. ASSUME NEW r \in Run, SeqLaunch(r) PROVE Forward
  <2>1. plans[r][ix[r]] \in Task /\ proc[plans[r][ix[r]]] = "none"
    BY <1>2, PlansOwned DEF SeqLaunch, AllRuns, RunInv, NotStarted, InBatch, TypeOK
  <2> QED BY <1>2, <2>1 DEF SeqLaunch, Forward, NoEarlyResult, TypeOK
<1>3. CASE UNCHANGED workerVars
  BY <1>3 DEF workerVars, Forward, NoEarlyResult
<1>4. ASSUME NEW r \in Run, Begin(r) \/ RunStep(r) \/ Crash(r), ~Launch(r), ~SeqLaunch(r)
      PROVE  UNCHANGED workerVars
  BY <1>4 DEF Begin, RunStep, Crash, GatePass, GateBlock, GateUnparsed, Capacity,
    PlanTask, Reset, FillReset, WorktreeFails, Record, RecordFails, FillRecord,
    ReadFails, Reread, SeqNext, workerVars
<1>5. ASSUME NEW p \in Actor, PollStep(p) PROVE UNCHANGED workerVars
  BY <1>5 DEF PollStep, ReadResults, CheckProcesses, FillPoll, workerVars
<1>6. ASSUME NEW t \in Task, WorkerStep(t) PROVE Forward
  BY <1>6 DEF WorkerStep, BeginResult, EndResult, Exit, StopWorker, GrowOld, TypeOK,
    Forward, NoEarlyResult
<1>7. CASE UNCHANGED vars
  BY <1>3, <1>7 DEF vars
<1> QED BY <1>1, <1>2, <1>3, <1>4, <1>5, <1>6, <1>7 DEF Next

(* A true verdict stays true.                                              *)
LEMMA VerdictStays ==
  ASSUME Forward, NEW t \in Task, NEW s, VerdictHolds(t, s)
  PROVE  VerdictHolds(t, s)'
BY DEF Forward, VerdictHolds

(* The two halves of Update-Worker give true verdicts.                     *)
LEMMA ResultVerdict ==
  ASSUME Typing, NEW t \in Task, NEW s \in Status, VerdictHolds(t, s)
  PROVE  VerdictHolds(t, ByResult(t, s))
BY DEF Typing, TypeOK, VerdictHolds, ByResult, Unsettled, Status

LEMMA ProcessVerdict ==
  ASSUME Typing, NEW t \in Task, NEW s \in Status, VerdictHolds(t, s)
  PROVE  VerdictHolds(t, ByProcess(t, s))
BY DEF Typing, TypeOK, VerdictHolds, ByProcess, Status

LEMMA InitHonest == Init => Honest
BY LauncherAssumption DEF Init, Honest, NoEarlyResult, VerdictsHold, VerdictHolds

\* Every entry of a new copy m is a verdict that held before the step, or "planned".
LEMMA NextHonest == Typing /\ AllRuns /\ Honest /\ [Next]_vars => Honest'
<1> SUFFICES ASSUME Typing, AllRuns, Honest, [Next]_vars PROVE Honest'
  OBVIOUS
<1> USE ActorFacts
<1>1. Forward
  BY NextForward DEF Honest
<1>2. NoEarlyResult'
  BY <1>1 DEF NoEarlyResult, Forward
<1>3. \A t \in Task : VerdictHolds(t, file[t]) 
  BY DEF Honest, VerdictsHold
<1>4. \A p \in Actor : mem[p] \in Projection => \A t \in Task : VerdictHolds(t, mem[p][t])
  BY DEF Honest
<1>5. file' = file \/ \E p \in Actor : file' = mem[p] /\ mem[p] \in Projection
  <2>1. ASSUME NEW r \in Run, Begin(r) \/ RunStep(r) \/ Crash(r)
        PROVE  file' = file \/ (file' = mem[r] /\ mem[r] \in Projection)
    <3>1. CASE FillReset(r) \/ FillRecord(r)
      <4>1. file' = mem[r] /\ pc[r] \in Writing
        BY <3>1 DEF FillReset, FillRecord, Writing
      <4> QED BY <4>1 DEF Typing, MemHeld
    <3>2. CASE ~FillReset(r) /\ ~FillRecord(r)
      <4>1. file' = file
        BY <2>1, <3>2 DEF Begin, RunStep, Crash, GatePass, GateBlock, GateUnparsed,
          Capacity, PlanTask, Reset, Launch, WorktreeFails, Record, RecordFails,
          ReadFails, Reread, SeqLaunch, SeqNext
      <4> QED BY <4>1
    <3> QED BY <3>1, <3>2
  <2>2. ASSUME NEW p \in Actor, PollStep(p)
        PROVE  file' = file \/ (file' = mem[p] /\ mem[p] \in Projection)
    <3>1. CASE FillPoll(p)
      <4>1. file' = mem[p] /\ pc[p] \in Writing
        BY <3>1 DEF FillPoll, Writing
      <4> QED BY <4>1 DEF Typing, MemHeld
    <3>2. CASE ReadResults(p) \/ CheckProcesses(p)
      BY <3>2 DEF ReadResults, CheckProcesses
    <3> QED BY <2>2, <3>1, <3>2 DEF PollStep
  <2>3. ASSUME NEW t \in Task, WorkerStep(t) PROVE file' = file
    BY <2>3 DEF WorkerStep, BeginResult, EndResult, Exit, StopWorker, GrowOld
  <2> QED BY <2>1, <2>2, <2>3 DEF Next, vars
<1>6. VerdictsHold'
  BY <1>1, <1>3, <1>4, <1>5, VerdictStays DEF VerdictsHold
<1>7. ASSUME NEW p \in Actor, mem'[p] \in Projection, NEW t \in Task
      PROVE  VerdictHolds(t, mem[p][t])'
  <2>1. CASE mem'[p] = mem[p]
    BY <1>1, <1>4, <1>7, <2>1, VerdictStays
  <2>2. CASE mem'[p] = file
    BY <1>1, <1>3, <2>2, VerdictStays
  <2>3. CASE mem'[p][t] \in {"null", "planned"}
    BY <2>3 DEF VerdictHolds
  <2>4. ASSUME NEW r \in Run, Reset(r), r = p
        PROVE  mem'[p][t] \in {"null", "planned"}
    BY <2>4 DEF Reset, Typing, TypeOK
  <2>5. ASSUME NEW r \in Run, Record(r), r = p
        PROVE  VerdictHolds(t, mem[p][t])'
    <3>1. mem[p] \in Projection
      BY <2>5 DEF Record, Typing, TypeOK
    <3>2. CASE t = Current(r)
      <4>1. mem'[p][t] = "running" /\ proc[t] # "none"
        BY <2>5, <3>1, <3>2 DEF Record, Typing, TypeOK, Projection, AllRuns, RunInv, NotStarted
      <4> QED BY <1>1, <4>1 DEF VerdictHolds, Forward
    <3>3. CASE t # Current(r)
      <4>1. mem'[p][t] = mem[p][t]
        BY <2>5, <3>1, <3>3 DEF Record, Typing, TypeOK, Projection
      <4> QED BY <1>1, <1>4, <3>1, <4>1, VerdictStays
    <3> QED BY <3>2, <3>3
  <2>6. ASSUME ReadResults(p) PROVE VerdictHolds(t, mem[p][t])'
    <3>1. mem'[p][t] = ByResult(t, file[t]) /\ file[t] \in Status
      BY <2>6 DEF ReadResults, Typing, TypeOK, Projection
    <3>2. VerdictHolds(t, ByResult(t, file[t]))
      BY <1>3, <3>1, ResultVerdict
    <3> QED BY <1>1, <3>1, <3>2, VerdictStays
  <2>7. ASSUME CheckProcesses(p) PROVE VerdictHolds(t, mem[p][t])'
    <3>1. mem[p] \in Projection
      BY <2>7 DEF CheckProcesses, Typing, MemHeld, Writing
    <3>2. mem'[p][t] = ByProcess(t, mem[p][t]) /\ mem[p][t] \in Status
      BY <2>7, <3>1 DEF CheckProcesses, Typing, TypeOK, Projection
    <3>3. VerdictHolds(t, ByProcess(t, mem[p][t]))
      BY <1>4, <3>1, <3>2, ProcessVerdict
    <3> QED BY <1>1, <3>2, <3>3, VerdictStays
  <2>8. ASSUME FillPoll(p) PROVE FALSE
    BY <1>7, <2>8, LauncherAssumption DEF FillPoll, Typing, TypeOK
  <2>9. ASSUME NEW r \in Run, Reread(r)
        PROVE  mem'[p] = mem[p] \/ mem'[p] = file
    BY <1>7, <2>9, LauncherAssumption DEF Reread, Typing, TypeOK
  <2>10. ASSUME NEW r \in Run, Begin(r) \/ RunStep(r) \/ Crash(r), ~Reread(r),
                ~(Reset(r) /\ r = p), ~(Record(r) /\ r = p)
         PROVE  mem'[p] = mem[p]
    BY <2>10 DEF Begin, RunStep, Crash, GatePass, GateBlock, GateUnparsed, Capacity,
      PlanTask, Reset, FillReset, Launch, WorktreeFails, Record, RecordFails, FillRecord,
      ReadFails, SeqLaunch, SeqNext, Typing, TypeOK
  <2>11. ASSUME NEW q \in Actor, q # p, PollStep(q) PROVE mem'[p] = mem[p]
    BY <2>11 DEF PollStep, ReadResults, CheckProcesses, FillPoll, Typing, TypeOK
  <2>12. ASSUME NEW u \in Task, WorkerStep(u) PROVE mem'[p] = mem[p]
    BY <2>12 DEF WorkerStep, BeginResult, EndResult, Exit, StopWorker, GrowOld
  <2>13. CASE UNCHANGED vars
    BY <2>1, <2>13 DEF vars
  <2>14. ASSUME NEW q \in Actor, PollStep(q) PROVE VerdictHolds(t, mem[p][t])'
    BY <2>1, <2>6, <2>7, <2>8, <2>11, <2>14 DEF PollStep
  <2>15. ASSUME NEW r \in Run, Begin(r) \/ RunStep(r) \/ Crash(r)
         PROVE  VerdictHolds(t, mem[p][t])'
    BY <2>1, <2>2, <2>3, <2>4, <2>5, <2>9, <2>10, <2>15
  <2> QED BY <2>1, <2>12, <2>13, <2>14, <2>15 DEF Next
<1> QED BY <1>2, <1>6, <1>7 DEF Honest

(* The file never calls a worker completed, stale, failed or running       *)
(* without cause, however many runs and monitors rewrite it over each      *)
(* other, wherever they crash, and whatever torn file they meet.           *)
THEOREM FileIsHonest == Spec => []VerdictsHold
<1>1. Init => Typing /\ AllRuns /\ Honest
  BY InitTyping, InitAllRuns, InitHonest
<1>2. Typing /\ AllRuns /\ Honest /\ [Next]_vars => (Typing /\ AllRuns /\ Honest)'
  BY NextTyping, NextAllRuns, NextHonest
<1>3. Honest => VerdictsHold
  BY DEF Honest
<1> QED BY <1>1, <1>2, <1>3, PTL DEF Spec

-----------------------------------------------------------------------------
(***************************************************************************)
(* One launcher at a time and no monitor: the waves of a run never         *)
(* overlap, no two of its workers that clash are ever at work at once, no  *)
(* more of them than its cap, each is on file, success is complete, and    *)
(* the file moves along the table of WorkerLifecycle.  Both assumptions    *)
(* are needed: with either dropped TLC finds a behaviour that breaks the   *)
(* barrier.                                                                *)
(*                                                                         *)
(* The argument: whoever polls sees every worker of the wave on file       *)
(* (Listed), so a poll that finds none running and none failed has found   *)
(* them all completed, and an honest file says so only of results with     *)
(* exit code 0 (Cleared).  OnFile, Complete and Tracks extend it, one for  *)
(* each of the last three claims.                                          *)
(***************************************************************************)
Exclusive == \A q, r \in Run : Active(q) /\ Active(r) => q = r

Recorded(m, t) == m[t] \notin {"null", "planned"}

Listed(r) ==
  /\ pc[r] \in {"launch", "record"} /\ mem[r] \in Projection =>
       \A k \in DOMAIN waves[r][at[r]] : k < ix[r] => Recorded(mem[r], waves[r][at[r]][k])
  /\ pc[r] = "record.fill" =>
       \A k \in DOMAIN waves[r][at[r]] : k <= ix[r] => Recorded(mem[r], waves[r][at[r]][k])
  /\ pc[r] = "poll" =>
       \A k \in DOMAIN waves[r][at[r]] : Recorded(file, waves[r][at[r]][k])
  /\ pc[r] \in {"check", "poll.fill"} =>
       \A k \in DOMAIN waves[r][at[r]] : Recorded(mem[r], waves[r][at[r]][k])

Cleared(r) ==
  /\ \A j \in DOMAIN waves[r] : j < at[r] => AllOk(r, j)
  /\ pc[r] = "reread" => AllOk(r, at[r])

Guarded(r) == Listed(r) /\ Cleared(r)

Base == Typing /\ AllRuns /\ Honest

LEMMA OneAtATime ==
  ASSUME ~Overlap, Typing, Exclusive, [Next]_vars
  PROVE  Exclusive'
<1> USE ActorFacts DEF Typing
<1>1. ASSUME NEW r \in Run, RunStep(r) \/ Crash(r) \/ PollStep(r)
      PROVE  Active(r)
  BY <1>1 DEF RunStep, Crash, PollStep, GatePass, GateBlock, GateUnparsed, Capacity,
    PlanTask, Reset, FillReset, Launch, WorktreeFails, Record, RecordFails, FillRecord,
    ReadFails, Reread, SeqLaunch, SeqNext, ReadResults, CheckProcesses, FillPoll, Active
<1>2. ASSUME NEW q \in Actor, NEW r \in Run, r # q,
             PollStep(q) \/ (q \in Run /\ (Begin(q) \/ RunStep(q) \/ Crash(q)))
      PROVE  pc'[r] = pc[r]
  BY <1>2 DEF Begin, RunStep, Crash, PollStep, GatePass, GateBlock, GateUnparsed, Capacity,
    PlanTask, Reset, FillReset, Launch, WorktreeFails, Record, RecordFails, FillRecord,
    ReadFails, Reread, SeqLaunch, SeqNext, ReadResults, CheckProcesses, FillPoll, Goto, TypeOK
<1>3. ASSUME NEW r \in Run, Begin(r) \/ RunStep(r) \/ Crash(r) PROVE Exclusive'
  <2>1. \A q \in Run : q # r => pc'[q] = pc[q]
    BY <1>2, <1>3
  <2>2. \A q \in Run : q # r => ~Active(q)
    BY <1>1, <1>3 DEF Exclusive, Begin
  <2> QED BY <2>1, <2>2 DEF Exclusive, Active
<1>4. ASSUME NEW p \in Actor, PollStep(p) PROVE Exclusive'
  <2>1. CASE p \in Run
    <3>1. \A q \in Run : q # p => pc'[q] = pc[q] /\ ~Active(q)
      BY <1>1, <1>2, <1>4, <2>1 DEF Exclusive
    <3> QED BY <3>1 DEF Exclusive, Active
  <2>2. CASE p \notin Run
    <3>1. \A q \in Run : pc'[q] = pc[q]
      BY <1>2, <1>4, <2>2
    <3> QED BY <3>1 DEF Exclusive, Active
  <2> QED BY <2>1, <2>2
<1>5. CASE UNCHANGED pc
  BY <1>5 DEF Exclusive, Active
<1>6. ASSUME NEW t \in Task, WorkerStep(t) PROVE UNCHANGED pc
  BY <1>6 DEF WorkerStep, BeginResult, EndResult, Exit, StopWorker, GrowOld
<1> QED BY <1>3, <1>4, <1>5, <1>6 DEF Next, vars

(* When a run moves, every other run is at rest.                           *)
LEMMA OthersIdle ==
  ASSUME Base, Exclusive, NEW q \in Run, Begin(q) \/ RunStep(q) \/ Crash(q) \/ PollStep(q),
         ~Overlap, NEW r \in Run, q # r
  PROVE  ~Active(r) /\ Bystander(r)
<1>1. RunStep(q) \/ Crash(q) \/ PollStep(q) => Active(q)
  BY ActorFacts DEF RunStep, Crash, PollStep, GatePass, GateBlock, GateUnparsed, Capacity,
    PlanTask, Reset, FillReset, Launch, WorktreeFails, Record, RecordFails, FillRecord,
    ReadFails, Reread, SeqLaunch, SeqNext, ReadResults, CheckProcesses, FillPoll, Active
<1>2. ~Active(r)
  BY <1>1 DEF Exclusive, Begin
<1>3. Bystander(r)
  BY OthersStand, PollersStand, ActorFacts DEF Base
<1> QED BY <1>2, <1>3

(* A wave that is done stays done.                                         *)
LEMMA OkStays ==
  ASSUME Base, Forward, NEW r \in Run, waves'[r] = waves[r],
         NEW j \in DOMAIN waves[r], AllOk(r, j)
  PROVE  AllOk(r, j)'
BY WavesOwned DEF Base, AllRuns, AllOk, Forward

(* A run that is not under way owes the file nothing.                      *)
LEMMA IdleGuarded ==
  ASSUME Base, Forward, NEW r \in Run, Guarded(r), ~Active(r), Bystander(r)
  PROVE  Guarded(r)'
<1>1. pc'[r] = pc[r] /\ pc[r] \in {"idle", "done", "failed"}
  BY DEF Bystander, Active
<1>2. Listed(r)'
  BY <1>1 DEF Listed
<1>3. Cleared(r)'
  BY <1>1, OkStays DEF Guarded, Cleared, Bystander
<1> QED BY <1>2, <1>3 DEF Guarded

(* A worker moves, or nothing does.                                        *)
LEMMA StillGuarded ==
  ASSUME Base, Forward, NEW r \in Run, Guarded(r), Bystander(r), UNCHANGED <<mem, file>>
  PROVE  Guarded(r)'
<1>1. pc[r] = "reread" => at[r] \in DOMAIN waves[r]
  BY DEF Base, AllRuns, RunInv, Position, Waiting
<1>2. Cleared(r)'
  BY <1>1, OkStays DEF Guarded, Cleared, Bystander
<1>3. Listed(r)'
  BY DEF Guarded, Listed, Bystander, Recorded
<1> QED BY <1>2, <1>3 DEF Guarded

-----------------------------------------------------------------------------
(* The run's own steps.                                                    *)
LEMMA EarlyGuarded ==
  ASSUME Base, NEW r \in Run, pc[r] \in Early,
         Begin(r) \/ GatePass(r) \/ GateBlock(r) \/ GateUnparsed(r) \/ Capacity(r)
           \/ PlanTask(r) \/ Reset(r) \/ FillReset(r)
  PROVE  Guarded(r)'
<1> USE ActorFacts DEF Base, Typing
<1>1. at[r] = 1 /\ at' = at
  BY DEF AllRuns, RunInv, Position, Begin, GatePass, GateBlock, GateUnparsed, Capacity,
    PlanTask, Reset, FillReset, launchVars
<1>2. pc'[r] # "reread"
  BY DEF Early, Begin, GatePass, GateBlock, GateUnparsed, Capacity, PlanTask, Reset,
    FillReset, Goto, TypeOK
<1>3. waves'[r] \in Seq(Seq(Task))
  BY RunStepTyping DEF TypeOK, RunStep
<1>4. Cleared(r)'
  BY <1>1, <1>2, <1>3 DEF Cleared
<1>5. CASE FillReset(r)
  <2>1. pc'[r] \in {"done", "launch"} /\ ix'[r] = 1 /\ waves' = waves
    BY <1>5 DEF FillReset, Goto, TypeOK, launchVars, AllRuns, RunInv, Position
  <2>2. waves[r] \in Seq(Seq(Task))
    BY DEF TypeOK
  <2>3. pc'[r] = "launch" => at[r] \in DOMAIN waves[r]
    BY <1>1, <1>5, OwnStepInv, <2>1 DEF RunStep, AllRuns, RunInv, Position, Filling
  <2>4. pc'[r] = "launch" => \A k \in DOMAIN waves[r][at[r]] : ~(k < 1)
    BY <2>2, <2>3
  <2>5. Listed(r)'
    BY <1>1, <2>1, <2>4 DEF Listed
  <2> QED BY <1>4, <2>5 DEF Guarded
<1>6. CASE ~FillReset(r)
  <2>1. pc'[r] \in Early \cup {"failed", "done", "seq"}
    BY <1>6 DEF Early, Begin, GatePass, GateBlock, GateUnparsed, Capacity, PlanTask, Reset,
      Goto, TypeOK
  <2>2. Listed(r)'
    BY <2>1 DEF Listed, Early
  <2> QED BY <1>4, <2>2 DEF Guarded
<1> QED BY <1>5, <1>6

LEMMA StopGuarded ==
  ASSUME Base, Forward, NEW r \in Run, Guarded(r), pc'[r] \in {"failed", "done"},
         UNCHANGED launchVars
  PROVE  Guarded(r)'
<1>1. Listed(r)'
  BY DEF Listed
<1>2. Cleared(r)'
  BY OkStays DEF Guarded, Cleared, launchVars
<1> QED BY <1>1, <1>2 DEF Guarded

LEMMA SeqGuarded ==
  ASSUME Base, NEW r \in Run, SeqLaunch(r) \/ SeqNext(r)
  PROVE  Guarded(r)'
<1> USE ActorFacts DEF Base, Typing
<1>1. pc[r] \in {"seq", "seq.wait"} /\ pc'[r] \in {"seq", "seq.wait", "done"}
  BY DEF SeqLaunch, SeqNext, Goto, TypeOK
<1>2. waves'[r] = <<>>
  BY <1>1 DEF SeqLaunch, SeqNext, launchVars, AllRuns, RunInv, Placed
<1> QED BY <1>1, <1>2 DEF Guarded, Listed, Cleared

LEMMA FillingGuarded ==
  ASSUME Base, Forward, NEW r \in Run, Guarded(r), Launch(r) \/ Record(r) \/ FillRecord(r)
  PROVE  Guarded(r)'
<1> USE ActorFacts DEF Base, Typing
<1>1. pc[r] \in Filling /\ UNCHANGED <<waves, at>>
  BY DEF Filling, Launch, Record, FillRecord, launchVars
<1>2. /\ at[r] \in DOMAIN waves[r] /\ ix[r] \in DOMAIN waves[r][at[r]]
      /\ waves[r] \in Seq(Seq(Task))
  BY <1>1 DEF AllRuns, RunInv, Position, TypeOK
<1>3. waves[r][at[r]] \in Seq(Task) /\ ix[r] \in Nat
  BY <1>2 DEF TypeOK
<1>4. pc'[r] # "reread"
  BY DEF Launch, Record, FillRecord, Goto, TypeOK
<1>5. Cleared(r)'
  BY <1>1, <1>4, OkStays DEF Guarded, Cleared
<1>6. CASE Launch(r)
  <2>1. pc[r] = "launch" /\ pc'[r] = "record" /\ UNCHANGED <<ix, mem>>
    BY <1>6 DEF Launch, Goto, TypeOK, launchVars
  <2>2. Listed(r)'
    BY <1>1, <2>1 DEF Guarded, Listed, Recorded
  <2> QED BY <1>5, <2>2 DEF Guarded
<1>7. CASE Record(r)
  <2>1. /\ pc[r] = "record" /\ pc'[r] = "record.fill" /\ UNCHANGED ix
        /\ mem[r] \in Projection
        /\ mem'[r] = [mem[r] EXCEPT ![Current(r)] = "running"]
    BY <1>7 DEF Record, Goto, TypeOK, launchVars
  <2>2. ASSUME NEW k \in DOMAIN waves[r][at[r]], k <= ix[r]
        PROVE  Recorded(mem'[r], waves[r][at[r]][k])
    <3>1. waves[r][at[r]][k] \in Task
      BY <1>2, WavesOwned DEF AllRuns
    <3>2. CASE waves[r][at[r]][k] = Current(r)
      BY <2>1, <3>1, <3>2 DEF Recorded, Projection
    <3>3. CASE waves[r][at[r]][k] # Current(r)
      <4>1. k # ix[r]
        BY <3>3 DEF Current
      <4>2. k < ix[r]
        BY <1>3, <2>2, <4>1
      <4>3. Recorded(mem[r], waves[r][at[r]][k])
        BY <2>1, <4>2 DEF Guarded, Listed
      <4> QED BY <2>1, <3>1, <3>3, <4>3 DEF Recorded, Projection
    <3> QED BY <3>2, <3>3
  <2>3. Listed(r)'
    BY <1>1, <2>1, <2>2 DEF Listed
  <2> QED BY <1>5, <2>3 DEF Guarded
<1>8. CASE FillRecord(r)
  <2>1. pc[r] = "record.fill" /\ file' = mem[r] /\ mem' = mem
    BY <1>8 DEF FillRecord
  <2>2. \A k \in DOMAIN waves[r][at[r]] :
          k <= ix[r] => Recorded(mem[r], waves[r][at[r]][k])
    BY <2>1 DEF Guarded, Listed
  <2>3. CASE ix[r] = Len(waves[r][at[r]])
    <3>1. pc'[r] = "poll"
      BY <1>8, <2>3 DEF FillRecord, Goto, TypeOK
    <3>2. \A k \in DOMAIN waves[r][at[r]] : k <= ix[r]
      BY <1>3, <2>3
    <3>3. Listed(r)'
      BY <1>1, <2>1, <2>2, <3>1, <3>2 DEF Listed
    <3> QED BY <1>5, <3>3 DEF Guarded
  <2>4. CASE ix[r] # Len(waves[r][at[r]])
    <3>1. pc'[r] = "launch" /\ ix'[r] = ix[r] + 1
      BY <1>8, <2>4 DEF FillRecord, Goto, TypeOK
    <3>2. \A k \in DOMAIN waves[r][at[r]] : k < ix[r] + 1 => k <= ix[r]
      BY <1>3
    <3>3. Listed(r)'
      BY <1>1, <2>1, <2>2, <3>1, <3>2 DEF Listed
    <3> QED BY <1>5, <3>3 DEF Guarded
  <2> QED BY <2>3, <2>4
<1> QED BY <1>6, <1>7, <1>8

LEMMA PollGuarded ==
  ASSUME Base, Forward, NEW r \in Run, Guarded(r), PollStep(r)
  PROVE  Guarded(r)'
<1> USE ActorFacts DEF Base, Typing
<1>1. pc[r] \in Waiting /\ UNCHANGED launchVars
  BY DEF Waiting, PollStep, ReadResults, CheckProcesses, FillPoll
<1>2. at[r] \in DOMAIN waves[r]
  BY <1>1 DEF AllRuns, RunInv, Position
<1>3. \A k \in DOMAIN waves[r][at[r]] : waves[r][at[r]][k] \in Task
  BY <1>2, WavesOwned DEF AllRuns
<1>4. \A j \in DOMAIN waves[r] : j < at[r] => AllOk(r, j)'
  BY <1>1, OkStays DEF Guarded, Cleared, launchVars
<1>5. CASE ReadResults(r)
  <2>1. /\ pc[r] = "poll" /\ pc'[r] = "check"
        /\ mem'[r] = [t \in Task |-> ByResult(t, file[t])]
    BY <1>5 DEF ReadResults, Goto, TypeOK
  <2>2. \A t \in Task : Recorded(file, t) => Recorded(mem'[r], t)
    BY <2>1 DEF Recorded, ByResult, TypeOK, Projection, Status
  <2>3. Listed(r)'
    BY <1>1, <1>3, <2>1, <2>2 DEF Guarded, Listed, launchVars
  <2>4. Cleared(r)'
    BY <1>1, <1>4, <2>1 DEF Cleared, launchVars
  <2> QED BY <2>3, <2>4 DEF Guarded
<1>6. CASE CheckProcesses(r)
  <2>1. /\ pc[r] = "check" /\ pc'[r] = "poll.fill"
        /\ mem'[r] = [t \in Task |-> ByProcess(t, mem[r][t])]
    BY <1>6 DEF CheckProcesses, Goto, TypeOK
  <2>2. \A t \in Task : Recorded(mem[r], t) => Recorded(mem'[r], t)
    BY <2>1 DEF Recorded, ByProcess
  <2>3. Listed(r)'
    BY <1>1, <1>3, <2>1, <2>2 DEF Guarded, Listed, launchVars
  <2>4. Cleared(r)'
    BY <1>1, <1>4, <2>1 DEF Cleared, launchVars
  <2> QED BY <2>3, <2>4 DEF Guarded
<1>7. CASE FillPoll(r)
  <2>1. /\ pc[r] = "poll.fill" /\ pc'[r] \in {"poll", "failed", "reread"}
        /\ pc'[r] = "reread" => ~StillRunning(r) /\ ~AnyBad(r)
        /\ file' = mem[r] /\ mem[r] \in Projection
    BY <1>7 DEF FillPoll, Goto, TypeOK, MemHeld, Writing
  <2>2. \A k \in DOMAIN waves[r][at[r]] : Recorded(mem[r], waves[r][at[r]][k])
    BY <2>1 DEF Guarded, Listed
  <2>3. Listed(r)'
    BY <1>1, <2>1, <2>2 DEF Listed, launchVars, Recorded
  <2>4. CASE pc'[r] = "reread"
    <3>1. ASSUME NEW k \in DOMAIN waves[r][at[r]]
          PROVE  result[waves[r][at[r]][k]] = "ok"
      <4>1. mem[r][waves[r][at[r]][k]] = "completed"
        BY <1>3, <2>1, <2>2, <2>4 DEF StillRunning, AnyBad, Recorded, Projection, Status
      <4> QED BY <1>3, <2>1, <4>1 DEF Honest, VerdictHolds
    <3>2. AllOk(r, at[r])
      BY <3>1 DEF AllOk
    <3>3. AllOk(r, at[r])'
      BY <1>1, <1>2, <3>2, OkStays DEF launchVars, AllOk
    <3>4. Cleared(r)'
      BY <1>1, <1>4, <3>3 DEF Cleared, launchVars
    <3> QED BY <2>3, <3>4 DEF Guarded
  <2>5. CASE pc'[r] # "reread"
    <3>1. Cleared(r)'
      BY <1>1, <1>4, <2>5 DEF Cleared, launchVars
    <3> QED BY <2>3, <3>1 DEF Guarded
  <2> QED BY <2>4, <2>5
<1> QED BY <1>5, <1>6, <1>7 DEF PollStep

LEMMA RereadGuarded ==
  ASSUME Base, Forward, NEW r \in Run, Guarded(r), Reread(r)
  PROVE  Guarded(r)'
<1> USE ActorFacts DEF Base, Typing
<1>1. pc[r] = "reread" /\ waves' = waves /\ AllOk(r, at[r])
  BY DEF Reread, Guarded, Cleared
<1>2. at[r] \in DOMAIN waves[r] /\ waves[r] \in Seq(Seq(Task))
  BY <1>1 DEF AllRuns, RunInv, Position, Waiting, TypeOK
<1>3. CASE at[r] = Len(waves[r])
  <2>1. pc'[r] = "done" /\ UNCHANGED launchVars
    BY <1>3 DEF Reread, Goto, TypeOK, launchVars
  <2> QED BY <2>1, StopGuarded
<1>4. CASE at[r] # Len(waves[r])
  <2>1. pc'[r] = "launch" /\ at'[r] = at[r] + 1 /\ ix'[r] = 1
    BY <1>4 DEF Reread, Goto, TypeOK
  <2>2. \A j \in DOMAIN waves[r] : j < at[r] + 1 => AllOk(r, j)
    <3>1. \A j \in DOMAIN waves[r] : j < at[r] + 1 => j < at[r] \/ j = at[r]
      BY <1>2
    <3> QED BY <1>1, <3>1 DEF Guarded, Cleared
  <2>3. Cleared(r)'
    BY <1>1, <2>1, <2>2, OkStays DEF Cleared
  <2>4. at[r] + 1 \in DOMAIN waves[r]
    BY <1>2, <1>4
  <2>5. \A k \in DOMAIN waves[r][at[r] + 1] : ~(k < 1)
    BY <1>2, <2>4
  <2>6. Listed(r)'
    BY <1>1, <2>1, <2>5 DEF Listed
  <2> QED BY <2>3, <2>6 DEF Guarded
<1> QED BY <1>3, <1>4

LEMMA OwnStepGuarded ==
  ASSUME Base, Forward, NEW r \in Run, Guarded(r),
         Begin(r) \/ RunStep(r) \/ Crash(r) \/ PollStep(r)
  PROVE  Guarded(r)'
<1>1. ASSUME WorktreeFails(r) \/ RecordFails(r) \/ ReadFails(r) \/ Crash(r)
      PROVE  Guarded(r)'
  <2>1. pc'[r] = "failed" /\ UNCHANGED launchVars
    BY <1>1, ActorFacts DEF WorktreeFails, RecordFails, ReadFails, Crash, Goto, Base, Typing,
      TypeOK
  <2> QED BY <2>1, StopGuarded
<1>2. ASSUME Begin(r) \/ GatePass(r) \/ GateBlock(r) \/ GateUnparsed(r) \/ Capacity(r)
               \/ PlanTask(r) \/ Reset(r) \/ FillReset(r)
      PROVE  Guarded(r)'
  <2>1. pc[r] \in Early
    BY <1>2 DEF Early, Begin, GatePass, GateBlock, GateUnparsed, Capacity, PlanTask, Reset,
      FillReset
  <2> QED BY <1>2, <2>1, EarlyGuarded
<1> QED
  BY <1>1, <1>2, SeqGuarded, FillingGuarded, PollGuarded, RereadGuarded DEF RunStep

AllGuarded == \A r \in Run : Guarded(r)

LEMMA InitGuarded == Init => Exclusive /\ AllGuarded
<1> SUFFICES ASSUME Init PROVE Exclusive /\ AllGuarded
  OBVIOUS
<1>1. \A r \in Run : pc[r] = "idle" /\ waves[r] = <<>>
  BY ActorFacts DEF Init
<1>2. Exclusive
  BY <1>1 DEF Exclusive, Active
<1>3. AllGuarded
  BY <1>1 DEF AllGuarded, Guarded, Listed, Cleared
<1> QED BY <1>2, <1>3

LEMMA NextGuarded ==
  ASSUME ~Overlap, Monitor = {}, Base, Exclusive, AllGuarded, [Next]_vars
  PROVE  AllGuarded'
<1> SUFFICES ASSUME NEW r \in Run PROVE Guarded(r)'
  BY DEF AllGuarded
<1>1. Guarded(r) /\ Forward
  BY NextForward DEF AllGuarded, Base, Honest
<1>3. ASSUME NEW q \in Run, Begin(q) \/ RunStep(q) \/ Crash(q) \/ PollStep(q), q # r
      PROVE  ~Active(r) /\ Bystander(r)
  BY <1>3, OthersIdle
<1>4. ASSUME NEW q \in Run, Begin(q) \/ RunStep(q) \/ Crash(q) \/ PollStep(q)
      PROVE  Guarded(r)'
  BY <1>1, <1>3, <1>4, OwnStepGuarded, IdleGuarded
<1>5. ASSUME NEW t \in Task, WorkerStep(t) PROVE Guarded(r)'
  <2>1. UNCHANGED <<mem, file>>
    BY <1>5 DEF WorkerStep, BeginResult, EndResult, Exit, StopWorker, GrowOld
  <2> QED BY <1>1, <1>5, <2>1, WorkersStand, StillGuarded DEF Base
<1>6. CASE UNCHANGED vars
  <2>1. Bystander(r) /\ UNCHANGED <<mem, file>>
    BY <1>6 DEF vars, launchVars, workerVars, Bystander, Onward
  <2> QED BY <1>1, <2>1, StillGuarded
<1>7. Actor = Run
  BY DEF Actor
<1> QED BY <1>4, <1>5, <1>6, <1>7 DEF Next

LEMMA GuardedBarrier == Base /\ AllGuarded => WaveBarrier
<1> SUFFICES ASSUME Base, AllGuarded, NEW r \in Run, NEW i \in DOMAIN waves[r],
                    NEW j \in 1 .. i - 1, Started(r, i)
             PROVE  AllOk(r, j)
  BY DEF WaveBarrier
<1>1. waves[r] \in Seq(Seq(Task)) /\ at[r] \in Nat
  BY DEF Base, Typing, TypeOK
<1>2. ~(i > at[r])
  BY DEF Started, Base, AllRuns, RunInv, NotStarted, Ahead
<1>3. j \in DOMAIN waves[r] /\ j < at[r]
  BY <1>1, <1>2
<1> QED BY <1>3 DEF AllGuarded, Guarded, Cleared

-----------------------------------------------------------------------------
(***************************************************************************)
(* InOrder: a parallel run starts only tasks of its waves, and no wave     *)
(* holds a clash; a sequential run starts a task after the last one ended. *)
(***************************************************************************)
InOrder(r) ==
  /\ ClashFree(waves[r])
  /\ pc[r] \in {"plan", "reset", "reset.fill"} \cup Filling \cup Waiting => mode[r] # "sequential"
  /\ pc[r] \in {"seq", "seq.wait"} =>
       /\ mode[r] = "sequential"
       /\ \A k \in DOMAIN plans[r] : k < ix[r] => proc[plans[r][k]] = "exited"
  /\ mode[r] = "sequential" =>
       \A k, l \in DOMAIN plans[r] :
         k < l /\ proc[plans[r][l]] # "none" => proc[plans[r][k]] = "exited"
  /\ mode[r] # "sequential" =>
       \A n \in DOMAIN plans[r] : proc[plans[r][n]] # "none" =>
         \E i \in DOMAIN waves[r] : \E k \in DOMAIN waves[r][i] : waves[r][i][k] = plans[r][n]

LEMMA BystanderInOrder ==
  ASSUME Base, NEW r \in Run, InOrder(r), Bystander(r)
  PROVE  InOrder(r)'
<1>1. \A k \in DOMAIN plans[r] :
        /\ (proc'[plans[r][k]] = "none") <=> (proc[plans[r][k]] = "none")
        /\ proc[plans[r][k]] = "exited" => proc'[plans[r][k]] = "exited"
  BY PlansOwned DEF Base, AllRuns, RunInv, Bystander, Onward
<1>2. ClashFree(waves'[r])
  BY DEF InOrder, Bystander
<1> QED BY <1>1, <1>2 DEF InOrder, Bystander, ClashFree

\* Steps of r before anything of r is started.
LEMMA EarlyInOrder ==
  ASSUME Base, NEW r \in Run, InOrder(r),
         Begin(r) \/ GatePass(r) \/ GateBlock(r) \/ GateUnparsed(r) \/ Capacity(r)
           \/ PlanTask(r) \/ Reset(r) \/ FillReset(r)
  PROVE  InOrder(r)'
<1> USE ActorFacts DEF Base, Typing
<1>1. pc[r] \in Early /\ proc' = proc
  BY DEF Early, Begin, GatePass, GateBlock, GateUnparsed, Capacity, PlanTask, Reset, FillReset,
    workerVars
<1>2. \A t \in Task : owner[t] = r => proc'[t] = "none"
  BY <1>1 DEF AllRuns, RunInv, NotStarted
<1>3. RunInv(r)' /\ Typing'
  BY OwnStepInv, RunStepTyping DEF AllRuns, RunStep
<1>4. \A k \in DOMAIN plans'[r] : plans'[r][k] \in Task /\ owner[plans'[r][k]] = r
  BY <1>3 DEF RunInv, Batch, TypeOK
<1>5. \A k \in DOMAIN plans'[r] : proc'[plans'[r][k]] = "none"
  BY <1>2, <1>4
<1>6. ClashFree(waves'[r])
  <2>1. CASE PlanTask(r)
    <3> DEFINE t == plans[r][ix[r]]
    <3>1. t \in Task /\ waves[r] \in Seq(Seq(Task)) /\ cap[r] \in Nat
      BY <2>1 DEF PlanTask, TypeOK, InBatch
    <3>2. CASE waves' = [waves EXCEPT ![r] = Open(waves[r], t)]
      <4>1. waves'[r] = Open(waves[r], t)
        BY <3>2 DEF TypeOK
      <4> HIDE DEF t
      <4> QED BY <3>1, <4>1, OpenClashFree DEF InOrder
    <3>3. ASSUME NEW h \in DOMAIN waves[r], FirstFit(waves[r], t, cap[r], h),
                 waves' = [waves EXCEPT ![r] = Join(waves[r], h, t)]
          PROVE  ClashFree(waves'[r])
      <4>1. waves'[r] = Join(waves[r], h, t) /\ Fits(waves[r][h], t, cap[r])
        BY <3>3 DEF TypeOK, FirstFit
      <4> HIDE DEF t
      <4> QED BY <3>1, <3>3, <4>1, JoinClashFree DEF InOrder
    <3> QED BY <2>1, <3>2, <3>3 DEF PlanTask
  <2>2. CASE ~PlanTask(r)
    <3>1. waves' = waves
      BY <2>2 DEF Begin, GatePass, GateBlock, GateUnparsed, Capacity, Reset, FillReset,
        launchVars
    <3> QED BY <3>1 DEF InOrder
  <2> QED BY <2>1, <2>2
<1>7. pc'[r] \in {"plan", "reset", "reset.fill"} \cup Filling \cup Waiting =>
        mode'[r] # "sequential"
  BY DEF InOrder, Filling, Waiting, Begin, GatePass, GateBlock, GateUnparsed, Capacity, PlanTask, Reset,
    FillReset, Goto, TypeOK, launchVars
<1>8. pc'[r] \in {"seq", "seq.wait"} =>
        /\ mode'[r] = "sequential"
        /\ \A k \in DOMAIN plans'[r] : ~(k < ix'[r])
  <2>1. CASE Capacity(r)
    <3>1. ix'[r] = 1 /\ plans'[r] = plans[r] /\ plans[r] \in Seq(Task)
      BY <2>1 DEF Capacity, InBatch, TypeOK
    <3>2. pc'[r] = "seq" => mode'[r] = "sequential"
      BY <2>1 DEF Capacity, Goto, TypeOK
    <3>3. pc'[r] # "seq.wait"
      BY <2>1 DEF Capacity, Goto, TypeOK
    <3> QED BY <3>1, <3>2, <3>3
  <2>2. CASE ~Capacity(r)
    BY <2>2 DEF Begin, GatePass, GateBlock, GateUnparsed, PlanTask, Reset, FillReset, Goto, TypeOK
  <2> QED BY <2>1, <2>2
<1> QED BY <1>5, <1>6, <1>7, <1>8 DEF InOrder

LEMMA LaterInOrder ==
  ASSUME Base, NEW r \in Run, InOrder(r),
         \/ WorktreeFails(r) \/ RecordFails(r) \/ ReadFails(r) \/ Crash(r)
         \/ Record(r) \/ FillRecord(r) \/ Reread(r) \/ PollStep(r)
  PROVE  InOrder(r)'
<1> USE ActorFacts DEF Base, Typing
<1>1. /\ UNCHANGED <<mode, plans, waves, proc>>
      /\ pc'[r] \notin {"plan", "reset", "reset.fill", "seq", "seq.wait"}
  BY DEF WorktreeFails, RecordFails, ReadFails, Crash, Record, FillRecord, Reread, PollStep,
    ReadResults, CheckProcesses, FillPoll, Goto, TypeOK, launchVars, workerVars
<1>2. pc'[r] \in Filling \cup Waiting => mode[r] # "sequential"
  BY DEF InOrder, Filling, Waiting, WorktreeFails, RecordFails, ReadFails, Crash, Record,
    FillRecord, Reread, PollStep, ReadResults, CheckProcesses, FillPoll, Goto, TypeOK
<1> QED BY <1>1, <1>2 DEF InOrder

LEMMA LaunchInOrder ==
  ASSUME Base, NEW r \in Run, InOrder(r), Launch(r)
  PROVE  InOrder(r)'
<1> USE ActorFacts DEF Base, Typing
<1>1. /\ pc[r] = "launch" /\ pc'[r] = "record" /\ UNCHANGED launchVars
      /\ proc' = [proc EXCEPT ![Current(r)] = "working"]
  BY DEF Launch, Goto, TypeOK
<1>2. mode[r] # "sequential" /\ at[r] \in DOMAIN waves[r] /\ ix[r] \in DOMAIN waves[r][at[r]]
  BY <1>1 DEF InOrder, Filling, AllRuns, RunInv, Position
<1>3. \A n \in DOMAIN plans[r] : proc'[plans[r][n]] # "none" =>
        proc[plans[r][n]] # "none" \/ plans[r][n] = Current(r)
  BY <1>1, PlansOwned DEF AllRuns, RunInv, TypeOK
<1>4. \A n \in DOMAIN plans[r] : proc'[plans[r][n]] # "none" =>
        \E i \in DOMAIN waves[r] : \E k \in DOMAIN waves[r][i] : waves[r][i][k] = plans[r][n]
  BY <1>2, <1>3 DEF InOrder, Current
<1> QED BY <1>1, <1>2, <1>4 DEF InOrder, launchVars

LEMMA SeqInOrder ==
  ASSUME Base, NEW r \in Run, InOrder(r), SeqLaunch(r) \/ SeqNext(r)
  PROVE  InOrder(r)'
<1> USE ActorFacts DEF Base, Typing
<1>1. mode[r] = "sequential" /\ ix[r] \in DOMAIN plans[r] /\ plans[r] \in Seq(Task)
  BY DEF InOrder, SeqLaunch, SeqNext, InBatch, TypeOK
<1>2. \A k \in DOMAIN plans[r] : k < ix[r] => proc[plans[r][k]] = "exited"
  BY DEF InOrder, SeqLaunch, SeqNext
<1>3. CASE SeqLaunch(r)
  <2>1. /\ pc'[r] = "seq.wait" /\ UNCHANGED launchVars
        /\ proc' = [proc EXCEPT ![plans[r][ix[r]]] = "working"]
    BY <1>3 DEF SeqLaunch, Goto, TypeOK
  <2>2. \A k \in DOMAIN plans[r] : k # ix[r] => proc'[plans[r][k]] = proc[plans[r][k]]
    BY <1>1, <2>1, PlansOwned DEF AllRuns, RunInv, Batch, TypeOK
  <2>3. \A k \in DOMAIN plans[r] : k < ix[r] => proc'[plans[r][k]] = "exited"
    BY <1>1, <1>2, <2>2
  <2>4. ASSUME NEW k \in DOMAIN plans[r], NEW l \in DOMAIN plans[r], k < l,
               proc'[plans[r][l]] # "none"
        PROVE  proc'[plans[r][k]] = "exited"
    <3>1. CASE l = ix[r]
      BY <2>3, <2>4, <3>1
    <3>2. CASE l # ix[r]
      <4>1. proc[plans[r][k]] = "exited"
        BY <1>1, <2>2, <2>4, <3>2 DEF InOrder
      <4>2. proc[plans[r][ix[r]]] = "none"
        BY <1>1, <1>3 DEF SeqLaunch, AllRuns, RunInv, NotStarted
      <4>3. k # ix[r]
        BY <4>1, <4>2
      <4> QED BY <2>2, <4>1, <4>3
    <3> QED BY <3>1, <3>2
  <2> QED BY <1>1, <2>1, <2>3, <2>4 DEF InOrder, Filling, Waiting, launchVars
<1>4. CASE SeqNext(r)
  <2>1. /\ UNCHANGED <<mode, plans, waves, proc>> /\ proc[plans[r][ix[r]]] = "exited"
        /\ pc'[r] = "done" \/ (pc'[r] = "seq" /\ ix'[r] = ix[r] + 1)
    BY <1>4 DEF SeqNext, Goto, TypeOK, workerVars
  <2>2. ASSUME NEW k \in DOMAIN plans[r], k < ix[r] + 1 PROVE proc[plans[r][k]] = "exited"
    <3>1. k < ix[r] \/ k = ix[r]
      BY <1>1, <2>2
    <3> QED BY <1>2, <2>1, <3>1
  <2> QED BY <1>1, <2>1, <2>2 DEF InOrder, Filling, Waiting
<1> QED BY <1>3, <1>4

AllInOrder == \A r \in Run : InOrder(r)

LEMMA InitInOrder == Init => AllInOrder
<1> SUFFICES ASSUME Init, NEW r \in Run PROVE InOrder(r)
  BY DEF AllInOrder
<1>1. pc[r] = "idle" /\ mode[r] = "none" /\ plans[r] = <<>> /\ waves[r] = <<>>
  BY ActorFacts DEF Init
<1> QED BY <1>1 DEF InOrder, ClashFree, Filling, Waiting

LEMMA NextInOrder == Base /\ AllInOrder /\ [Next]_vars => AllInOrder'
<1> SUFFICES ASSUME Base, AllInOrder, [Next]_vars, NEW r \in Run PROVE InOrder(r)'
  BY DEF AllInOrder
<1>1. InOrder(r)
  BY DEF AllInOrder
<1>2. ASSUME Begin(r) \/ RunStep(r) \/ Crash(r) \/ PollStep(r) PROVE InOrder(r)'
  BY <1>1, <1>2, EarlyInOrder, LaterInOrder, LaunchInOrder, SeqInOrder DEF RunStep
<1>3. ASSUME NEW q \in Run, q # r, Begin(q) \/ RunStep(q) \/ Crash(q) PROVE InOrder(r)'
  BY <1>1, <1>3, OthersStand, BystanderInOrder DEF Base
<1>4. ASSUME NEW p \in Actor, p # r, PollStep(p) PROVE InOrder(r)'
  BY <1>1, <1>4, PollersStand, BystanderInOrder DEF Base
<1>5. ASSUME NEW t \in Task, WorkerStep(t) PROVE InOrder(r)'
  BY <1>1, <1>5, WorkersStand, BystanderInOrder DEF Base
<1>6. CASE UNCHANGED vars
  <2>1. Bystander(r)
    BY <1>6 DEF vars, launchVars, workerVars, Bystander, Onward
  <2> QED BY <1>1, <2>1, BystanderInOrder
<1> QED BY <1>2, <1>3, <1>4, <1>5, <1>6 DEF Next

LEMMA NoClashFollows == Base /\ AllInOrder /\ WaveBarrier => NoClashAtWork
<1> SUFFICES ASSUME Base, AllInOrder, WaveBarrier, NEW r \in Run,
                    NEW m \in DOMAIN plans[r], NEW n \in DOMAIN plans[r],
                    plans[r][m] # plans[r][n],
                    AtWork(plans[r][m]), AtWork(plans[r][n])
             PROVE  ~Clash(plans[r][m], plans[r][n])
  BY DEF NoClashAtWork, Tasks
<1>1. /\ plans[r] \in Seq(Task) /\ waves[r] \in Seq(Seq(Task)) /\ InOrder(r)
  BY DEF Base, Typing, TypeOK, AllInOrder
<1>2. CASE mode[r] = "sequential"
  <2>1. m < n \/ n < m
    BY <1>1
  <2> QED BY <1>1, <1>2, <2>1 DEF InOrder, AtWork
<1>3. CASE mode[r] # "sequential"
  <2>1. PICK i \in DOMAIN waves[r] : \E k \in DOMAIN waves[r][i] : waves[r][i][k] = plans[r][m]
    BY <1>1, <1>3 DEF InOrder, AtWork
  <2>2. PICK k \in DOMAIN waves[r][i] : waves[r][i][k] = plans[r][m]
    BY <2>1
  <2>3. PICK j \in DOMAIN waves[r] : \E l \in DOMAIN waves[r][j] : waves[r][j][l] = plans[r][n]
    BY <1>1, <1>3 DEF InOrder, AtWork
  <2>4. PICK l \in DOMAIN waves[r][j] : waves[r][j][l] = plans[r][n]
    BY <2>3
  <2>5. Started(r, i) /\ Started(r, j) /\ ~AllOk(r, i) /\ ~AllOk(r, j)
    BY <2>2, <2>4 DEF Started, AllOk, AtWork
  <2>6. ~(i \in 1 .. j - 1) /\ ~(j \in 1 .. i - 1)
    BY <2>5 DEF WaveBarrier
  <2>7. i = j
    BY <1>1, <2>6
  <2> QED BY <1>1, <2>2, <2>4, <2>7 DEF InOrder, ClashFree
<1> QED BY <1>2, <1>3

(* With one launcher at a time and no monitor, no worker of a wave starts  *)
(* before every worker of every earlier wave has a result with exit code   *)
(* 0, whatever crashes, kills and torn files intervene.                    *)
THEOREM BarrierHolds ==
  ASSUME ~Overlap, Monitor = {}
  PROVE  Spec => []WaveBarrier
<1> DEFINE Inv == Base /\ Exclusive /\ AllGuarded
<1>1. Init => Inv
  BY InitTyping, InitAllRuns, InitHonest, InitGuarded DEF Base
<1>2. Inv /\ [Next]_vars => Inv'
  <2>1. Base /\ [Next]_vars => Base'
    BY NextTyping, NextAllRuns, NextHonest DEF Base
  <2>2. Base /\ Exclusive /\ [Next]_vars => Exclusive'
    BY OneAtATime DEF Base
  <2> QED BY <2>1, <2>2, NextGuarded
<1>3. Inv => WaveBarrier
  BY GuardedBarrier
<1> QED BY <1>1, <1>2, <1>3, PTL DEF Spec

(* With one launcher at a time and no monitor, two tasks of a run that     *)
(* share a group, a lock or high risk are never at work at once, even when *)
(* the gate gave no report.                                                *)
THEOREM NoClash ==
  ASSUME ~Overlap, Monitor = {}
  PROVE  Spec => []NoClashAtWork
<1>1. Init => Base /\ AllInOrder
  BY InitTyping, InitAllRuns, InitHonest, InitInOrder DEF Base
<1>2. Base /\ AllInOrder /\ [Next]_vars => (Base /\ AllInOrder)'
  BY NextTyping, NextAllRuns, NextHonest, NextInOrder DEF Base
<1>3. Spec => []WaveBarrier
  BY BarrierHolds
<1>4. Base /\ AllInOrder /\ WaveBarrier => NoClashAtWork
  BY NoClashFollows
<1> QED BY <1>1, <1>2, <1>3, <1>4, PTL DEF Spec

-----------------------------------------------------------------------------
(***************************************************************************)
(* OnFile: what a run has recorded is on file too, as nobody else writes.  *)
(***************************************************************************)
OnFile(r) ==
  /\ pc[r] \in Filling =>
       \A k \in DOMAIN waves[r][at[r]] : k < ix[r] => Recorded(file, waves[r][at[r]][k])
  /\ pc[r] \in Waiting =>
       \A k \in DOMAIN waves[r][at[r]] : Recorded(file, waves[r][at[r]][k])

LEMMA WriteOnFile ==
  ASSUME Base, NEW r \in Run, Guarded(r), OnFile(r), FillRecord(r) \/ PollStep(r)
  PROVE  OnFile(r)'
<1> USE ActorFacts DEF Base, Typing
<1>1. UNCHANGED <<waves, at>>
  BY DEF FillRecord, PollStep, ReadResults, CheckProcesses, FillPoll, launchVars
<1>2. CASE FillRecord(r)
  <2>1. pc[r] = "record.fill" /\ file' = mem[r]
    BY <1>2 DEF FillRecord
  <2>2. \A k \in DOMAIN waves[r][at[r]] :
          k <= ix[r] => Recorded(file', waves[r][at[r]][k])
    BY <2>1 DEF Guarded, Listed, Recorded
  <2>3. /\ at[r] \in DOMAIN waves[r] /\ ix[r] \in Nat
        /\ waves[r] \in Seq(Seq(Task))
    BY <2>1 DEF AllRuns, RunInv, Position, Filling, TypeOK
  <2>4. waves[r][at[r]] \in Seq(Task)
    BY <2>3
  <2>5. CASE ix[r] = Len(waves[r][at[r]])
    <3>1. pc'[r] = "poll"
      BY <1>2, <2>5 DEF FillRecord, Goto, TypeOK
    <3>2. \A k \in DOMAIN waves[r][at[r]] : k <= ix[r]
      BY <2>4, <2>5
    <3> QED BY <1>1, <2>2, <3>1, <3>2 DEF OnFile, Filling, Recorded
  <2>6. CASE ix[r] # Len(waves[r][at[r]])
    <3>1. pc'[r] = "launch" /\ ix'[r] = ix[r] + 1
      BY <1>2, <2>6 DEF FillRecord, Goto, TypeOK
    <3>2. \A k \in DOMAIN waves[r][at[r]] : k < ix[r] + 1 => k <= ix[r]
      BY <2>3, <2>4
    <3> QED BY <1>1, <2>2, <3>1, <3>2 DEF OnFile, Waiting, Recorded
  <2> QED BY <2>5, <2>6
<1>3. CASE PollStep(r)
  <2>1. pc[r] \in Waiting /\ pc'[r] \in Waiting \cup {"failed"}
    BY <1>3 DEF Waiting, PollStep, ReadResults, CheckProcesses, FillPoll, Goto, TypeOK
  <2>2. \A k \in DOMAIN waves[r][at[r]] : Recorded(file', waves[r][at[r]][k])
    <3>1. CASE FillPoll(r)
      <4>1. pc[r] = "poll.fill" /\ file' = mem[r]
        BY <3>1 DEF FillPoll
      <4> QED BY <4>1 DEF Guarded, Listed, Recorded
    <3>2. CASE ~FillPoll(r)
      <4>1. file' = file
        BY <1>3, <3>2 DEF PollStep, ReadResults, CheckProcesses
      <4> QED BY <2>1, <4>1 DEF OnFile, Recorded
    <3> QED BY <3>1, <3>2
  <2> QED BY <1>1, <2>1, <2>2 DEF OnFile, Filling, Waiting, Recorded
<1> QED BY <1>2, <1>3

LEMMA OwnStepOnFile ==
  ASSUME Base, NEW r \in Run, Guarded(r), OnFile(r),
         Begin(r) \/ RunStep(r) \/ Crash(r) \/ PollStep(r)
  PROVE  OnFile(r)'
<1> USE ActorFacts DEF Base, Typing
<1>1. CASE Launch(r) \/ Record(r)
  <2>1. /\ pc[r] \in Filling /\ pc'[r] \in {"record", "record.fill"}
        /\ UNCHANGED <<waves, at, ix, file>>
    BY <1>1 DEF Filling, Launch, Record, Goto, TypeOK, launchVars
  <2> QED BY <2>1 DEF OnFile, Filling, Waiting, Recorded
<1>2. CASE FillReset(r) \/ Reread(r)
  <2>1. /\ pc'[r] \in {"done", "launch"}
        /\ pc'[r] = "launch" => ix'[r] = 1
    BY <1>2 DEF FillReset, Reread, Goto, TypeOK, launchVars, AllRuns, RunInv, Position
  <2>2. pc'[r] = "launch" => at'[r] \in DOMAIN waves'[r] /\ waves'[r] \in Seq(Seq(Task))
    BY <1>2, OwnStepInv, RunStepTyping DEF RunStep, AllRuns, RunInv, Position, Filling, TypeOK
  <2>3. pc'[r] = "launch" => \A k \in DOMAIN waves'[r][at'[r]] : ~(k < 1)
    BY <2>2
  <2> QED BY <2>1, <2>3 DEF OnFile, Filling, Waiting
<1>3. ASSUME Begin(r) \/ GatePass(r) \/ GateBlock(r) \/ GateUnparsed(r) \/ Capacity(r)
               \/ PlanTask(r) \/ Reset(r) \/ WorktreeFails(r) \/ RecordFails(r) \/ ReadFails(r)
               \/ SeqLaunch(r) \/ SeqNext(r) \/ Crash(r)
      PROVE  OnFile(r)'
  <2>1. pc'[r] \notin Filling \cup Waiting
    BY <1>3 DEF Filling, Waiting, Begin, GatePass, GateBlock, GateUnparsed, Capacity, PlanTask,
      Reset, WorktreeFails, RecordFails, ReadFails, SeqLaunch, SeqNext, Crash, Goto, TypeOK
  <2> QED BY <2>1 DEF OnFile
<1> QED BY <1>1, <1>2, <1>3, WriteOnFile DEF RunStep

AllOnFile == \A r \in Run : OnFile(r)

LEMMA NextOnFile ==
  ASSUME ~Overlap, Monitor = {}, Base, Exclusive, AllGuarded, AllOnFile, [Next]_vars
  PROVE  AllOnFile'
<1> SUFFICES ASSUME NEW r \in Run PROVE OnFile(r)'
  BY DEF AllOnFile
<1>1. Guarded(r) /\ OnFile(r)
  BY DEF AllGuarded, AllOnFile
<1>2. ASSUME NEW q \in Run, Begin(q) \/ RunStep(q) \/ Crash(q) \/ PollStep(q), q # r
      PROVE  OnFile(r)'
  <2>1. ~Active(r) /\ Bystander(r)
    BY <1>2, OthersIdle
  <2> QED BY <2>1 DEF OnFile, Bystander, Active, Filling, Waiting
<1>3. ASSUME NEW q \in Run, Begin(q) \/ RunStep(q) \/ Crash(q) \/ PollStep(q)
      PROVE  OnFile(r)'
  BY <1>1, <1>2, <1>3, OwnStepOnFile
<1>4. ASSUME NEW t \in Task, WorkerStep(t) PROVE OnFile(r)'
  <2>1. UNCHANGED file
    BY <1>4 DEF WorkerStep, BeginResult, EndResult, Exit, StopWorker, GrowOld
  <2> QED BY <1>1, <1>4, <2>1, WorkersStand DEF Base, OnFile, Bystander, Recorded
<1>5. CASE UNCHANGED vars
  BY <1>1, <1>5 DEF vars, launchVars, OnFile, Recorded
<1>6. Actor = Run
  BY DEF Actor
<1> QED BY <1>3, <1>4, <1>5, <1>6 DEF Next

LEMMA AtWorkFollows ==
  Base /\ AllGuarded /\ AllInOrder /\ AllOnFile => AtWorkIsOnFile
<1> SUFFICES ASSUME Base, AllGuarded, AllInOrder, AllOnFile, NEW r \in Run,
                    mode[r] = "parallel", Active(r),
                    NEW n \in DOMAIN plans[r], AtWork(plans[r][n])
             PROVE  \/ file[plans[r][n]] \in {"running", "stale"}
                    \/ pc[r] \in {"record", "record.fill"} /\ plans[r][n] = Current(r)
  BY DEF AtWorkIsOnFile, Tasks
<1> DEFINE t == plans[r][n]
<1>1. /\ Guarded(r) /\ InOrder(r) /\ OnFile(r) /\ RunInv(r) /\ Typing
      /\ t \in Task /\ owner[t] = r /\ proc[t] = "working" /\ result[t] = "none"
  BY PlansOwned DEF Base, AllGuarded, AllInOrder, AllOnFile, AllRuns, RunInv, AtWork
<1>2. PICK i \in DOMAIN waves[r] : \E k \in DOMAIN waves[r][i] : waves[r][i][k] = t
  BY <1>1 DEF InOrder
<1>3. PICK k \in DOMAIN waves[r][i] : waves[r][i][k] = t
  BY <1>2
<1>4. pc[r] \in Filling \cup Waiting
  <2>1. pc[r] \notin Early
    BY <1>1 DEF RunInv, NotStarted
  <2>2. pc[r] \in Labels
    BY <1>1, ActorFacts DEF Typing, TypeOK
  <2> QED BY <1>1, <2>1, <2>2 DEF InOrder, Active, Early, Filling, Waiting, Labels
<1>5. ~Ahead(r, i, k)
  BY <1>1, <1>3 DEF RunInv, NotStarted
<1>6. waves[r] \in Seq(Seq(Task)) /\ at[r] \in Nat /\ ix[r] \in Nat
  BY <1>1 DEF Typing, TypeOK
<1>7. i = at[r]
  <2>1. ~(i < at[r])
    BY <1>1, <1>3 DEF Guarded, Cleared, AllOk
  <2> QED BY <1>5, <1>6, <2>1 DEF Ahead
<1>8. waves[r][i] \in Seq(Task)
  BY <1>6
<1>9. CASE Recorded(file, t)
  <2>1. VerdictHolds(t, file[t]) /\ file[t] \in Status
    BY <1>1 DEF Base, Honest, VerdictsHold, Typing, TypeOK, Projection
  <2> QED BY <1>1, <1>9, <2>1 DEF Recorded, VerdictHolds, Status
<1>10. CASE pc[r] \in Waiting
  BY <1>1, <1>3, <1>7, <1>9, <1>10 DEF OnFile
<1>11. CASE pc[r] \in Filling
  <2>1. k < ix[r] \/ (k = ix[r] /\ pc[r] \in {"record", "record.fill"})
    BY <1>5, <1>6, <1>7, <1>8, <1>11 DEF Ahead, Filling
  <2>2. k < ix[r] => Recorded(file, t)
    BY <1>1, <1>3, <1>7, <1>11 DEF OnFile
  <2>3. k = ix[r] => t = Current(r)
    BY <1>3, <1>7 DEF Current
  <2> QED BY <1>9, <2>1, <2>2, <2>3
<1> QED BY <1>4, <1>10, <1>11

(* With one launcher at a time and no monitor, every worker a parallel run *)
(* has at work is on file as running or stale, but for the one the run is  *)
(* just adding: no rewrite of active-workers.json ever drops one.          *)
THEOREM WorkersOnFile ==
  ASSUME ~Overlap, Monitor = {}
  PROVE  Spec => []AtWorkIsOnFile
<1> DEFINE Inv == Base /\ Exclusive /\ AllGuarded /\ AllInOrder /\ AllOnFile
<1>1. Init => Inv
  <2>1. Init => AllOnFile
    BY ActorFacts DEF Init, AllOnFile, OnFile, Filling, Waiting
  <2> QED
    BY <2>1, InitTyping, InitAllRuns, InitHonest, InitGuarded, InitInOrder DEF Base
<1>2. Inv /\ [Next]_vars => Inv'
  <2>1. Base /\ [Next]_vars => Base'
    BY NextTyping, NextAllRuns, NextHonest DEF Base
  <2>2. Base /\ Exclusive /\ [Next]_vars => Exclusive'
    BY OneAtATime DEF Base
  <2> QED BY <2>1, <2>2, NextGuarded, NextInOrder, NextOnFile
<1>3. Inv => AtWorkIsOnFile
  BY AtWorkFollows
<1> QED BY <1>1, <1>2, <1>3, PTL DEF Spec

-----------------------------------------------------------------------------
(***************************************************************************)
(* Complete: the waves of a run hold every task planned so far, and all    *)
(* its batch once they are made; a run that is done has every result.      *)
(***************************************************************************)
Holds(w, u) == \E i \in DOMAIN w : \E k \in DOMAIN w[i] : w[i][k] = u

Complete(r) ==
  /\ pc[r] = "plan" =>
       \A n \in DOMAIN plans[r] : n < ix[r] => Holds(waves[r], plans[r][n])
  /\ mode[r] = "parallel" /\ pc[r] \in {"reset", "reset.fill"} \cup Filling \cup Waiting =>
       \A n \in DOMAIN plans[r] : Holds(waves[r], plans[r][n])
  /\ mode[r] = "parallel" /\ pc[r] = "done" =>
       \A n \in DOMAIN plans[r] : result[plans[r][n]] = "ok"

(* Placing a task displaces no other.                                      *)
LEMMA OpenHolds ==
  ASSUME NEW w \in Seq(Seq(Task)), NEW t \in Task, NEW u, Holds(w, u) \/ u = t
  PROVE  Holds(Open(w, t), u)
<1>1. CASE u = t
  <2>1. Len(w) + 1 \in DOMAIN Open(w, t) /\ Open(w, t)[Len(w) + 1] = <<t>>
    BY OpenShape
  <2>2. 1 \in DOMAIN <<t>> /\ <<t>>[1] = t
    OBVIOUS
  <2> QED BY <1>1, <2>1, <2>2 DEF Holds
<1>2. CASE Holds(w, u)
  <2>1. PICK i \in DOMAIN w : \E k \in DOMAIN w[i] : w[i][k] = u
    BY <1>2 DEF Holds
  <2>2. i \in 1 .. Len(w) + 1
    OBVIOUS
  <2>3. i \in DOMAIN Open(w, t) /\ Open(w, t)[i] = w[i]
    BY <2>2, OpenShape
  <2> QED BY <2>1, <2>3 DEF Holds
<1> QED BY <1>1, <1>2

LEMMA JoinHolds ==
  ASSUME NEW w \in Seq(Seq(Task)), NEW t \in Task, NEW h \in DOMAIN w,
         NEW u, Holds(w, u) \/ u = t
  PROVE  Holds(Join(w, h, t), u)
<1>1. /\ h \in DOMAIN Join(w, h, t) /\ Join(w, h, t)[h] = Append(w[h], t)
      /\ w[h] \in Seq(Task)
  BY JoinShape
<1>2. CASE u = t
  <2>1. Len(w[h]) + 1 \in DOMAIN Append(w[h], t) /\ Append(w[h], t)[Len(w[h]) + 1] = t
    BY <1>1, AppendElements
  <2> QED BY <1>1, <1>2, <2>1 DEF Holds
<1>3. CASE Holds(w, u)
  <2>1. PICK i \in DOMAIN w : \E k \in DOMAIN w[i] : w[i][k] = u
    BY <1>3 DEF Holds
  <2>2. PICK k \in DOMAIN w[i] : w[i][k] = u
    BY <2>1
  <2>3. CASE i = h
    <3>1. k \in DOMAIN Append(w[h], t) /\ Append(w[h], t)[k] = w[h][k]
      BY <1>1, <2>2, <2>3, AppendElements
    <3> QED BY <1>1, <2>2, <2>3, <3>1 DEF Holds
  <2>4. CASE i # h
    <3>1. i \in DOMAIN Join(w, h, t) /\ Join(w, h, t)[i] = w[i]
      BY <2>4, JoinShape
    <3> QED BY <2>2, <3>1 DEF Holds
  <2> QED BY <2>3, <2>4
<1> QED BY <1>2, <1>3

LEMMA PlanComplete ==
  ASSUME Base, NEW r \in Run, Complete(r), PlanTask(r)
  PROVE  Complete(r)'
<1> USE ActorFacts DEF Base, Typing
<1> DEFINE t == plans[r][ix[r]]
<1>1. /\ pc[r] = "plan" /\ plans' = plans /\ plans[r] \in Seq(Task)
      /\ ix[r] \in DOMAIN plans[r] /\ t \in Task /\ waves[r] \in Seq(Seq(Task))
  BY DEF PlanTask, InBatch, TypeOK
<1>2. \/ waves'[r] = Open(waves[r], t)
      \/ \E h \in DOMAIN waves[r] : waves'[r] = Join(waves[r], h, t)
  BY DEF PlanTask, TypeOK
<1>3. ASSUME NEW u, Holds(waves[r], u) \/ u = t PROVE Holds(waves'[r], u)
  <2> HIDE DEF t
  <2> QED BY <1>1, <1>2, <1>3, OpenHolds, JoinHolds
<1>4. ASSUME NEW n \in DOMAIN plans[r], n < ix[r] + 1 PROVE Holds(waves'[r], plans[r][n])
  <2>1. n < ix[r] \/ n = ix[r]
    BY <1>1, <1>4
  <2> QED BY <1>1, <1>3, <2>1 DEF Complete
<1>5. \/ ix[r] = Len(plans[r]) /\ pc'[r] = "reset"
      \/ pc'[r] = "plan" /\ ix'[r] = ix[r] + 1
  BY <1>1 DEF PlanTask, Goto, TypeOK
<1>6. ix[r] = Len(plans[r]) => \A n \in DOMAIN plans[r] : n < ix[r] + 1
  BY <1>1
<1> QED BY <1>1, <1>4, <1>5, <1>6 DEF Complete, Holds, Filling, Waiting

LEMMA OwnStepComplete ==
  ASSUME Base, NEW r \in Run, Guarded(r), InOrder(r), Complete(r),
         Begin(r) \/ RunStep(r) \/ Crash(r) \/ PollStep(r)
  PROVE  Complete(r)'
<1> USE ActorFacts DEF Base, Typing
<1>1. ASSUME Begin(r) \/ GatePass(r) \/ GateBlock(r) \/ GateUnparsed(r) \/ WorktreeFails(r)
               \/ RecordFails(r) \/ ReadFails(r) \/ Crash(r)
      PROVE  Complete(r)'
  <2>1. pc'[r] \in {"gate", "capacity", "failed"}
    BY <1>1 DEF Begin, GatePass, GateBlock, GateUnparsed, WorktreeFails, RecordFails,
      ReadFails, Crash, Goto, TypeOK
  <2> QED BY <2>1 DEF Complete, Filling, Waiting
<1>2. CASE Capacity(r)
  <2>1. /\ ix'[r] = 1 /\ plans' = plans /\ plans[r] \in Seq(Task) /\ mode' = mode
        /\ pc'[r] \in {"seq", "reset", "done", "failed", "plan"}
        /\ pc'[r] \in {"reset", "done"} => mode[r] # "parallel"
    BY <1>2 DEF Capacity, InBatch, Goto, TypeOK
  <2>2. \A n \in DOMAIN plans[r] : ~(n < 1)
    BY <2>1
  <2> QED BY <2>1, <2>2 DEF Complete, Filling, Waiting
<1>3. CASE SeqLaunch(r) \/ SeqNext(r)
  <2>1. mode'[r] = "sequential" /\ pc'[r] # "plan"
    BY <1>3 DEF SeqLaunch, SeqNext, InOrder, Goto, TypeOK, launchVars
  <2> QED BY <2>1 DEF Complete
<1>4. ASSUME Reset(r) \/ FillReset(r) \/ Launch(r) \/ Record(r) \/ FillRecord(r) \/ PollStep(r)
               \/ (Reread(r) /\ at[r] # Len(waves[r]))
      PROVE  Complete(r)'
  <2>1. /\ UNCHANGED <<mode, plans, waves>>
        /\ mode[r] = "parallel" =>
             /\ pc[r] \in {"reset", "reset.fill"} \cup Filling \cup Waiting
             /\ pc'[r] \in {"reset", "reset.fill", "failed"} \cup Filling \cup Waiting
        /\ pc'[r] # "plan"
    BY <1>4 DEF Reset, FillReset, Launch, Record, FillRecord, PollStep, ReadResults,
      CheckProcesses, FillPoll, Reread, Goto, TypeOK, launchVars, Filling, Waiting
  <2> QED BY <2>1 DEF Complete, Holds, Filling, Waiting
<1>5. CASE Reread(r) /\ at[r] = Len(waves[r])
  <2>1. /\ pc[r] = "reread" /\ pc'[r] = "done" /\ UNCHANGED <<mode, plans, result>>
        /\ waves[r] \in Seq(Seq(Task))
    BY <1>5 DEF Reread, Goto, TypeOK, workerVars
  <2>2. ASSUME mode[r] = "parallel", NEW n \in DOMAIN plans[r]
        PROVE  result[plans[r][n]] = "ok"
    <3>1. PICK i \in DOMAIN waves[r] : \E k \in DOMAIN waves[r][i] : waves[r][i][k] = plans[r][n]
      BY <2>1, <2>2 DEF Complete, Holds, Waiting
    <3>2. i < at[r] \/ i = at[r]
      BY <1>5, <2>1
    <3>3. AllOk(r, i)
      BY <2>1, <3>2 DEF Guarded, Cleared
    <3> QED BY <3>1, <3>3 DEF AllOk
  <2> QED BY <2>1, <2>2 DEF Complete, Filling, Waiting
<1> QED BY <1>1, <1>2, <1>3, <1>4, <1>5, PlanComplete DEF RunStep

AllComplete == \A r \in Run : Complete(r)

LEMMA BystanderComplete ==
  ASSUME Base, Forward, NEW r \in Run, Complete(r), Bystander(r)
  PROVE  Complete(r)'
<1>1. \A n \in DOMAIN plans[r] : plans[r][n] \in Task
  BY PlansOwned DEF Base, AllRuns, RunInv
<1> QED BY <1>1 DEF Complete, Bystander, Forward, Holds

LEMMA NextComplete ==
  Base /\ AllGuarded /\ AllInOrder /\ AllComplete /\ [Next]_vars => AllComplete'
<1> SUFFICES ASSUME Base, AllGuarded, AllInOrder, AllComplete, [Next]_vars, NEW r \in Run
             PROVE  Complete(r)'
  BY DEF AllComplete
<1>1. Guarded(r) /\ InOrder(r) /\ Complete(r) /\ Forward
  BY NextForward DEF AllGuarded, AllInOrder, AllComplete, Base, Honest
<1>2. ASSUME Begin(r) \/ RunStep(r) \/ Crash(r) \/ PollStep(r) PROVE Complete(r)'
  BY <1>1, <1>2, OwnStepComplete
<1>3. ASSUME NEW q \in Run, q # r, Begin(q) \/ RunStep(q) \/ Crash(q) PROVE Complete(r)'
  BY <1>1, <1>3, OthersStand, BystanderComplete DEF Base
<1>4. ASSUME NEW p \in Actor, p # r, PollStep(p) PROVE Complete(r)'
  BY <1>1, <1>4, PollersStand, BystanderComplete DEF Base
<1>5. ASSUME NEW t \in Task, WorkerStep(t) PROVE Complete(r)'
  BY <1>1, <1>5, WorkersStand, BystanderComplete DEF Base
<1>6. CASE UNCHANGED vars
  <2>1. Bystander(r)
    BY <1>6 DEF vars, launchVars, workerVars, Bystander, Onward
  <2> QED BY <1>1, <2>1, BystanderComplete
<1> QED BY <1>2, <1>3, <1>4, <1>5, <1>6 DEF Next

(* With one launcher at a time and no monitor, a parallel run that ends    *)
(* well has a result with exit code 0 of every task of its batch: none was *)
(* lost in planning, and none was taken for done that was not.             *)
THEOREM SuccessMeansAllDone ==
  ASSUME ~Overlap, Monitor = {}
  PROVE  Spec => []SuccessIsComplete
<1> DEFINE Inv == Base /\ Exclusive /\ AllGuarded /\ AllInOrder /\ AllComplete
<1>1. Init => Inv
  <2>1. Init => AllComplete
    BY ActorFacts DEF Init, AllComplete, Complete, Filling, Waiting
  <2> QED
    BY <2>1, InitTyping, InitAllRuns, InitHonest, InitGuarded, InitInOrder DEF Base
<1>2. Inv /\ [Next]_vars => Inv'
  <2>1. Base /\ [Next]_vars => Base'
    BY NextTyping, NextAllRuns, NextHonest DEF Base
  <2>2. Base /\ Exclusive /\ [Next]_vars => Exclusive'
    BY OneAtATime DEF Base
  <2> QED BY <2>1, <2>2, NextGuarded, NextInOrder, NextComplete
<1>3. Inv => SuccessIsComplete
  BY DEF AllComplete, Complete, SuccessIsComplete, Tasks
<1> QED BY <1>1, <1>2, <1>3, PTL DEF Spec

-----------------------------------------------------------------------------
(* A set whose members all stand in a sequence is no larger than it is     *)
(* long.                                                                   *)
LEMMA FewerThanPlaces ==
  ASSUME NEW s \in Seq(Task), NEW S, \A x \in S : \E k \in DOMAIN s : s[k] = x
  PROVE  Cardinality(S) \in Nat /\ Cardinality(S) <= Len(s)
<1> DEFINE place == [x \in S |-> CHOOSE k \in DOMAIN s : s[k] = x]
<1>1. \A x \in S : place[x] \in DOMAIN s /\ s[place[x]] = x
  OBVIOUS
<1>2. place \in [S -> 1 .. Len(s)]
  BY <1>1
<1>3. \A x, y \in S : place[x] = place[y] => x = y
  BY <1>1
<1>4. place \in Injection(S, 1 .. Len(s))
  BY <1>2, <1>3 DEF Injection, IsInjective
<1>5. IsFiniteSet(1 .. Len(s)) /\ Cardinality(1 .. Len(s)) = Len(s)
  <2>1. Len(s) \in Nat
    OBVIOUS
  <2>2. Cardinality(1 .. Len(s)) = IF 1 > Len(s) THEN 0 ELSE Len(s) - 1 + 1
    BY <2>1, FS_Interval
  <2> QED BY <2>1, <2>2, FS_Interval
<1>6. IsFiniteSet(S) /\ Cardinality(S) <= Cardinality(1 .. Len(s))
  <2> HIDE DEF place
  <2> QED BY <1>4, <1>5, FS_Injection
<1> QED BY <1>5, <1>6, FS_CardinalityType

(* Workers at work are all of one wave, and a wave is no longer than the   *)
(* cap; a sequential run has one at work at most.                          *)
LEMMA CapFollows == Base /\ AllInOrder /\ WaveBarrier => CapRespected
<1> SUFFICES ASSUME Base, AllInOrder, WaveBarrier, NEW r \in Run
             PROVE  Cardinality({t \in Tasks(r) : AtWork(t)}) <= cap[r]
  BY DEF CapRespected
<1> DEFINE S == {t \in Tasks(r) : AtWork(t)}
<1>1. /\ plans[r] \in Seq(Task) /\ waves[r] \in Seq(Seq(Task)) /\ cap[r] \in Nat \ {0}
      /\ InOrder(r) /\ Capped(waves[r], cap[r])
  BY DEF Base, Typing, TypeOK, AllInOrder, AllRuns, RunInv, Position
<1>2. CASE S = {}
  <2>1. Cardinality(S) = 0
    BY <1>2, FS_EmptySet
  <2> QED BY <1>1, <2>1
<1>3. CASE S # {} /\ mode[r] = "sequential"
  <2>1. PICK t \in S : TRUE
    BY <1>3
  <2>2. ASSUME NEW u \in S PROVE u = t
    <3>1. PICK m \in DOMAIN plans[r] : plans[r][m] = t
      BY <2>1 DEF Tasks
    <3>2. PICK n \in DOMAIN plans[r] : plans[r][n] = u
      BY <2>2 DEF Tasks
    <3>3. ~(m < n) /\ ~(n < m)
      BY <1>1, <1>3, <2>1, <2>2, <3>1, <3>2 DEF InOrder, AtWork
    <3>4. m = n
      BY <1>1, <3>3
    <3> QED BY <3>1, <3>2, <3>4
  <2>3. S = {t}
    BY <2>1, <2>2
  <2>4. Cardinality(S) = 1
    BY <2>3, FS_Singleton
  <2> QED BY <1>1, <2>4
<1>4. CASE S # {} /\ mode[r] # "sequential"
  <2>1. ASSUME NEW u \in S
        PROVE  \E i \in DOMAIN waves[r] : \E k \in DOMAIN waves[r][i] : waves[r][i][k] = u
    BY <1>1, <1>4, <2>1 DEF InOrder, AtWork, Tasks
  <2>2. PICK t \in S : TRUE
    BY <1>4
  <2>3. PICK i \in DOMAIN waves[r] : \E k \in DOMAIN waves[r][i] : waves[r][i][k] = t
    BY <2>1, <2>2
  <2>4. ASSUME NEW u \in S PROVE \E k \in DOMAIN waves[r][i] : waves[r][i][k] = u
    <3>1. PICK j \in DOMAIN waves[r] : \E l \in DOMAIN waves[r][j] : waves[r][j][l] = u
      BY <2>1, <2>4
    <3>2. Started(r, i) /\ ~AllOk(r, i) /\ Started(r, j) /\ ~AllOk(r, j)
      BY <2>2, <2>3, <2>4, <3>1 DEF Started, AllOk, AtWork
    <3>3. ~(i \in 1 .. j - 1) /\ ~(j \in 1 .. i - 1)
      BY <3>2 DEF WaveBarrier
    <3>4. i = j
      BY <1>1, <3>3
    <3> QED BY <3>1, <3>4
  <2>5. waves[r][i] \in Seq(Task) /\ Len(waves[r][i]) <= cap[r]
    BY <1>1 DEF Capped
  <2>6. Cardinality(S) \in Nat /\ Cardinality(S) <= Len(waves[r][i])
    <3> HIDE DEF S
    <3> QED BY <2>4, <2>5, FewerThanPlaces
  <2>7. Len(waves[r][i]) \in Nat
    BY <2>5
  <2> QED BY <1>1, <2>5, <2>6, <2>7
<1> QED BY <1>2, <1>3, <1>4

(* With one launcher at a time and no monitor, a run never has more        *)
(* workers at work than the parallelism it settled on.                     *)
THEOREM CapHolds ==
  ASSUME ~Overlap, Monitor = {}
  PROVE  Spec => []CapRespected
<1>1. Init => Base /\ AllInOrder
  BY InitTyping, InitAllRuns, InitHonest, InitInOrder DEF Base
<1>2. Base /\ AllInOrder /\ [Next]_vars => (Base /\ AllInOrder)'
  BY NextTyping, NextAllRuns, NextHonest, NextInOrder DEF Base
<1>3. Spec => []WaveBarrier
  BY BarrierHolds
<1>4. Base /\ AllInOrder /\ WaveBarrier => CapRespected
  BY CapFollows
<1> QED BY <1>1, <1>2, <1>3, <1>4, PTL DEF Spec

-----------------------------------------------------------------------------
(***************************************************************************)
(* Tracks: what the run is about to write is one legal move away from what *)
(* is on file.  A task a run has not come to yet is on nobody's file or    *)
(* copy; a copy differs from the file by the one worker being added, or by *)
(* the verdicts of one poll.                                               *)
(***************************************************************************)
Unknown(r) ==
  \A t \in Task : owner[t] = r =>
    /\ file[t] = "null"
    /\ \A q \in Run : q # r /\ mem[q] \in Projection => mem[q][t] = "null"

Emptied(r, t) ==
  mem[r][t] = "null" \/ (mem[r][t] = "planned" /\ mode[r] = "dry-run" /\ owner[t] = r)

\* Place k of wave i is not recorded yet.
Unrecorded(r, i, k) == i > at[r] \/ (i = at[r] /\ pc[r] \in Filling /\ k >= ix[r])

Judged(r, t) ==
  \/ mem[r][t] = file[t]
  \/ file[t] = "running" /\ mem[r][t] \in {"completed", "failed", "stale"}

Tracks(r) ==
  /\ pc[r] \in Early => Unknown(r)
  /\ pc[r] = "reset.fill" => \A t \in Task : Emptied(r, t)
  /\ pc[r] \in Filling \cup Waiting =>
       /\ \A t \in Task : file[t] # "planned"
       /\ \A i \in DOMAIN waves[r] : \A k \in DOMAIN waves[r][i] :
            Unrecorded(r, i, k) => file[waves[r][i][k]] = "null"
  /\ pc[r] \in {"launch", "record"} => mem[r] = NoManifest \/ mem[r] = file
  /\ pc[r] = "record.fill" => mem[r] = [file EXCEPT ![Current(r)] = "running"]
  /\ pc[r] \in {"check", "poll.fill"} => \A t \in Task : Judged(r, t)

(* Up to the first write.                                                  *)
LEMMA EarlyTracks ==
  ASSUME Base, NEW r \in Run, Tracks(r),
         Begin(r) \/ GatePass(r) \/ GateBlock(r) \/ GateUnparsed(r) \/ Capacity(r)
           \/ PlanTask(r) \/ Reset(r)
  PROVE  Tracks(r)'
<1> USE ActorFacts DEF Base, Typing
<1>1. /\ pc[r] \in Early
      /\ pc'[r] \in Early \cup {"seq", "failed", "done"}
      /\ file' = file
      /\ \A q \in Run : q # r => mem'[q] = mem[q]
  BY DEF Early, Begin, GatePass, GateBlock, GateUnparsed, Capacity, PlanTask, Reset, Goto, TypeOK
<1>2. Unknown(r)'
  BY <1>1 DEF Tracks, Unknown
<1>3. pc'[r] = "reset.fill" => \A t \in Task : Emptied(r, t)'
  <2>1. CASE Reset(r)
    <3>1. /\ mem'[r] = [t \in Task |-> IF mode[r] = "dry-run" /\ t \in Tasks(r)
                                       THEN "planned" ELSE "null"]
          /\ mode' = mode
      BY <2>1 DEF Reset, TypeOK, launchVars
    <3>2. \A t \in Task : t \in Tasks(r) => owner[t] = r
      BY DEF Tasks, AllRuns, RunInv, Batch
    <3> QED BY <3>1, <3>2 DEF Emptied
  <2>2. CASE ~Reset(r)
    BY <2>2 DEF Begin, GatePass, GateBlock, GateUnparsed, Capacity, PlanTask, Goto, TypeOK
  <2> QED BY <2>1, <2>2
<1> QED BY <1>1, <1>2, <1>3 DEF Tracks, Early, Filling, Waiting

LEMMA FillResetTracks ==
  ASSUME Base, NEW r \in Run, Tracks(r), FillReset(r)
  PROVE  Tracks(r)'
<1> USE ActorFacts DEF Base, Typing
<1>1. /\ pc[r] = "reset.fill" /\ file' = mem[r] /\ mem' = mem /\ waves' = waves
      /\ pc'[r] = IF mode[r] = "dry-run" THEN "done" ELSE "launch"
      /\ waves[r] \in Seq(Seq(Task))
  BY DEF FillReset, Goto, TypeOK, launchVars
<1>2. CASE mode[r] = "dry-run"
  BY <1>1, <1>2 DEF Tracks, Early, Filling, Waiting
<1>3. CASE mode[r] # "dry-run"
  <2>1. \A t \in Task : file'[t] = "null"
    BY <1>1, <1>3 DEF Tracks, Emptied
  <2>2. \A i \in DOMAIN waves[r] : \A k \in DOMAIN waves[r][i] : waves[r][i][k] \in Task
    BY WavesOwned DEF AllRuns
  <2> QED BY <1>1, <1>3, <2>1, <2>2 DEF Tracks, Early, Filling, Waiting
<1> QED BY <1>2, <1>3

LEMMA FillTracks ==
  ASSUME Base, NEW r \in Run, Tracks(r), Launch(r) \/ Record(r) \/ FillRecord(r)
  PROVE  Tracks(r)'
<1> USE ActorFacts DEF Base, Typing
<1>1. /\ pc[r] \in Filling /\ UNCHANGED <<waves, at>>
      /\ waves[r] \in Seq(Seq(Task)) /\ ix[r] \in Nat /\ at[r] \in Nat
      /\ at[r] \in DOMAIN waves[r] /\ ix[r] \in DOMAIN waves[r][at[r]]
  BY DEF Filling, Launch, Record, FillRecord, launchVars, TypeOK, AllRuns, RunInv, Position
<1>2. Current(r) \in Task
  BY <1>1, WavesOwned DEF Current, AllRuns
<1>3. CASE Launch(r)
  <2>1. pc[r] = "launch" /\ pc'[r] = "record" /\ UNCHANGED <<ix, mem, file>>
    BY <1>3 DEF Launch, Goto, TypeOK, launchVars
  <2> QED BY <1>1, <2>1 DEF Tracks, Early, Filling, Waiting, Unrecorded
<1>4. CASE Record(r)
  <2>1. /\ pc[r] = "record" /\ pc'[r] = "record.fill" /\ UNCHANGED <<ix, file>>
        /\ mem[r] # NoManifest /\ mem'[r] = [mem[r] EXCEPT ![Current(r)] = "running"]
        /\ Current(r)' = Current(r)
    BY <1>4 DEF Record, Goto, TypeOK, launchVars, Current
  <2>2. mem'[r] = [file EXCEPT ![Current(r)] = "running"]
    BY <2>1 DEF Tracks
  <2> QED BY <1>1, <2>1, <2>2 DEF Tracks, Early, Filling, Waiting, Unrecorded
<1>5. CASE FillRecord(r)
  <2>1. /\ pc[r] = "record.fill" /\ file' = mem[r] /\ mem' = mem
        /\ mem[r] = [file EXCEPT ![Current(r)] = "running"]
        /\ \/ pc'[r] = "poll" /\ ix[r] = Len(waves[r][at[r]])
           \/ pc'[r] = "launch" /\ ix'[r] = ix[r] + 1
    BY <1>5 DEF FillRecord, Goto, TypeOK, Tracks
  <2>2. \A t \in Task : file'[t] = IF t = Current(r) THEN "running" ELSE file[t]
    BY <1>2, <2>1 DEF TypeOK, Projection
  <2>3. \A t \in Task : file'[t] # "planned"
    BY <2>1, <2>2 DEF Tracks, Filling
  <2>4. ASSUME NEW i \in DOMAIN waves[r], NEW k \in DOMAIN waves[r][i], Unrecorded(r, i, k)'
        PROVE  file'[waves[r][i][k]] = "null"
    <3>1. k \in Nat /\ i \in Nat
      BY <1>1
    <3>2. Unrecorded(r, i, k) /\ ~(i = at[r] /\ k = ix[r])
      BY <1>1, <2>1, <2>4, <3>1 DEF Unrecorded, Filling
    <3>3. waves[r][i][k] # Current(r)
      BY <1>1, <3>2 DEF AllRuns, RunInv, Placed, Current
    <3>4. waves[r][i][k] \in Task
      BY WavesOwned DEF AllRuns
    <3>5. file[waves[r][i][k]] = "null"
      BY <2>1, <3>2 DEF Tracks, Filling
    <3> QED BY <2>2, <3>3, <3>4, <3>5
  <2>5. pc'[r] \notin {"record", "record.fill", "check", "poll.fill"} \cup Early
    BY <2>1 DEF Early
  <2> QED BY <1>1, <2>1, <2>3, <2>4, <2>5 DEF Tracks
<1> QED BY <1>3, <1>4, <1>5

LEMMA PollTracks ==
  ASSUME Base, NEW r \in Run, Tracks(r), PollStep(r)
  PROVE  Tracks(r)'
<1> USE ActorFacts DEF Base, Typing
<1>1. /\ pc[r] \in Waiting /\ UNCHANGED <<waves, at, ix>>
      /\ pc'[r] \in Waiting \cup {"failed"}
  BY DEF Waiting, PollStep, ReadResults, CheckProcesses, FillPoll, Goto, TypeOK, launchVars
<1>2. \A i \in DOMAIN waves[r] : \A k \in DOMAIN waves[r][i] : waves[r][i][k] \in Task
  BY WavesOwned DEF AllRuns
<1>3. \A t \in Task : file[t] \in Status
  BY DEF TypeOK, Projection
<1>4. CASE ReadResults(r)
  <2>1. /\ pc'[r] = "check" /\ file' = file
        /\ mem'[r] = [t \in Task |-> ByResult(t, file[t])]
    BY <1>4 DEF ReadResults, Goto, TypeOK
  <2>2. \A t \in Task : Judged(r, t)'
    BY <1>1, <1>3, <2>1 DEF Tracks, Judged, ByResult, Unsettled, Status
  <2> QED BY <1>1, <2>1, <2>2 DEF Tracks, Early, Filling, Waiting, Unrecorded
<1>5. CASE CheckProcesses(r)
  <2>1. /\ pc[r] = "check" /\ pc'[r] = "poll.fill" /\ file' = file
        /\ mem'[r] = [t \in Task |-> ByProcess(t, mem[r][t])]
    BY <1>5 DEF CheckProcesses, Goto, TypeOK
  <2>2. \A t \in Task : Judged(r, t)'
    BY <2>1 DEF Tracks, Judged, ByProcess
  <2> QED BY <1>1, <2>1, <2>2 DEF Tracks, Early, Filling, Waiting, Unrecorded
<1>6. CASE FillPoll(r)
  <2>1. /\ pc[r] = "poll.fill" /\ file' = mem[r]
        /\ pc'[r] \in {"poll", "failed", "reread"}
    BY <1>6 DEF FillPoll, Goto, TypeOK
  <2>2. \A t \in Task : Judged(r, t)
    BY <2>1 DEF Tracks
  <2>3. \A t \in Task : file'[t] # "planned" /\ (file[t] = "null" => file'[t] = "null")
    BY <1>1, <2>1, <2>2 DEF Tracks, Judged
  <2>4. ASSUME NEW i \in DOMAIN waves[r], NEW k \in DOMAIN waves[r][i], Unrecorded(r, i, k)'
        PROVE  file'[waves[r][i][k]] = "null"
    <3>1. Unrecorded(r, i, k)
      BY <1>1, <2>1, <2>4 DEF Unrecorded, Filling
    <3> QED BY <1>1, <1>2, <2>3, <3>1 DEF Tracks
  <2>5. pc'[r] \notin {"launch", "record", "record.fill", "check", "poll.fill"} \cup Early
    BY <2>1 DEF Early
  <2> QED BY <1>1, <2>1, <2>3, <2>4, <2>5 DEF Tracks
<1> QED BY <1>4, <1>5, <1>6 DEF PollStep

LEMMA RereadTracks ==
  ASSUME Base, NEW r \in Run, Tracks(r), Reread(r)
  PROVE  Tracks(r)'
<1> USE ActorFacts DEF Base, Typing
<1>1. /\ pc[r] = "reread" /\ UNCHANGED <<waves, file>>
      /\ waves[r] \in Seq(Seq(Task)) /\ at[r] \in Nat
  BY DEF Reread, TypeOK
<1>2. CASE at[r] = Len(waves[r])
  <2>1. pc'[r] = "done"
    BY <1>2 DEF Reread, Goto, TypeOK
  <2> QED BY <2>1 DEF Tracks, Early, Filling, Waiting
<1>3. CASE at[r] # Len(waves[r])
  <2>1. /\ pc'[r] = "launch" /\ at'[r] = at[r] + 1 /\ ix'[r] = 1
        /\ mem'[r] = NoManifest \/ mem'[r] = file
    BY <1>3 DEF Reread, Goto, TypeOK
  <2>2. \A i \in DOMAIN waves[r] : \A k \in DOMAIN waves[r][i] :
          Unrecorded(r, i, k)' => Unrecorded(r, i, k)
    BY <1>1, <2>1 DEF Unrecorded
  <2> QED BY <1>1, <2>1, <2>2 DEF Tracks, Early, Filling, Waiting
<1> QED BY <1>2, <1>3

LEMMA OwnStepTracks ==
  ASSUME Base, NEW r \in Run, Tracks(r), Begin(r) \/ RunStep(r) \/ Crash(r) \/ PollStep(r)
  PROVE  Tracks(r)'
<1>1. ASSUME WorktreeFails(r) \/ RecordFails(r) \/ ReadFails(r) \/ Crash(r)
               \/ SeqLaunch(r) \/ SeqNext(r)
      PROVE  Tracks(r)'
  <2>1. pc'[r] \in {"failed", "seq", "seq.wait", "done"}
    BY <1>1, ActorFacts DEF WorktreeFails, RecordFails, ReadFails, Crash, SeqLaunch, SeqNext,
      Goto, Base, Typing, TypeOK
  <2> QED BY <2>1 DEF Tracks, Early, Filling, Waiting
<1> QED
  BY <1>1, EarlyTracks, FillResetTracks, FillTracks, PollTracks, RereadTracks DEF RunStep

(* Another run at work teaches nobody anything of a run not started yet.   *)
LEMMA OthersLearnNothing ==
  ASSUME Base, NEW q \in Run, NEW r \in Run, q # r, Unknown(r),
         Begin(q) \/ RunStep(q) \/ Crash(q) \/ PollStep(q)
  PROVE  Unknown(r)'
<1> USE ActorFacts, LauncherAssumption DEF Base, Typing
<1> SUFFICES ASSUME NEW t \in Task, owner[t] = r
             PROVE  /\ file'[t] = "null"
                    /\ \A p \in Run : p # r /\ mem'[p] \in Projection => mem'[p][t] = "null"
  BY DEF Unknown
<1>1. /\ file[t] = "null"
      /\ \A p \in Run : p # r /\ mem[p] \in Projection => mem[p][t] = "null"
  BY DEF Unknown
<1>2. \A p \in Run : p # q => mem'[p] = mem[p]
  BY DEF Begin, RunStep, Crash, PollStep, GatePass, GateBlock, GateUnparsed, Capacity, PlanTask,
    Reset, FillReset, Launch, WorktreeFails, Record, RecordFails, FillRecord, ReadFails, Reread,
    SeqLaunch, SeqNext, ReadResults, CheckProcesses, FillPoll, TypeOK
<1>3. CASE FillReset(q) \/ FillRecord(q) \/ FillPoll(q)
  <2>1. /\ file' = mem[q] /\ mem[q] \in Projection
        /\ mem'[q] = mem[q] \/ mem'[q] = NoManifest
    BY <1>3 DEF FillReset, FillRecord, FillPoll, MemHeld, Writing, TypeOK
  <2> QED BY <1>1, <1>2, <2>1
<1>4. CASE Reset(q)
  <2>1. t \notin Tasks(q)
    BY DEF Tasks, AllRuns, RunInv, Batch
  <2>2. mem'[q][t] = "null" /\ file' = file
    BY <1>4, <2>1 DEF Reset, TypeOK
  <2> QED BY <1>1, <1>2, <2>2
<1>5. CASE Record(q)
  <2>1. Current(q) # t
    BY <1>5, WavesOwned DEF Record, Current, AllRuns, RunInv, Position, Filling
  <2>2. /\ mem[q] \in Projection /\ file' = file
        /\ mem'[q] = [mem[q] EXCEPT ![Current(q)] = "running"]
    BY <1>5 DEF Record, TypeOK
  <2>3. mem'[q][t] = mem[q][t]
    BY <2>1, <2>2 DEF Projection
  <2> QED BY <1>1, <1>2, <2>2, <2>3
<1>6. CASE ReadResults(q)
  <2>1. mem'[q][t] = ByResult(t, file[t]) /\ file' = file
    BY <1>6 DEF ReadResults, TypeOK
  <2>2. mem'[q][t] = "null"
    BY <1>1, <2>1 DEF ByResult, Unsettled
  <2> QED BY <1>1, <1>2, <2>1, <2>2
<1>7. CASE CheckProcesses(q)
  <2>1. mem'[q][t] = ByProcess(t, mem[q][t]) /\ file' = file /\ mem[q] \in Projection
    BY <1>7 DEF CheckProcesses, TypeOK, MemHeld, Writing
  <2>2. mem'[q][t] = "null"
    BY <1>1, <2>1 DEF ByProcess
  <2> QED BY <1>1, <1>2, <2>1, <2>2
<1>8. CASE Reread(q)
  <2>1. file' = file /\ mem'[q] \in {mem[q], NoManifest, file}
    BY <1>8 DEF Reread, TypeOK
  <2> QED BY <1>1, <1>2, <2>1
<1>9. ASSUME Begin(q) \/ GatePass(q) \/ GateBlock(q) \/ GateUnparsed(q) \/ Capacity(q)
               \/ PlanTask(q) \/ Launch(q) \/ WorktreeFails(q) \/ RecordFails(q)
               \/ ReadFails(q) \/ SeqLaunch(q) \/ SeqNext(q) \/ Crash(q)
      PROVE  UNCHANGED <<file, mem>>
  BY <1>9 DEF Begin, GatePass, GateBlock, GateUnparsed, Capacity, PlanTask, Launch,
    WorktreeFails, RecordFails, ReadFails, SeqLaunch, SeqNext, Crash
<1> QED
  BY <1>1, <1>3, <1>4, <1>5, <1>6, <1>7, <1>8, <1>9 DEF RunStep, PollStep

AllTracks == \A r \in Run : Tracks(r)

LEMMA NextTracks ==
  ASSUME ~Overlap, Monitor = {}, Base, Exclusive, AllTracks, [Next]_vars
  PROVE  AllTracks'
<1> SUFFICES ASSUME NEW r \in Run PROVE Tracks(r)'
  BY DEF AllTracks
<1>1. Tracks(r)
  BY DEF AllTracks
<1>2. ASSUME NEW q \in Run, Begin(q) \/ RunStep(q) \/ Crash(q) \/ PollStep(q), q # r
      PROVE  Tracks(r)'
  <2>1. ~Active(r) /\ pc'[r] = pc[r]
    BY <1>2, OthersIdle DEF Bystander
  <2>2. CASE pc[r] = "idle"
    BY <1>1, <1>2, <2>1, <2>2, OthersLearnNothing DEF Tracks, Early, Filling, Waiting
  <2>3. CASE pc[r] # "idle"
    BY <2>1, <2>3 DEF Active, Tracks, Early, Filling, Waiting
  <2> QED BY <2>2, <2>3
<1>3. ASSUME NEW q \in Run, Begin(q) \/ RunStep(q) \/ Crash(q) \/ PollStep(q)
      PROVE  Tracks(r)'
  BY <1>1, <1>2, <1>3, OwnStepTracks
<1>4. CASE UNCHANGED <<pc, launchVars, mem, file>>
  BY <1>1, <1>4 DEF launchVars, Tracks, Unknown, Emptied, Unrecorded, Judged, Current
<1>5. ASSUME NEW t \in Task, WorkerStep(t) PROVE UNCHANGED <<pc, launchVars, mem, file>>
  BY <1>5 DEF WorkerStep, BeginResult, EndResult, Exit, StopWorker, GrowOld
<1>6. Actor = Run
  BY DEF Actor
<1> QED BY <1>3, <1>4, <1>5, <1>6 DEF Next, vars

(* The moves of the table that the launcher makes.                         *)
LEMMA LegalMoves ==
  /\ {"planned", "running"} \subseteq Lifecycle!TRANSITIONS["null"]
  /\ {"completed", "failed", "stale"} \subseteq Lifecycle!TRANSITIONS["running"]
BY DEF Lifecycle!TRANSITIONS, Lifecycle!Status

LEMMA WriteIsLegal ==
  ASSUME Base, NEW r \in Run, Tracks(r),
         FillReset(r) \/ FillRecord(r) \/ FillPoll(r)
  PROVE  Lifecycle!Write
<1> USE ActorFacts DEF Base, Typing
<1>1. file' = mem[r] /\ mem[r] \in Projection /\ file \in Projection
  BY DEF FillReset, FillRecord, FillPoll, MemHeld, Writing, TypeOK
<1>2. file' \in [Task -> Lifecycle!Status]
  BY <1>1 DEF Projection, Status, Lifecycle!Status
<1>3. ASSUME NEW t \in Task PROVE Lifecycle!Moved(t)
  <2>1. CASE FillReset(r)
    <3>1. pc[r] = "reset.fill" /\ Emptied(r, t)
      BY <2>1 DEF FillReset, Tracks
    <3>2. owner[t] = r => file[t] = "null"
      BY <3>1 DEF Tracks, Early, Unknown
    <3> QED BY <1>1, <3>1, <3>2, LegalMoves DEF Emptied, Lifecycle!Moved
  <2>2. CASE FillRecord(r)
    <3>1. pc[r] = "record.fill" /\ mem[r] = [file EXCEPT ![Current(r)] = "running"]
      BY <2>2 DEF FillRecord, Tracks
    <3>2. at[r] \in DOMAIN waves[r] /\ ix[r] \in DOMAIN waves[r][at[r]] /\ ix[r] \in Nat
      BY <3>1 DEF AllRuns, RunInv, Position, Filling, TypeOK
    <3>3. file[Current(r)] = "null"
      BY <3>1, <3>2 DEF Tracks, Unrecorded, Filling, Current
    <3> QED BY <1>1, <3>1, <3>3, LegalMoves DEF Lifecycle!Moved, Projection
  <2>3. CASE FillPoll(r)
    <3>1. Judged(r, t)
      BY <2>3 DEF FillPoll, Tracks
    <3> QED BY <1>1, <3>1, LegalMoves DEF Judged, Lifecycle!Moved
  <2> QED BY <2>1, <2>2, <2>3
<1> QED BY <1>2, <1>3 DEF Lifecycle!Write

(* With one launcher at a time and no monitor, active-workers.json moves   *)
(* along the table of validate-worker-transition.js only: the launcher     *)
(* implements WorkerLifecycle, by the file as the status of each worker.   *)
THEOREM LifecycleImplemented ==
  ASSUME ~Overlap, Monitor = {}
  PROVE  Spec => LifecycleRefined
<1> DEFINE Inv == Base /\ Exclusive /\ AllTracks
<1>1. Init => Inv /\ Lifecycle!Init
  <2>1. Init => AllTracks
    <3> SUFFICES ASSUME Init, NEW r \in Run PROVE Tracks(r)
      BY DEF AllTracks
    <3>1. /\ pc[r] = "idle" /\ file = [t \in Task |-> "null"]
          /\ \A q \in Run : mem[q] \notin Projection
      BY ActorFacts, LauncherAssumption DEF Init
    <3> QED BY <3>1 DEF Tracks, Unknown, Filling, Waiting
  <2>2. Init => Lifecycle!Init
    BY DEF Init, Lifecycle!Init
  <2> QED BY <2>1, <2>2, InitTyping, InitAllRuns, InitHonest, InitGuarded DEF Base
<1>2. Inv /\ [Next]_vars => Inv'
  <2>1. Base /\ [Next]_vars => Base'
    BY NextTyping, NextAllRuns, NextHonest DEF Base
  <2>2. Base /\ Exclusive /\ [Next]_vars => Exclusive'
    BY OneAtATime DEF Base
  <2> QED BY <2>1, <2>2, NextTracks
<1>3. Inv /\ [Next]_vars => [Lifecycle!Write]_file
  <2> SUFFICES ASSUME Inv, [Next]_vars PROVE Lifecycle!Write \/ UNCHANGED file
    OBVIOUS
  <2>1. ASSUME NEW r \in Run, FillReset(r) \/ FillRecord(r) \/ FillPoll(r)
        PROVE  Lifecycle!Write
    BY <2>1, WriteIsLegal DEF AllTracks
  <2>2. ASSUME NEW r \in Run, Begin(r) \/ RunStep(r) \/ Crash(r) \/ PollStep(r),
               ~FillReset(r), ~FillRecord(r), ~FillPoll(r)
        PROVE  UNCHANGED file
    BY <2>2 DEF Begin, RunStep, Crash, PollStep, GatePass, GateBlock, GateUnparsed, Capacity,
      PlanTask, Reset, Launch, WorktreeFails, Record, RecordFails, ReadFails, Reread,
      SeqLaunch, SeqNext, ReadResults, CheckProcesses
  <2>3. ASSUME NEW t \in Task, WorkerStep(t) PROVE UNCHANGED file
    BY <2>3 DEF WorkerStep, BeginResult, EndResult, Exit, StopWorker, GrowOld
  <2>4. Actor = Run
    BY DEF Actor
  <2> QED BY <2>1, <2>2, <2>3, <2>4 DEF Next, vars
<1> QED BY <1>1, <1>2, <1>3, PTL DEF Spec, LifecycleRefined, Lifecycle!Spec
=============================================================================
