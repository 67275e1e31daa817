---------------------------- MODULE ProviderPool ----------------------------
(***************************************************************************)
(* The provider pool: .github/ai-state/provider-pool.json, the scripts and *)
(* the web console that rewrite it, and the decisions taken from it.       *)
(*                                                                         *)
(* Every writer loads the whole file, changes its copy and writes the copy *)
(* back, without a lock.  All but the console's rotation write in place:   *)
(* between emptying the file and filling it, no reader can parse it, and a *)
(* writer that loads it then gives up without a trace.                     *)
(***************************************************************************)
EXTENDS Integers, FiniteSets, Functions

CONSTANTS
  Provider,
  Proc,       \* processes that run the writers, one operation at a time
  MaxLimit,   \* bound on a provider's maxConcurrency
  MaxCeiling, \* bound on globalMaxWorkers
  MaxCount,   \* bound on a provider's currentConcurrency
  MaxEvents,  \* bound on a provider's totalQuotaEvents
  Torn        \* what the file is while it cannot be parsed

Statuses == {"available", "exhausted", "disabled"}

\* cooling: cooldownExpiresAt is set.  No script compares it with the clock.
Pool == [status : [Provider -> Statuses],
         cur : [Provider -> Nat], max : [Provider -> Nat],
         failures : [Provider -> Nat], events : [Provider -> Nat],
         cooling : [Provider -> BOOLEAN],
         total : Nat, ceiling : Nat, count : [Statuses -> Nat]]

ASSUME PoolAssumption ==
  /\ IsFiniteSet(Provider) /\ Provider # {}
  /\ {MaxLimit, MaxCeiling} \subseteq Nat \ {0}
  /\ {MaxCount, MaxEvents} \subseteq Nat
  /\ Torn \notin Pool

VARIABLES
  file,    \* provider-pool.json
  pc,      \* where each process is
  op,      \* the operation it runs
  copy,    \* the pool it is going to write
  backup   \* the backup its rotation can restore

vars == <<file, pc, op, copy, backup>>

-----------------------------------------------------------------------------
\* The summary of a pool, and a pool with its summary computed anew.
Total(s) == FoldFunction(+, 0, s.cur)
Counts(s) ==
  [st \in Statuses |-> Cardinality({q \in Provider : s.status[q] = st})]

Counted(s) == [s EXCEPT !.count = Counts(s)]

\* Mutant of Summed: the workers are not added up again.
SummedStatuses(s) == [s EXCEPT !.count = Counts(s)]

Summed(s) == [s EXCEPT !.total = Total(s), !.count = Counts(s)]

\* Mutant of Exhaust: a failure is not counted as a quota event.
ExhaustUncounted(s, q) ==
  [s EXCEPT !.status[q] = "exhausted", !.cooling[q] = TRUE, !.failures[q] = @ + 1]

\* update-provider-pool-state.ps1 -Operation SetStatus.
Exhaust(s, q) ==
  [s EXCEPT !.status[q] = "exhausted", !.cooling[q] = TRUE,
            !.failures[q] = @ + 1, !.events[q] = @ + 1]
Recover(s, q) ==
  [s EXCEPT !.status[q] = "available", !.cooling[q] = FALSE, !.failures[q] = 0]
Disable(s, q) == [s EXCEPT !.status[q] = "disabled", !.cooling[q] = FALSE]

\* Its other operations.  Past the limit, an increment only warns.
Increment(s, q) == [s EXCEPT !.cur[q] = @ + 1]

\* Mutant of Decrement: no floor.
DecrementFreely(s, q) == [s EXCEPT !.cur[q] = @ - 1]

Decrement(s, q) == [s EXCEPT !.cur[q] = IF @ = 0 THEN 0 ELSE @ - 1]
ResetFailures(s, q) == [s EXCEPT !.failures[q] = 0]

\* provider-key-router.ps1: the providers that pass its filters.  Which of
\* them have a usable secret is open, so any of them may be the one selected.
HasRoom(s, q) == s.status[q] = "available" /\ s.cur[q] < s.max[q]
Candidates(s) == {q \in Provider : HasRoom(s, q)}

-----------------------------------------------------------------------------
ConsoleOps == {"console", "provider-rotation"}
Busy(p) == pc[p] # "idle"

\* Process p loads the file and will write pool new.  The console is one
\* server, which handles an action to its end before the next.
Start(p, o, new) ==
  /\ pc[p] = "idle" /\ file # Torn
  /\ o \in ConsoleOps => \A q \in Proc : Busy(q) => op[q] \notin ConsoleOps
  /\ op' = [op EXCEPT ![p] = o]
  /\ copy' = [copy EXCEPT ![p] = new]
  /\ pc' = [pc EXCEPT ![p] = IF o = "rotate" THEN "backup" ELSE "write"]
  /\ UNCHANGED <<file, backup>>

SetStatus(p, q) ==
  /\ file # Torn
  /\ \/ file.events[q] < MaxEvents /\ Start(p, "update", Summed(Exhaust(file, q)))
     \/ Start(p, "update", Summed(Recover(file, q)))
     \/ Start(p, "update", Summed(Disable(file, q)))

IncrementConcurrency(p, q) ==
  /\ file # Torn /\ file.cur[q] < MaxCount
  /\ Start(p, "update", Summed(Increment(file, q)))

DecrementConcurrency(p, q) ==
  /\ file # Torn
  /\ Start(p, "update", Summed(Decrement(file, q)))

ResetFailureCount(p, q) ==
  /\ file # Torn
  /\ Start(p, "update", Summed(ResetFailures(file, q)))

\* -Commit: the count goes up, the summary stays as it was.
RouteWorker(p, q) ==
  /\ file # Torn /\ q \in Candidates(file) /\ file.cur[q] < MaxCount
  /\ Start(p, "route", Increment(file, q))

\* rotate-claude-settings-provider.ps1 -Apply.
Rotate(p, q) ==
  /\ file # Torn
  /\ Start(p, "rotate", Summed(Recover(file, q)))

\* The console's provider actions leave the summary alone, except for a
\* rotation, which counts the statuses again.
DisableProvider(p, q) ==
  /\ file # Torn /\ file.status[q] # "disabled"
  /\ Start(p, "console", [file EXCEPT !.status[q] = "disabled"])

EnableProvider(p, q) ==
  /\ file # Torn /\ file.status[q] = "disabled"
  /\ Start(p, "console", [file EXCEPT !.status[q] = "available"])

\* Mutant of ResetCooldown: the status stays.
ResetCooldownOnly(p, q) ==
  /\ file # Torn /\ file.cooling[q]
  /\ Start(p, "console", [file EXCEPT !.cooling[q] = FALSE])

ResetCooldown(p, q) ==
  /\ file # Torn /\ file.cooling[q]
  /\ Start(p, "console", [file EXCEPT !.cooling[q] = FALSE, !.status[q] = "available"])

AdjustMaxConcurrency(p, q) ==
  /\ file # Torn
  /\ \E value \in 1 .. MaxLimit :
       /\ value <= file.ceiling
       /\ Start(p, "console", [file EXCEPT !.max[q] = value])

AdjustGlobalMaxWorkers(p) ==
  /\ file # Torn
  /\ \E value \in 1 .. MaxCeiling :
       Start(p, "console", [file EXCEPT !.ceiling = value])

RotateFromConsole(p, q) ==
  /\ file # Torn
  /\ Start(p, "provider-rotation", Counted(Recover(file, q)))

-----------------------------------------------------------------------------
End(p) ==
  /\ pc' = [pc EXCEPT ![p] = "idle"]
  /\ op' = [op EXCEPT ![p] = "none"]
  /\ copy' = [copy EXCEPT ![p] = Torn]
  /\ backup' = [backup EXCEPT ![p] = Torn]

\* The rotation copies the file, as it is by now, to its backup.
Backup(p) ==
  /\ pc[p] = "backup"
  /\ backup' = [backup EXCEPT ![p] = file]
  /\ pc' = [pc EXCEPT ![p] = "write"]
  /\ UNCHANGED <<file, op, copy>>

\* Writing in place, in two steps.
Empty(p) ==
  /\ pc[p] = "write" /\ op[p] # "provider-rotation"
  /\ file' = Torn
  /\ pc' = [pc EXCEPT ![p] = "fill"]
  /\ UNCHANGED <<op, copy, backup>>

\* Where another has filled the file meanwhile, its end may stick out.  A
\* rotation has its temporary file to remove yet.
Fill(p) ==
  /\ pc[p] = "fill"
  /\ file' \in {copy[p], Torn}
  /\ IF op[p] = "rotate"
     THEN pc' = [pc EXCEPT ![p] = "cleanup"] /\ UNCHANGED <<op, copy, backup>>
     ELSE End(p)

Finish(p) == pc[p] = "cleanup" /\ End(p) /\ UNCHANGED file

\* Writing a temporary file and renaming it.
Rename(p) ==
  /\ pc[p] = "write" /\ op[p] = "provider-rotation"
  /\ file' = copy[p]
  /\ End(p)

\* A rotation whose write throws, or whose temporary file cannot be removed
\* after it, copies its backup over the file, in place.
RollBack(p) ==
  /\ pc[p] \in {"write", "fill", "cleanup"} /\ op[p] = "rotate"
  /\ op' = [op EXCEPT ![p] = "restore"]
  /\ copy' = [copy EXCEPT ![p] = backup[p]]
  /\ backup' = [backup EXCEPT ![p] = Torn]
  /\ pc' = [pc EXCEPT ![p] = "write"]
  /\ UNCHANGED file

\* The process ends, or its write throws with nobody to catch it.
Crash(p) ==
  /\ Busy(p)
  /\ End(p)
  /\ UNCHANGED file

-----------------------------------------------------------------------------
\* The pool as the repository ships it: idle, available, at its limits.
InitialPool ==
  Counted([status |-> [q \in Provider |-> "available"],
           cur |-> [q \in Provider |-> 0],
           max |-> [q \in Provider |-> MaxLimit],
           failures |-> [q \in Provider |-> 0],
           events |-> [q \in Provider |-> 0],
           cooling |-> [q \in Provider |-> FALSE],
           total |-> 0, ceiling |-> MaxCeiling,
           count |-> [st \in Statuses |-> 0]])

Init ==
  /\ file = InitialPool
  /\ pc = [p \in Proc |-> "idle"]
  /\ op = [p \in Proc |-> "none"]
  /\ copy = [p \in Proc |-> Torn]
  /\ backup = [p \in Proc |-> Torn]

Load(p) ==
  \/ AdjustGlobalMaxWorkers(p)
  \/ \E q \in Provider :
       \/ SetStatus(p, q) \/ IncrementConcurrency(p, q)
       \/ DecrementConcurrency(p, q) \/ ResetFailureCount(p, q)
       \/ RouteWorker(p, q) \/ Rotate(p, q)
       \/ DisableProvider(p, q) \/ EnableProvider(p, q) \/ ResetCooldown(p, q)
       \/ AdjustMaxConcurrency(p, q) \/ RotateFromConsole(p, q)

Write(p) == Backup(p) \/ Empty(p) \/ Fill(p) \/ Finish(p) \/ Rename(p) \/ RollBack(p)

Next == \E p \in Proc : Load(p) \/ Write(p) \/ Crash(p)

Spec == Init /\ [][Next]_vars

-----------------------------------------------------------------------------
\* What other scripts read off the pool: the preflight of run-self-cycle.ps1,

\* Mutant of Full: off by one.
AlmostFull(s, q) == s.cur[q] + 1 >= s.max[q]

Full(s, q) == s.cur[q] >= s.max[q]

Preflight(s) ==
  LET with(st) == {q \in Provider : s.status[q] = st}
      full == {q \in with("available") : Full(s, q)}
      free == with("available") \ full
  IN IF free = {} /\ full = {} THEN "exhausted"
     ELSE IF free = {} /\ with("exhausted") = {} /\ with("disabled") = {}
       THEN "at-capacity"
     ELSE "pass"

\* and Get-ProviderSlots of batch-launch.ps1.
AtLeastZero(n) == IF n < 0 THEN 0 ELSE n

Slots(s) ==
  LET room == FoldFunction(+, 0,
                [q \in Provider |-> IF s.status[q] = "available"
                                    THEN AtLeastZero(s.max[q] - s.cur[q]) ELSE 0])
      headroom == AtLeastZero(s.ceiling - s.total)
  IN IF room < headroom THEN room ELSE headroom

-----------------------------------------------------------------------------
TypeOK ==
  /\ file \in Pool \cup {Torn}
  /\ pc \in [Proc -> {"idle", "backup", "write", "fill", "cleanup"}]
  /\ op \in [Proc -> {"none", "update", "route", "rotate", "restore"} \cup ConsoleOps]
  /\ copy \in [Proc -> Pool \cup {Torn}]
  /\ backup \in [Proc -> Pool \cup {Torn}]

(***************************************************************************)
(* Whatever writers overwrite, roll back or leave half done, a pool that   *)
(* can be parsed never counts more failures in a row than quota events     *)
(* ever: the two counters are raised by one operation and reset by others. *)
(***************************************************************************)
FailuresWithinEvents ==
  file # Torn => \A q \in Provider : file.failures[q] <= file.events[q]

(***************************************************************************)
(* A provider on file as exhausted has a cooldown on file, whatever the    *)
(* updater, the console and rotations overwrite of each other: without one *)
(* reset-cooldown refuses it, and enable-provider takes disabled ones only.*)
(***************************************************************************)
ExhaustedCools ==
  file # Torn => \A q \in Provider : file.status[q] = "exhausted" => file.cooling[q]

(***************************************************************************)
(* The router and the console leave stale summaries behind.  A write of    *)
(* the updater or of a rotation heals them: it leaves a summary true of    *)
(* the providers it writes, whoever wrote meanwhile and whatever was torn. *)
(***************************************************************************)
SummaryHeals ==
  [][\A p \in Proc :
       pc[p] = "fill" /\ pc'[p] # "fill" /\ file' # file /\ file' # Torn
         /\ op[p] \in {"update", "rotate"}
       => file'.total = Total(file') /\ file'.count = Counts(file')]_vars

(***************************************************************************)
(* The preflight never stops a cycle for which the router has a candidate  *)
(* or the launcher a slot.                                                 *)
(***************************************************************************)
BlocksOnlyWithoutRoom ==
  file # Torn /\ Preflight(file) # "pass" => Candidates(file) = {} /\ Slots(file) = 0
=============================================================================
