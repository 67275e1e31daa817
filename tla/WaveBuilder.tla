----------------------------- MODULE WaveBuilder -----------------------------
(***************************************************************************)
(* Build-Waves of scripts/ai/batch-launch.ps1 as the loop it is: the plans *)
(* of a batch are taken in order, and each joins the first wave with room  *)
(* and no clash, or opens a wave of its own.                               *)
(***************************************************************************)
EXTENDS Waves, FiniteSets

CONSTANTS
  MaxPlans,  \* bound on the length of a batch
  MaxCap     \* bound on MaxPerWave: MaxParallelWorkers is at most 30

ASSUME BoundAssumption == MaxPlans \in Nat /\ MaxCap \in 1 .. 30

VARIABLES
  plans,  \* the batch: $Plans
  cap,    \* $MaxPerWave, raised to at least 1
  next,   \* the plan the outer loop is at
  waves   \* $waves

vars == <<plans, cap, next, waves>>

Batches == UNION {[1 .. n -> Task] : n \in 0 .. MaxPlans}

Init ==
  /\ plans \in Batches
  /\ cap \in 1 .. MaxCap
  /\ next = 1
  /\ waves = <<>>

\* Mutant of JoinWave: without the "break", a task joins every wave it fits.
JoinEveryWave ==
  /\ next <= Len(plans)
  /\ ~NoWaveFits(waves, plans[next], cap)
  /\ waves' = [i \in DOMAIN waves |->
                 IF Fits(waves[i], plans[next], cap)
                 THEN Append(waves[i], plans[next]) ELSE waves[i]]
  /\ next' = next + 1
  /\ UNCHANGED <<plans, cap>>

JoinWave ==
  /\ next <= Len(plans)
  /\ \E i \in DOMAIN waves :
       /\ FirstFit(waves, plans[next], cap, i)
       /\ waves' = Join(waves, i, plans[next])
  /\ next' = next + 1
  /\ UNCHANGED <<plans, cap>>

\* Mutant of OpenWave: the loop index moves twice.
OpenWaveAndSkip ==
  /\ next <= Len(plans)
  /\ NoWaveFits(waves, plans[next], cap)
  /\ waves' = Open(waves, plans[next])
  /\ next' = next + 2
  /\ UNCHANGED <<plans, cap>>

OpenWave ==
  /\ next <= Len(plans)
  /\ NoWaveFits(waves, plans[next], cap)
  /\ waves' = Open(waves, plans[next])
  /\ next' = next + 1
  /\ UNCHANGED <<plans, cap>>

Next == JoinWave \/ OpenWave

Spec == Init /\ [][Next]_vars

-----------------------------------------------------------------------------
TypeOK ==
  /\ plans \in Seq(Task)
  /\ cap \in Nat \ {0}
  /\ next \in 1 .. Len(plans) + 1
  /\ waves \in Seq(Seq(Task))

(***************************************************************************)
(* A wave never holds two tasks of one conflict group, two holders of one  *)
(* lock, or two high-risk tasks, and is neither empty nor over its cap:    *)
(* what lets the launcher start a wave's workers side by side.             *)
(***************************************************************************)
WavesSafe == ClashFree(waves) /\ Capped(waves, cap)

(***************************************************************************)
(* Earliest placement: a task sits in a later wave only because every      *)
(* earlier wave is full or holds a task it clashes with.  The loop decides *)
(* with half-built waves, so this says a later task never frees a place.   *)
(***************************************************************************)
Earliest == Settled(waves, cap)

\* How often task t occurs in sequence s.
Occurrences(s, t) == Cardinality({k \in DOMAIN s : s[k] = t})

\* Where task t is placed: pairs of a wave and a position in it.
Places(t) == {p \in (1 .. Len(waves)) \X (1 .. Len(plans)) :
                p[2] <= Len(waves[p[1]]) /\ waves[p[1]][p[2]] = t}

(***************************************************************************)
(* Nothing is lost and nothing runs twice: each task is placed as often as *)
(* the part of the batch read so far asks for it.                          *)
(***************************************************************************)
EachPlacedOnce ==
  \A t \in Task :
    Cardinality(Places(t)) = Occurrences(SubSeq(plans, 1, next - 1), t)

\* Build-Waves as a function of its arguments, for the loop to be held against.
Place(ws, t, c) ==
  IF NoWaveFits(ws, t, c) THEN Open(ws, t)
  ELSE Join(ws, CHOOSE i \in DOMAIN ws : FirstFit(ws, t, c, i), t)

BuildWaves(ps, c) ==
  LET built[n \in 0 .. Len(ps)] ==
        IF n = 0 THEN <<>> ELSE Place(built[n - 1], ps[n], c)
  IN built[Len(ps)]

\* Mutant of ConflictSafeSlots: the size of the last wave, not of the largest.
LastWaveSlots(ps) ==
  LET ws == BuildWaves(ps, 30) IN IF ws = <<>> THEN 1 ELSE Len(ws[Len(ws)])

\* Get-ConflictSafeSlots: the largest wave of a plan with room for 30.
ConflictSafeSlots(ps) ==
  LET sizes == {1} \cup {Len(BuildWaves(ps, 30)[i]) : i \in DOMAIN BuildWaves(ps, 30)}
  IN CHOOSE n \in sizes : \A m \in sizes : m <= n

(***************************************************************************)
(* The conflict-safe slots are one of the numbers effectiveParallelism is  *)
(* the least of, and the plan is then built with that cap.  They never     *)
(* change the plan: capping the waves at the largest wave conflicts allow  *)
(* gives the same waves, in the same order.                                *)
(***************************************************************************)
ConflictSlotsNeutral ==
  next > Len(plans) =>
    LET slots == ConflictSafeSlots(plans)
    IN waves = BuildWaves(plans, IF slots < cap THEN slots ELSE cap)
=============================================================================
