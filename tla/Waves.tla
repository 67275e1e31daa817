------------------------------- MODULE Waves -------------------------------
(***************************************************************************)
(* The placement rule of Build-Waves in scripts/ai/batch-launch.ps1: which *)
(* tasks of a batch may run side by side.  A wave is the sequence of the   *)
(* tasks launched together, in launch order; a plan is a sequence of       *)
(* waves.  Only operators live here: WaveBuilder runs the rule over a      *)
(* batch, Launcher runs it inside a launch.                                *)
(***************************************************************************)
EXTENDS Integers, Sequences

CONSTANTS
  Task,           \* task contracts, one per target issue
  NoGroup,        \* the empty conflictGroup string
  conflictGroup,  \* the group of each task, NoGroup when empty
  sharedLocks,    \* the set of lock names each task declares
  highRisk        \* the tasks with risk "high" or a human-required mark

ASSUME TaskAssumption == highRisk \subseteq Task

SameGroup(s, t) == conflictGroup[s] = conflictGroup[t]
LockOverlap(s, t) == sharedLocks[s] \cap sharedLocks[t] # {}
BothHighRisk(s, t) == {s, t} \subseteq highRisk

\* Two tasks Build-Waves must not put in one wave.
Clash(s, t) == SameGroup(s, t) \/ LockOverlap(s, t) \/ BothHighRisk(s, t)

\* Mutants of Fits: room tested off by one; the high-risk test forgotten.
FitsOneMore(wave, t, cap) ==
  /\ Len(wave) <= cap
  /\ \A k \in DOMAIN wave : ~Clash(wave[k], t)

FitsIgnoringRisk(wave, t, cap) ==
  /\ Len(wave) < cap
  /\ \A k \in DOMAIN wave : ~SameGroup(wave[k], t) /\ ~LockOverlap(wave[k], t)

\* The three "continue" tests of the inner loop: room, risk, groups and locks.
Fits(wave, t, cap) ==
  /\ Len(wave) < cap
  /\ \A k \in DOMAIN wave : ~Clash(wave[k], t)

NoWaveFits(waves, t, cap) == \A i \in DOMAIN waves : ~Fits(waves[i], t, cap)

\* Mutant of FirstFit: the loop runs from the last wave down.
LastFit(waves, t, cap, i) ==
  /\ i \in DOMAIN waves
  /\ Fits(waves[i], t, cap)
  /\ \A j \in i + 1 .. Len(waves) : ~Fits(waves[j], t, cap)

\* Index i is where the inner loop stops: the first wave the task fits in.
FirstFit(waves, t, cap, i) ==
  /\ i \in DOMAIN waves
  /\ Fits(waves[i], t, cap)
  /\ \A j \in 1 .. i - 1 : ~Fits(waves[j], t, cap)

Join(waves, i, t) == [waves EXCEPT ![i] = Append(@, t)]
Open(waves, t) == Append(waves, <<t>>)

-----------------------------------------------------------------------------
\* No two tasks of one wave clash.
ClashFree(waves) ==
  \A i \in DOMAIN waves : \A k, l \in DOMAIN waves[i] :
    k # l => ~Clash(waves[i][k], waves[i][l])

Capped(waves, cap) == \A i \in DOMAIN waves : Len(waves[i]) \in 1 .. cap

\* No task would fit in a wave before its own.
Settled(waves, cap) ==
  \A i \in DOMAIN waves : \A k \in DOMAIN waves[i] : \A j \in 1 .. i - 1 :
    ~Fits(waves[j], waves[i][k], cap)
=============================================================================
