------------------------- MODULE ProviderPoolProofs -------------------------
(***************************************************************************)
(* What the writers of the provider pool cannot break, for any number of   *)
(* providers and processes.                                                *)
(*                                                                         *)
(* The properties speak of the file; the invariant speaks of every pool    *)
(* that may yet become the file: the copies about to be written and the    *)
(* backups of rotations.  Each is torn or sound, and each is in the file   *)
(* after one write, so what a writer overwrites never matters.             *)
(***************************************************************************)
EXTENDS ProviderPool, FiniteSetTheorems, WellFoundedInduction, TLAPS

\* s is a pool, field by field.
Shaped(s) ==
  s \in [status : [Provider -> Statuses],
         cur : [Provider -> Nat], max : [Provider -> Nat],
         failures : [Provider -> Nat], events : [Provider -> Nat],
         cooling : [Provider -> BOOLEAN],
         total : Nat, ceiling : Nat, count : [Statuses -> Nat]]

Sound(s) ==
  /\ Shaped(s)
  /\ \A q \in Provider : s.failures[q] <= s.events[q]
  /\ \A q \in Provider : s.status[q] = "exhausted" => s.cooling[q]

TrueSummary(s) == s.total = Total(s) /\ s.count = Counts(s)

Readable(s) == s = Torn \/ Sound(s)

PoolInv ==
  /\ Readable(file)
  /\ pc \in [Proc -> {"idle", "backup", "write", "fill", "cleanup"}]
  /\ op \in [Proc -> {"none", "update", "route", "rotate", "restore"} \cup ConsoleOps]
  /\ copy \in [Proc -> Pool \cup {Torn}]
  /\ backup \in [Proc -> Pool \cup {Torn}]
  /\ \A p \in Proc : Readable(copy[p]) /\ Readable(backup[p])
  /\ \A p \in Proc : op[p] \in {"update", "rotate"} => TrueSummary(copy[p])

-----------------------------------------------------------------------------
(***************************************************************************)
(* The totals of a pool are sums over its providers, in whatever order.    *)
(* Induction over the numbers is a fact about sets of numbers here: a      *)
(* nonempty one has a least.                                               *)
(***************************************************************************)
LEMMA NatLeast ==
  ASSUME NEW T \in SUBSET Nat, T # {}
  PROVE  \E x \in T : \A y \in T : x <= y
<1> DEFINE R == OpToRel(<, Nat)
<1>1. IsWellFoundedOn(R, Nat)
  BY NatLessThanWellFounded
<1>2. \A x, y \in Nat : <<y, x>> \in R <=> y < x
  BY DEF OpToRel
<1> HIDE DEF R
<1>3. PICK x \in T : \A y \in T : ~ (<<y, x>> \in R)
  BY <1>1, WFMin
<1>4. \A y \in T : ~ (y < x)
  BY <1>2, <1>3
<1> QED BY <1>4

LEMMA NatInd ==
  ASSUME NEW S \in SUBSET Nat, 0 \in S, \A n \in S : n + 1 \in S
  PROVE  S = Nat
<1> SUFFICES ASSUME S # Nat PROVE FALSE
  OBVIOUS
<1>1. PICK x \in Nat \ S : \A y \in Nat \ S : x <= y
  BY NatLeast
<1>2. x - 1 \in Nat /\ x - 1 \notin Nat \ S
  BY <1>1
<1>3. (x - 1) + 1 \in S
  BY <1>2
<1> QED BY <1>1, <1>3

\* f adds up fun over the subsets of D, one element after another.
Adds(D, fun, f) ==
  f = [s \in SUBSET D |->
         IF s = {} THEN 0
         ELSE fun[CHOOSE x \in s : TRUE] + f[s \ {CHOOSE x \in s : TRUE}]]

(* A sum over a finite set exists: adding up one element after another, in *)
(* whatever order CHOOSE takes them, is a function of the set.             *)
LEMMA SumExists ==
  ASSUME NEW D, IsFiniteSet(D), NEW fun
  PROVE  \E f : Adds(D, fun, f)
<1> DEFINE Of(f, s) == IF s = {} THEN 0
                       ELSE fun[CHOOSE x \in s : TRUE] + f[s \ {CHOOSE x \in s : TRUE}]
           UpTo(f, n) == \A s \in SUBSET D : Cardinality(s) <= n => f[s] = Of(f, s)
           S == {n \in Nat : \E f : f = [s \in SUBSET D |-> f[s]] /\ UpTo(f, n)}
<1>1. ASSUME NEW s \in SUBSET D
      PROVE  /\ IsFiniteSet(s) /\ Cardinality(s) \in Nat /\ (Cardinality(s) = 0 <=> s = {})
             /\ s # {} => /\ s \ {CHOOSE x \in s : TRUE} \in SUBSET D
                          /\ Cardinality(s \ {CHOOSE x \in s : TRUE}) = Cardinality(s) - 1
  <2>1. IsFiniteSet(s)
    BY FS_Subset
  <2>2. s # {} => (CHOOSE x \in s : TRUE) \in s
    OBVIOUS
  <2> QED BY <2>1, <2>2, FS_RemoveElement, FS_CardinalityType, FS_EmptySet
<1>2. 0 \in S
  <2> DEFINE f == [s \in SUBSET D |-> 0]
  <2>1. UpTo(f, 0)
    <3> SUFFICES ASSUME NEW s \in SUBSET D, Cardinality(s) <= 0 PROVE f[s] = Of(f, s)
      OBVIOUS
    <3>1. Cardinality(s) \in Nat /\ Cardinality(s) <= 0
      BY <1>1
    <3>2. Cardinality(s) = 0
      BY <3>1
    <3>3. s = {}
      BY <1>1, <3>2
    <3> QED BY <3>3
  <2> QED BY <2>1
<1>3. ASSUME NEW n \in S PROVE n + 1 \in S
  <2>1. PICK f : f = [s \in SUBSET D |-> f[s]] /\ UpTo(f, n)
    BY <1>3
  <2> DEFINE g == [s \in SUBSET D |-> IF Cardinality(s) <= n THEN f[s] ELSE Of(f, s)]
  <2>2. n \in Nat
    OBVIOUS
  <2>3. UpTo(g, n + 1)
    <3> SUFFICES ASSUME NEW s \in SUBSET D, Cardinality(s) <= n + 1 PROVE g[s] = Of(g, s)
      OBVIOUS
    <3>1. g[s] = Of(f, s)
      BY <2>1
    <3>2. CASE s = {}
      BY <3>1, <3>2
    <3>3. CASE s # {}
      <4> DEFINE r == s \ {CHOOSE x \in s : TRUE}
      <4>1. r \in SUBSET D /\ Cardinality(r) <= n
        BY <1>1, <2>2, <3>3
      <4>2. g[r] = f[r]
        BY <4>1
      <4> QED BY <3>1, <3>3, <4>2
    <3> QED BY <3>2, <3>3
  <2>4. g = [s \in SUBSET D |-> g[s]]
    OBVIOUS
  <2> HIDE DEF g, UpTo
  <2> QED BY <2>2, <2>3, <2>4
<1>4. S = Nat
  <2> HIDE DEF S
  <2>1. S \in SUBSET Nat
    BY DEF S
  <2> QED BY <1>2, <1>3, <2>1, NatInd
<1>5. Cardinality(D) \in Nat
  BY FS_CardinalityType
<1>6. PICK f : f = [s \in SUBSET D |-> f[s]] /\ UpTo(f, Cardinality(D))
  BY <1>4, <1>5
<1>7. ASSUME NEW s \in SUBSET D PROVE Cardinality(s) <= Cardinality(D)
  BY FS_Subset
<1>8. Adds(D, fun, f)
  BY <1>6, <1>7 DEF Adds
<1> QED BY <1>8

(* Whatever zero is in and adding a summand keeps, the sum is in.          *)
LEMMA SumIn ==
  ASSUME NEW D, IsFiniteSet(D), NEW fun, DOMAIN fun = D,
         NEW V, 0 \in V, \A x \in D : \A v \in V : fun[x] + v \in V
  PROVE  FoldFunction(+, 0, fun) \in V
<1> DEFINE f == CHOOSE g : Adds(D, fun, g)
<1>1. Adds(D, fun, f)
  BY SumExists
<1>2. FoldFunction(+, 0, fun) = f[D]
  BY DEF FoldFunction, FoldFunctionOnSet, MapThenFoldSet, Adds
<1> HIDE DEF f
<1> DEFINE S == {n \in Nat : \A s \in SUBSET D : Cardinality(s) = n => f[s] \in V}
<1>3. ASSUME NEW s \in SUBSET D
      PROVE  /\ IsFiniteSet(s) /\ Cardinality(s) \in Nat /\ (Cardinality(s) = 0 <=> s = {})
             /\ s # {} => /\ s \ {CHOOSE x \in s : TRUE} \in SUBSET D
                          /\ (CHOOSE x \in s : TRUE) \in D
                          /\ Cardinality(s \ {CHOOSE x \in s : TRUE}) = Cardinality(s) - 1
  <2>1. IsFiniteSet(s)
    BY FS_Subset
  <2>2. s # {} => (CHOOSE x \in s : TRUE) \in s
    OBVIOUS
  <2> QED BY <2>1, <2>2, FS_RemoveElement, FS_CardinalityType, FS_EmptySet
<1>4. 0 \in S
  BY <1>1, <1>3 DEF Adds
<1>5. ASSUME NEW n \in S PROVE n + 1 \in S
  <2> SUFFICES ASSUME NEW s \in SUBSET D, Cardinality(s) = n + 1 PROVE f[s] \in V
    OBVIOUS
  <2>1. n \in Nat /\ s # {}
    BY <1>3
  <2> DEFINE x == CHOOSE y \in s : TRUE
  <2>2. s \ {x} \in SUBSET D /\ x \in D /\ Cardinality(s \ {x}) = n
    BY <1>3, <2>1
  <2>3. f[s] = fun[x] + f[s \ {x}]
    BY <1>1, <2>1 DEF Adds
  <2> QED BY <2>2, <2>3
<1>6. S = Nat
  <2> HIDE DEF S
  <2>1. S \in SUBSET Nat
    BY DEF S
  <2> QED BY <1>4, <1>5, <2>1, NatInd
<1>7. Cardinality(D) \in Nat
  BY FS_CardinalityType
<1>8. f[D] \in V
  BY <1>6, <1>7
<1> QED BY <1>2, <1>8

(* The two summaries have the types of their fields.                       *)
LEMMA SummaryTypes ==
  ASSUME NEW s, Shaped(s)
  PROVE  Total(s) \in Nat /\ Counts(s) \in [Statuses -> Nat]
<1>1. Total(s) \in Nat
  <2>1. DOMAIN s.cur = Provider /\ \A q \in Provider : s.cur[q] \in Nat
    BY DEF Shaped
  <2>2. \A q \in Provider : \A n \in Nat : s.cur[q] + n \in Nat
    BY <2>1
  <2> QED BY <2>1, <2>2, SumIn, PoolAssumption DEF Total
<1>2. ASSUME NEW st \in Statuses
      PROVE  Cardinality({q \in Provider : s.status[q] = st}) \in Nat
  BY PoolAssumption, FS_Subset, FS_CardinalityType
<1> QED BY <1>1, <1>2 DEF Counts

-----------------------------------------------------------------------------
(* Each change of a pool keeps it sound.                                   *)
LEMMA UpdatesSound ==
  ASSUME NEW s, Sound(s), NEW q \in Provider
  PROVE  /\ Sound(Exhaust(s, q)) /\ Sound(Recover(s, q)) /\ Sound(Disable(s, q))
         /\ Sound(Increment(s, q)) /\ Sound(Decrement(s, q))
         /\ Sound(ResetFailures(s, q))
<1>1. Sound(Exhaust(s, q))
  <2> DEFINE t == Exhaust(s, q)
  <2>1. /\ t.status = [s.status EXCEPT ![q] = "exhausted"]
        /\ t.cooling = [s.cooling EXCEPT ![q] = TRUE]
        /\ t.failures = [s.failures EXCEPT ![q] = @ + 1]
        /\ t.events = [s.events EXCEPT ![q] = @ + 1]
    BY DEF Exhaust, Sound, Shaped
  <2>2. Shaped(t)
    <3> DEFINE t1 == [s EXCEPT !.status[q] = "exhausted", !.cooling[q] = TRUE]
    <3>1. Shaped(t1)
      BY DEF Sound, Shaped, Statuses
    <3> DEFINE f == [t1.failures EXCEPT ![q] = @ + 1]
               e == [t1.events EXCEPT ![q] = @ + 1]
    <3>2. t = [t1 EXCEPT !.failures = f, !.events = e]
      BY DEF Exhaust, Sound, Shaped
    <3> HIDE DEF t1
    <3>3. f \in [Provider -> Nat] /\ e \in [Provider -> Nat]
      BY <3>1 DEF Shaped
    <3> HIDE DEF f, e, t
    <3> QED BY <3>1, <3>2, <3>3 DEF Shaped
  <2>3. \A o \in Provider : t.failures[o] <= t.events[o]
    BY <2>1 DEF Sound, Shaped
  <2>4. \A o \in Provider : t.status[o] = "exhausted" => t.cooling[o]
    BY <2>1 DEF Sound, Shaped
  <2> QED BY <2>2, <2>3, <2>4 DEF Sound
<1>2. Sound(Recover(s, q))
  <2> DEFINE t == Recover(s, q)
  <2>1. /\ t.status = [s.status EXCEPT ![q] = "available"]
        /\ t.cooling = [s.cooling EXCEPT ![q] = FALSE]
        /\ t.failures = [s.failures EXCEPT ![q] = 0]
        /\ t.events = s.events
    BY DEF Recover, Sound, Shaped
  <2>2. Shaped(t)
    BY DEF Recover, Sound, Shaped, Statuses
  <2>3. \A o \in Provider : t.failures[o] <= t.events[o]
    BY <2>1 DEF Sound, Shaped
  <2>4. \A o \in Provider : t.status[o] = "exhausted" => t.cooling[o]
    BY <2>1 DEF Sound, Shaped
  <2> QED BY <2>2, <2>3, <2>4 DEF Sound
<1>3. Sound(Disable(s, q))
  BY DEF Disable, Sound, Shaped, Statuses
<1>4. Sound(Increment(s, q))
  BY DEF Increment, Sound, Shaped
<1>5. Sound(Decrement(s, q))
  <2>1. (IF s.cur[q] = 0 THEN 0 ELSE s.cur[q] - 1) \in Nat
    BY DEF Sound, Shaped
  <2> QED BY <2>1 DEF Decrement, Sound, Shaped
<1>6. Sound(ResetFailures(s, q))
  BY DEF ResetFailures, Sound, Shaped
<1> QED BY <1>1, <1>2, <1>3, <1>4, <1>5, <1>6

(* A new summary keeps a pool sound, and is true of it: it is computed     *)
(* from fields it leaves alone.                                            *)
LEMMA SummarySound ==
  ASSUME NEW s, Sound(s)
  PROVE  Sound(Counted(s)) /\ Sound(Summed(s)) /\ TrueSummary(Summed(s))
<1>1. Sound(Counted(s)) /\ Sound(Summed(s))
  <2>1. Total(s) \in Nat /\ Counts(s) \in [Statuses -> Nat]
    BY SummaryTypes DEF Sound
  <2> QED BY <2>1 DEF Counted, Summed, Sound, Shaped
<1>2. /\ Summed(s).cur = s.cur /\ Summed(s).status = s.status
      /\ Summed(s).total = Total(s) /\ Summed(s).count = Counts(s)
  BY DEF Summed, Sound, Shaped
<1> QED BY <1>1, <1>2 DEF TrueSummary, Total, Counts

-----------------------------------------------------------------------------
LEMMA InitInv == Init => PoolInv
<1> SUFFICES ASSUME Init PROVE PoolInv
  OBVIOUS
<1> DEFINE s == [status |-> [q \in Provider |-> "available"],
                 cur |-> [q \in Provider |-> 0],
                 max |-> [q \in Provider |-> MaxLimit],
                 failures |-> [q \in Provider |-> 0],
                 events |-> [q \in Provider |-> 0],
                 cooling |-> [q \in Provider |-> FALSE],
                 total |-> 0, ceiling |-> MaxCeiling,
                 count |-> [st \in Statuses |-> 0]]
<1>1. Sound(s)
  BY PoolAssumption DEF Sound, Shaped, Statuses
<1>2. InitialPool = Counted(s)
  BY DEF InitialPool
<1> HIDE DEF s
<1>3. Sound(file)
  BY <1>1, <1>2, SummarySound DEF Init
<1> QED BY <1>3 DEF Init, PoolInv, Readable

(* A writer that loads the file and computes a sound pool, with a true     *)
(* summary where it owes one, keeps the invariant.                         *)
LEMMA StartInv ==
  ASSUME PoolInv, NEW p \in Proc, NEW o \in {"update", "route", "rotate"} \cup ConsoleOps, NEW new,
         Start(p, o, new), Sound(new),
         o \in {"update", "rotate"} => TrueSummary(new)
  PROVE  PoolInv'
<1>1. /\ copy' = [copy EXCEPT ![p] = new] /\ op' = [op EXCEPT ![p] = o]
      /\ pc' = [pc EXCEPT ![p] = IF o = "rotate" THEN "backup" ELSE "write"]
      /\ UNCHANGED <<file, backup>>
  BY DEF Start
<1>2. DOMAIN copy = Proc /\ DOMAIN op = Proc
  BY DEF PoolInv
<1>3. copy'[p] = new /\ \A q \in Proc : q # p => copy'[q] = copy[q]
  BY <1>1, <1>2
<1>4. op'[p] = o /\ \A q \in Proc : q # p => op'[q] = op[q]
  BY <1>1, <1>2
<1>5. \A q \in Proc : Readable(copy'[q]) /\ Readable(backup'[q])
  BY <1>1, <1>3 DEF PoolInv, Readable
<1>6. ASSUME NEW q \in Proc, op'[q] \in {"update", "rotate"}
      PROVE  TrueSummary(copy'[q])
  BY <1>3, <1>4, <1>6 DEF PoolInv
<1>7. pc' \in [Proc -> {"idle", "backup", "write", "fill", "cleanup"}]
  BY <1>1 DEF PoolInv
<1>8. op' \in [Proc -> {"none", "update", "route", "rotate", "restore"} \cup ConsoleOps]
  BY <1>1 DEF PoolInv
<1>9. copy' \in [Proc -> Pool \cup {Torn}]
  <2>1. new \in Pool
    BY DEF Sound, Shaped, Pool
  <2> QED BY <1>1, <2>1 DEF PoolInv
<1> QED BY <1>1, <1>2, <1>5, <1>6, <1>7, <1>8, <1>9 DEF PoolInv, Readable

(* So does every operation of every writer.                                *)
LEMMA LoadInv ==
  ASSUME PoolInv, NEW p \in Proc, Load(p)
  PROVE  PoolInv'
<1>1. file # Torn
  BY DEF Load, SetStatus, IncrementConcurrency, DecrementConcurrency,
         ResetFailureCount, RouteWorker, Rotate, DisableProvider, EnableProvider,
         ResetCooldown, AdjustMaxConcurrency, AdjustGlobalMaxWorkers,
         RotateFromConsole
<1>2. Sound(file)
  BY <1>1 DEF PoolInv, Readable
<1>3. CASE AdjustGlobalMaxWorkers(p)
  <2>1. PICK value \in 1 .. MaxCeiling :
          Start(p, "console", [file EXCEPT !.ceiling = value])
    BY <1>3 DEF AdjustGlobalMaxWorkers
  <2>2. Sound([file EXCEPT !.ceiling = value])
    BY <1>2, PoolAssumption DEF Sound, Shaped
  <2> QED BY <2>1, <2>2, StartInv DEF ConsoleOps
<1>4. CASE \E q \in Provider :
             SetStatus(p, q) \/ IncrementConcurrency(p, q)
               \/ DecrementConcurrency(p, q) \/ ResetFailureCount(p, q)
  <2>1. PICK q \in Provider :
          SetStatus(p, q) \/ IncrementConcurrency(p, q)
            \/ DecrementConcurrency(p, q) \/ ResetFailureCount(p, q)
    BY <1>4
  <2>2. PICK s \in {Exhaust(file, q), Recover(file, q), Disable(file, q),
                     Increment(file, q), Decrement(file, q),
                     ResetFailures(file, q)} :
          Start(p, "update", Summed(s))
    BY <2>1 DEF SetStatus, IncrementConcurrency, DecrementConcurrency,
                ResetFailureCount
  <2>3. Sound(s)
    BY <1>2, UpdatesSound
  <2> QED BY <2>2, <2>3, SummarySound, StartInv DEF ConsoleOps
<1>5. CASE \E q \in Provider :
             RouteWorker(p, q) \/ Rotate(p, q) \/ RotateFromConsole(p, q)
  <2>1. PICK q \in Provider :
          RouteWorker(p, q) \/ Rotate(p, q) \/ RotateFromConsole(p, q)
    BY <1>5
  <2>2. Sound(Increment(file, q)) /\ Sound(Recover(file, q))
    BY <1>2, UpdatesSound
  <2>3. CASE RouteWorker(p, q)
    BY <2>2, <2>3, StartInv DEF ConsoleOps, RouteWorker
  <2>4. CASE Rotate(p, q)
    BY <2>2, <2>4, SummarySound, StartInv DEF ConsoleOps, Rotate
  <2>5. CASE RotateFromConsole(p, q)
    BY <2>2, <2>5, SummarySound, StartInv DEF ConsoleOps, RotateFromConsole
  <2> QED BY <2>1, <2>3, <2>4, <2>5
<1>6. CASE \E q \in Provider :
             DisableProvider(p, q) \/ EnableProvider(p, q) \/ ResetCooldown(p, q)
  <2>1. PICK q \in Provider :
          DisableProvider(p, q) \/ EnableProvider(p, q) \/ ResetCooldown(p, q)
    BY <1>6
  <2>2. Sound([file EXCEPT !.status[q] = "disabled"])
    BY <1>2 DEF Sound, Shaped, Statuses
  <2>3. Sound([file EXCEPT !.status[q] = "available"])
    BY <1>2 DEF Sound, Shaped, Statuses
  <2>4. Sound([file EXCEPT !.cooling[q] = FALSE, !.status[q] = "available"])
    BY <1>2 DEF Sound, Shaped, Statuses
  <2>5. CASE DisableProvider(p, q)
    BY <2>2, <2>5, StartInv DEF ConsoleOps, DisableProvider
  <2>6. CASE EnableProvider(p, q)
    BY <2>3, <2>6, StartInv DEF ConsoleOps, EnableProvider
  <2>7. CASE ResetCooldown(p, q)
    BY <2>4, <2>7, StartInv DEF ConsoleOps, ResetCooldown
  <2> QED BY <2>1, <2>5, <2>6, <2>7
<1>7. CASE \E q \in Provider : AdjustMaxConcurrency(p, q)
  <2>1. PICK q \in Provider, value \in 1 .. MaxLimit :
          Start(p, "console", [file EXCEPT !.max[q] = value])
    BY <1>7 DEF AdjustMaxConcurrency
  <2>2. Sound([file EXCEPT !.max[q] = value])
    BY <1>2, PoolAssumption DEF Sound, Shaped
  <2> QED BY <2>1, <2>2, StartInv DEF ConsoleOps
<1> QED BY <1>3, <1>4, <1>5, <1>6, <1>7 DEF Load

(* Writing, backing up, rolling back and dying only move pools around.     *)
LEMMA WriteInv ==
  ASSUME PoolInv, NEW p \in Proc, Write(p) \/ Crash(p)
  PROVE  PoolInv'
<1>1. /\ copy'[p] \in {copy[p], backup[p], Torn}
      /\ \A q \in Proc : q # p => copy'[q] = copy[q]
      /\ DOMAIN copy' = Proc
  BY DEF PoolInv, Write, Backup, Empty, Fill, Finish, Rename, RollBack, Crash, End
<1>2. /\ backup'[p] \in {backup[p], file, Torn}
      /\ \A q \in Proc : q # p => backup'[q] = backup[q]
      /\ DOMAIN backup' = Proc
  BY DEF PoolInv, Write, Backup, Empty, Fill, Finish, Rename, RollBack, Crash, End
<1>3. /\ op'[p] \in {"restore", "none"} \/ (op'[p] = op[p] /\ copy'[p] = copy[p])
      /\ \A q \in Proc : q # p => op'[q] = op[q]
      /\ DOMAIN op' = Proc
  <2>1. CASE Backup(p) \/ Empty(p)
    BY <2>1 DEF PoolInv, Backup, Empty
  <2>2. CASE Fill(p) \/ Finish(p) \/ Rename(p) \/ Crash(p)
    BY <2>2 DEF PoolInv, Fill, Finish, Rename, Crash, End
  <2>3. CASE RollBack(p)
    BY <2>3 DEF PoolInv, RollBack
  <2> QED BY <2>1, <2>2, <2>3 DEF Write
<1>4. file' \in {file, Torn, copy[p]}
  BY DEF Write, Backup, Empty, Fill, Finish, Rename, RollBack, Crash
<1>5. Readable(file')
  BY <1>4 DEF PoolInv, Readable
<1>6. \A q \in Proc : Readable(copy'[q]) /\ Readable(backup'[q])
  BY <1>1, <1>2 DEF PoolInv, Readable
<1>7. ASSUME NEW q \in Proc, op'[q] \in {"update", "rotate"}
      PROVE  TrueSummary(copy'[q])
  BY <1>1, <1>3, <1>7 DEF PoolInv
<1>8. /\ pc' \in [Proc -> {"idle", "backup", "write", "fill", "cleanup"}]
      /\ op' \in [Proc -> {"none", "update", "route", "rotate", "restore"} \cup ConsoleOps]
  BY DEF PoolInv, Write, Backup, Empty, Fill, Finish, Rename, RollBack, Crash, End
<1>9. copy' \in [Proc -> Pool \cup {Torn}] /\ backup' \in [Proc -> Pool \cup {Torn}]
  <2>1. file \in Pool \cup {Torn}
    BY DEF PoolInv, Readable, Sound, Shaped, Pool
  <2> QED BY <2>1 DEF PoolInv, Write, Backup, Empty, Fill, Finish, Rename, RollBack, Crash, End
<1> QED BY <1>1, <1>2, <1>3, <1>5, <1>6, <1>7, <1>8, <1>9 DEF PoolInv, Readable

LEMMA Invariance == Spec => []PoolInv
<1>1. PoolInv /\ [Next]_vars => PoolInv'
  <2>1. CASE UNCHANGED vars
    BY <2>1 DEF PoolInv, Readable, vars
  <2>2. CASE Next
    BY <2>2, LoadInv, WriteInv DEF Next
  <2> QED BY <2>1, <2>2
<1> QED BY <1>1, InitInv, PTL DEF Spec

-----------------------------------------------------------------------------
(* Every pool that is or may become the file is a pool, field by field:    *)
(* no writer computes a negative count, a lost field or a sum that is none.*)
THEOREM TypeCorrect == Spec => []TypeOK
<1>1. PoolInv => TypeOK
  BY DEF PoolInv, TypeOK, Readable, Sound, Shaped, Pool
<1> QED BY <1>1, Invariance, PTL

(* Failures in a row never outnumber quota events, whichever of the        *)
(* updater, the router, rotations, rollbacks and the console overwrites    *)
(* which other.                                                            *)
THEOREM FailuresCounted == Spec => []FailuresWithinEvents
<1>1. PoolInv => FailuresWithinEvents
  BY DEF PoolInv, Readable, Sound, FailuresWithinEvents
<1> QED BY <1>1, Invariance, PTL

(* An exhausted provider keeps the cooldown that lets the console bring it *)
(* back.                                                                   *)
THEOREM ExhaustedRecoverable == Spec => []ExhaustedCools
<1>1. PoolInv => ExhaustedCools
  BY DEF PoolInv, Readable, Sound, ExhaustedCools
<1> QED BY <1>1, Invariance, PTL

(* The preflight stops a cycle only when neither the router nor the        *)
(* launcher could place a worker, whatever the summary on file says.       *)
THEOREM BlocksRightly == Spec => []BlocksOnlyWithoutRoom
<1>1. PoolInv => BlocksOnlyWithoutRoom
  <2> SUFFICES ASSUME Sound(file), Preflight(file) # "pass"
               PROVE  Candidates(file) = {} /\ Slots(file) = 0
    BY DEF PoolInv, Readable, BlocksOnlyWithoutRoom
  <2>1. /\ DOMAIN file.cur = Provider /\ DOMAIN file.max = Provider
        /\ \A q \in Provider : file.cur[q] \in Nat /\ file.max[q] \in Nat
        /\ file.total \in Nat /\ file.ceiling \in Nat
    BY DEF Sound, Shaped
  <2>2. ASSUME NEW q \in Provider, file.status[q] = "available"
        PROVE  file.cur[q] >= file.max[q]
    BY <2>2 DEF Preflight, Full
  <2>3. Candidates(file) = {}
    BY <2>1, <2>2 DEF Candidates, HasRoom
  <2> DEFINE room == [q \in Provider |-> IF file.status[q] = "available"
                                         THEN AtLeastZero(file.max[q] - file.cur[q]) ELSE 0]
             headroom == AtLeastZero(file.ceiling - file.total)
  <2>4. ASSUME NEW q \in Provider, NEW v \in {0} PROVE room[q] + v \in {0}
    BY <2>1, <2>2 DEF AtLeastZero
  <2>5. FoldFunction(+, 0, room) \in {0}
    <3>1. DOMAIN room = Provider /\ 0 \in {0} /\ IsFiniteSet(Provider)
      BY PoolAssumption
    <3> HIDE DEF room
    <3> QED BY <2>4, <3>1, SumIn
  <2>6. headroom \in Nat
    BY <2>1 DEF AtLeastZero
  <2>7. Slots(file) = IF FoldFunction(+, 0, room) < headroom
                      THEN FoldFunction(+, 0, room) ELSE headroom
    BY DEF Slots
  <2>8. Slots(file) = 0
    <3> HIDE DEF room, headroom
    <3>1. FoldFunction(+, 0, room) = 0
      BY <2>5
    <3>2. 0 < headroom \/ headroom = 0
      BY <2>6
    <3> QED BY <2>7, <3>1, <3>2
  <2> QED BY <2>3, <2>8
<1> QED BY <1>1, Invariance, PTL

(* The updater and a rotation leave a true summary behind them.            *)
THEOREM SummariesHeal == Spec => SummaryHeals
<1> DEFINE Heals ==
      \A p \in Proc :
        pc[p] = "fill" /\ pc'[p] # "fill" /\ file' # file /\ file' # Torn
          /\ op[p] \in {"update", "rotate"}
        => file'.total = Total(file') /\ file'.count = Counts(file')
<1>1. PoolInv /\ [Next]_vars => [Heals]_vars
  <2> SUFFICES ASSUME PoolInv, Next, NEW p \in Proc, pc[p] = "fill",
                      pc'[p] # "fill", file' # file, file' # Torn,
                      op[p] \in {"update", "rotate"}
               PROVE  TrueSummary(file')
    BY DEF TrueSummary
  <2>1. PICK q \in Proc : Load(q) \/ Write(q) \/ Crash(q)
    BY DEF Next
  <2>2. ~Load(q)
    BY DEF Load, Start, SetStatus, IncrementConcurrency, DecrementConcurrency,
           ResetFailureCount, RouteWorker, Rotate, DisableProvider, EnableProvider,
           ResetCooldown, AdjustMaxConcurrency, AdjustGlobalMaxWorkers,
           RotateFromConsole
  <2>3. q = p
    BY <2>1, <2>2 DEF PoolInv, Write, Backup, Empty, Fill, Finish, Rename, RollBack, Crash, End
  <2>4. file' = copy[p]
    BY <2>1, <2>2, <2>3 DEF PoolInv, Write, Backup, Empty, Fill, Finish, Rename, RollBack, Crash
  <2> QED BY <2>4 DEF PoolInv
<1> QED BY <1>1, Invariance, PTL DEF Spec, SummaryHeals
=============================================================================
