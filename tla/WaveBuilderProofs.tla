------------------------- MODULE WaveBuilderProofs -------------------------
(***************************************************************************)
(* Build-Waves is right for every batch, every cap and every assignment of *)
(* groups, locks and risk: its type, its safety and its greediness.        *)
(***************************************************************************)
EXTENDS WaveBuilder, FiniteSetTheorems, WellFoundedInduction, TLAPS

-----------------------------------------------------------------------------
(***************************************************************************)
(* What one step of Build-Waves does to a plan, for any plan and any task. *)
(***************************************************************************)

(* Clashing does not depend on which of the two tasks comes first.         *)
LEMMA ClashSymmetric ==
  ASSUME NEW s \in Task, NEW t \in Task
  PROVE  Clash(s, t) <=> Clash(t, s)
BY DEF Clash, SameGroup, LockOverlap, BothHighRisk

(* Joining a wave keeps the shape of the plan and lengthens that wave.     *)
LEMMA JoinShape ==
  ASSUME NEW ws \in Seq(Seq(Task)), NEW t \in Task, NEW i \in DOMAIN ws
  PROVE  /\ Join(ws, i, t) \in Seq(Seq(Task))
         /\ DOMAIN Join(ws, i, t) = DOMAIN ws
         /\ Len(Join(ws, i, t)) = Len(ws)
         /\ ws[i] \in Seq(Task)
         /\ Join(ws, i, t)[i] = Append(ws[i], t)
         /\ \A j \in DOMAIN ws : j # i => Join(ws, i, t)[j] = ws[j]
BY DEF Join

(* Opening a wave adds a one-task wave after the others.                   *)
LEMMA OpenShape ==
  ASSUME NEW ws \in Seq(Seq(Task)), NEW t \in Task
  PROVE  /\ Open(ws, t) \in Seq(Seq(Task))
         /\ Len(Open(ws, t)) = Len(ws) + 1
         /\ DOMAIN Open(ws, t) = 1 .. Len(ws) + 1
         /\ Open(ws, t)[Len(ws) + 1] = <<t>>
         /\ \A j \in DOMAIN ws : Open(ws, t)[j] = ws[j]
BY DEF Open

(* The elements of a lengthened wave.                                      *)
LEMMA AppendElements ==
  ASSUME NEW s \in Seq(Task), NEW t \in Task
  PROVE  /\ Append(s, t) \in Seq(Task)
         /\ Len(Append(s, t)) = Len(s) + 1
         /\ DOMAIN Append(s, t) = 1 .. Len(s) + 1
         /\ Append(s, t)[Len(s) + 1] = t
         /\ \A k \in DOMAIN s : Append(s, t)[k] = s[k]
OBVIOUS

(* A task joins a wave it fits in without bringing a clash into it.        *)
LEMMA JoinClashFree ==
  ASSUME NEW ws \in Seq(Seq(Task)), NEW t \in Task, NEW c \in Nat,
         NEW i \in DOMAIN ws, Fits(ws[i], t, c), ClashFree(ws)
  PROVE  ClashFree(Join(ws, i, t))
<1> DEFINE new == Join(ws, i, t)
<1>1. SUFFICES ASSUME NEW j \in DOMAIN new,
                      NEW k \in DOMAIN new[j], NEW l \in DOMAIN new[j], k # l
               PROVE  ~Clash(new[j][k], new[j][l])
  BY DEF ClashFree
<1>2. CASE j # i
  BY <1>1, <1>2, JoinShape DEF ClashFree
<1>3. CASE j = i
  <2>1. /\ new[j] = Append(ws[i], t) /\ ws[i] \in Seq(Task)
    BY <1>3, JoinShape
  <2>2. DOMAIN ws[i] = 1 .. Len(ws[i]) /\ Len(ws[i]) \in Nat
    BY <2>1
  <2>3. CASE k \in DOMAIN ws[i] /\ l \in DOMAIN ws[i]
    BY <1>1, <2>1, <2>3, AppendElements DEF ClashFree
  <2>4. CASE k = Len(ws[i]) + 1
    <3>1. l \in DOMAIN ws[i]
      BY <1>1, <2>1, <2>2, <2>4, AppendElements
    <3>2. new[j][k] = t /\ new[j][l] = ws[i][l] /\ ws[i][l] \in Task
      BY <2>1, <2>2, <2>4, <3>1, AppendElements
    <3>3. ~Clash(ws[i][l], t)
      BY <3>1 DEF Fits
    <3> QED BY <3>2, <3>3, ClashSymmetric
  <2>5. CASE l = Len(ws[i]) + 1
    <3>1. k \in DOMAIN ws[i]
      BY <1>1, <2>1, <2>2, <2>5, AppendElements
    <3>2. new[j][l] = t /\ new[j][k] = ws[i][k]
      BY <2>1, <2>2, <2>5, <3>1, AppendElements
    <3> QED BY <3>1, <3>2 DEF Fits
  <2> QED
    BY <1>1, <2>1, <2>2, <2>3, <2>4, <2>5, AppendElements
<1> QED BY <1>2, <1>3

(* A wave of one task has no clash.                                        *)
LEMMA OpenClashFree ==
  ASSUME NEW ws \in Seq(Seq(Task)), NEW t \in Task, ClashFree(ws)
  PROVE  ClashFree(Open(ws, t))
<1> DEFINE new == Open(ws, t)
<1>1. SUFFICES ASSUME NEW j \in DOMAIN new,
                      NEW k \in DOMAIN new[j], NEW l \in DOMAIN new[j], k # l
               PROVE  ~Clash(new[j][k], new[j][l])
  BY DEF ClashFree
<1>2. CASE j \in DOMAIN ws
  BY <1>1, <1>2, OpenShape DEF ClashFree
<1>3. CASE j = Len(ws) + 1
  BY <1>1, <1>3, OpenShape
<1> QED BY <1>2, <1>3, OpenShape

(* No wave outgrows its cap, and none is empty.                            *)
LEMMA JoinCapped ==
  ASSUME NEW ws \in Seq(Seq(Task)), NEW t \in Task, NEW c \in Nat,
         NEW i \in DOMAIN ws, Fits(ws[i], t, c), Capped(ws, c)
  PROVE  Capped(Join(ws, i, t), c)
<1>1. SUFFICES ASSUME NEW j \in DOMAIN ws
               PROVE  Len(Join(ws, i, t)[j]) \in 1 .. c
  BY JoinShape DEF Capped
<1>2. CASE j # i
  BY <1>2, JoinShape DEF Capped
<1>3. CASE j = i
  <2>1. Len(Join(ws, i, t)[i]) = Len(ws[i]) + 1 /\ Len(ws[i]) \in Nat
    BY JoinShape, AppendElements
  <2> QED BY <1>3, <2>1 DEF Fits
<1> QED BY <1>2, <1>3

LEMMA OpenCapped ==
  ASSUME NEW ws \in Seq(Seq(Task)), NEW t \in Task, NEW c \in Nat \ {0},
         Capped(ws, c)
  PROVE  Capped(Open(ws, t), c)
<1>1. SUFFICES ASSUME NEW j \in 1 .. Len(ws) + 1
               PROVE  Len(Open(ws, t)[j]) \in 1 .. c
  BY OpenShape DEF Capped
<1>2. CASE j \in DOMAIN ws
  BY <1>2, OpenShape DEF Capped
<1>3. CASE j = Len(ws) + 1
  <2>1. Open(ws, t)[j] = <<t>>
    BY <1>3, OpenShape
  <2>2. Len(<<t>>) = 1
    OBVIOUS
  <2> QED BY <2>1, <2>2
<1> QED BY <1>2, <1>3

(* A wave that cannot take a task cannot take it once it has grown.        *)
LEMMA GrownStillFull ==
  ASSUME NEW s \in Seq(Task), NEW t \in Task, NEW u \in Task, NEW c \in Nat,
         ~Fits(s, u, c)
  PROVE  ~Fits(Append(s, t), u, c)
<1>1. CASE Len(s) < c
  <2>1. PICK k \in DOMAIN s : Clash(s[k], u)
    BY <1>1 DEF Fits
  <2>2. k \in DOMAIN Append(s, t) /\ Append(s, t)[k] = s[k]
    BY AppendElements
  <2> QED BY <2>1, <2>2 DEF Fits
<1>2. CASE ~(Len(s) < c)
  BY <1>2, AppendElements DEF Fits
<1> QED BY <1>1, <1>2

(* No task of a plan could ever move to an earlier wave, after either step. *)
LEMMA JoinSettled ==
  ASSUME NEW ws \in Seq(Seq(Task)), NEW t \in Task, NEW c \in Nat,
         NEW i, FirstFit(ws, t, c, i), Settled(ws, c)
  PROVE  Settled(Join(ws, i, t), c)
<1> DEFINE new == Join(ws, i, t)
<1>0. i \in DOMAIN ws /\ DOMAIN ws = 1 .. Len(ws) /\ Len(ws) \in Nat
  BY DEF FirstFit
<1>1. SUFFICES ASSUME NEW h \in DOMAIN new, NEW k \in DOMAIN new[h],
                      NEW j \in 1 .. h - 1
               PROVE  ~Fits(new[j], new[h][k], c)
  BY DEF Settled
<1>2. h \in DOMAIN ws /\ j \in DOMAIN ws /\ ws[j] \in Seq(Task)
  <2>1. DOMAIN new = DOMAIN ws
    BY <1>0, JoinShape
  <2>2. h \in 1 .. Len(ws)
    BY <1>0, <1>1, <2>1
  <2>3. j \in 1 .. Len(ws)
    BY <1>0, <1>1, <2>2
  <2> QED BY <1>0, <2>2, <2>3
<1>3. new[h][k] \in Task /\ ~Fits(ws[j], new[h][k], c)
  <2>1. CASE h # i
    <3>1. new[h] = ws[h] /\ ws[h] \in Seq(Task)
      BY <1>0, <1>2, <2>1, JoinShape
    <3> QED BY <1>2, <3>1 DEF Settled
  <2>2. CASE h = i
    <3>1. new[h] = Append(ws[i], t) /\ ws[i] \in Seq(Task)
      BY <1>0, <2>2, JoinShape
    <3>2. CASE k \in DOMAIN ws[i]
      <4>1. new[h][k] = ws[i][k] /\ ws[i][k] \in Task
        BY <3>1, <3>2, AppendElements
      <4> QED BY <1>0, <2>2, <3>2, <4>1 DEF Settled
    <3>3. CASE k = Len(ws[i]) + 1
      <4>1. new[h][k] = t
        BY <3>1, <3>3, AppendElements
      <4> QED BY <2>2, <4>1 DEF FirstFit
    <3> QED BY <3>1, <3>2, <3>3, AppendElements
  <2> QED BY <2>1, <2>2
<1>4. CASE j # i
  BY <1>0, <1>2, <1>3, <1>4, JoinShape
<1>5. CASE j = i
  <2>1. new[j] = Append(ws[i], t) /\ ws[i] \in Seq(Task)
    BY <1>0, <1>5, JoinShape
  <2> QED BY <1>3, <1>5, <2>1, GrownStillFull
<1> QED BY <1>4, <1>5

LEMMA OpenSettled ==
  ASSUME NEW ws \in Seq(Seq(Task)), NEW t \in Task, NEW c \in Nat,
         NoWaveFits(ws, t, c), Settled(ws, c)
  PROVE  Settled(Open(ws, t), c)
<1> DEFINE new == Open(ws, t)
<1>0. DOMAIN ws = 1 .. Len(ws) /\ Len(ws) \in Nat
  OBVIOUS
<1>1. SUFFICES ASSUME NEW h \in DOMAIN new, NEW k \in DOMAIN new[h],
                      NEW j \in 1 .. h - 1
               PROVE  ~Fits(new[j], new[h][k], c)
  BY DEF Settled
<1>2a. DOMAIN new = 1 .. Len(ws) + 1
  BY OpenShape
<1>2b. j \in DOMAIN ws
  BY <1>0, <1>1, <1>2a
<1>2. j \in DOMAIN ws /\ new[j] = ws[j]
  BY <1>2b, OpenShape
<1>3. CASE h \in DOMAIN ws
  <2>1. new[h] = ws[h]
    BY <1>3, OpenShape
  <2> QED BY <1>2, <1>3, <2>1 DEF Settled
<1>4. CASE h = Len(ws) + 1
  <2>1. new[h] = <<t>>
    BY <1>4, OpenShape
  <2>2. new[h][k] = t
    BY <2>1
  <2> QED BY <1>2, <2>2 DEF NoWaveFits
<1> QED BY <1>0, <1>1, <1>2a, <1>3, <1>4

-----------------------------------------------------------------------------
IInv == TypeOK /\ WavesSafe /\ Settled(waves, cap)

LEMMA InitIInv == Init => IInv
<1> SUFFICES ASSUME Init PROVE IInv
  OBVIOUS
<1>1. plans \in Seq(Task)
  BY DEF Init, Batches
<1>2. cap \in Nat \ {0}
  BY BoundAssumption DEF Init
<1>3. waves = <<>> /\ next = 1 /\ DOMAIN waves = {}
  BY DEF Init
<1>4. TypeOK
  BY <1>1, <1>2, <1>3 DEF TypeOK
<1> QED
  BY <1>3, <1>4 DEF IInv, WavesSafe, ClashFree, Capped, Settled

LEMMA NextIInv == IInv /\ [Next]_vars => IInv'
<1> SUFFICES ASSUME IInv, [Next]_vars PROVE IInv'
  OBVIOUS
<1> USE DEF IInv
<1>1. ASSUME next <= Len(plans), UNCHANGED <<plans, cap>>, next' = next + 1
      PROVE  /\ plans' \in Seq(Task) /\ cap' \in Nat \ {0}
             /\ next' \in 1 .. Len(plans') + 1
             /\ plans[next] \in Task
  BY <1>1 DEF TypeOK
<1>2. CASE JoinWave
  <2>1. PICK i \in DOMAIN waves :
          /\ FirstFit(waves, plans[next], cap, i)
          /\ waves' = Join(waves, i, plans[next])
    BY <1>2 DEF JoinWave
  <2>2. Fits(waves[i], plans[next], cap)
    BY <2>1 DEF FirstFit
  <2>3. /\ plans[next] \in Task /\ waves \in Seq(Seq(Task)) /\ cap \in Nat
        /\ cap' = cap /\ ClashFree(waves) /\ Capped(waves, cap)
    BY <1>1, <1>2 DEF JoinWave, TypeOK, WavesSafe
  <2>4. TypeOK'
    BY <1>1, <1>2, <2>1, <2>3, JoinShape DEF JoinWave, TypeOK
  <2>5. ClashFree(waves') /\ Capped(waves', cap')
    BY <2>1, <2>2, <2>3, JoinClashFree, JoinCapped
  <2>6. Settled(waves', cap')
    BY <2>1, <2>3, JoinSettled
  <2> QED BY <2>4, <2>5, <2>6 DEF WavesSafe
<1>3. CASE OpenWave
  <2>1. /\ plans[next] \in Task /\ waves \in Seq(Seq(Task)) /\ cap \in Nat \ {0}
        /\ cap' = cap /\ ClashFree(waves) /\ Capped(waves, cap)
        /\ NoWaveFits(waves, plans[next], cap)
        /\ waves' = Open(waves, plans[next])
    BY <1>1, <1>3 DEF OpenWave, TypeOK, WavesSafe
  <2>2. TypeOK'
    BY <1>1, <1>3, <2>1, OpenShape DEF OpenWave, TypeOK
  <2>3. ClashFree(waves') /\ Capped(waves', cap')
    BY <2>1, OpenClashFree, OpenCapped
  <2>4. Settled(waves', cap')
    BY <2>1, OpenSettled
  <2> QED BY <2>2, <2>3, <2>4 DEF WavesSafe
<1>4. CASE UNCHANGED vars
  BY <1>4 DEF vars, TypeOK, WavesSafe, ClashFree, Capped, Settled, Fits
<1> QED BY <1>2, <1>3, <1>4 DEF Next

(* The loop of Build-Waves stays within its types, for batches of any size.*)
THEOREM TypeCorrect == Spec => []TypeOK
<1>1. IInv => TypeOK
  BY DEF IInv
<1> QED BY <1>1, InitIInv, NextIInv, PTL DEF Spec

(* Build-Waves never puts two clashing tasks in a wave, leaves no wave     *)
(* empty and lets none over the cap.                                       *)
THEOREM WavesAreSafe == Spec => []WavesSafe
<1>1. IInv => WavesSafe
  BY DEF IInv
<1> QED BY <1>1, InitIInv, NextIInv, PTL DEF Spec

(* Build-Waves places every task in the first wave that could ever take it:*)
(* no wave it skipped has room and peace for the task later on.            *)
THEOREM PlacedEarliest == Spec => []Earliest
<1>1. IInv => Earliest
  BY DEF IInv, Earliest
<1> QED BY <1>1, InitIInv, NextIInv, PTL DEF Spec
-----------------------------------------------------------------------------
(***************************************************************************)
(* Nothing is lost or doubled.  The positions where a task is placed grow  *)
(* by one with each of its occurrences in the batch; Roomy says that the   *)
(* positions Places looks at are all there are.                            *)
(***************************************************************************)
Roomy ==
  /\ Len(waves) <= next - 1
  /\ \A i \in DOMAIN waves : Len(waves[i]) <= next - 1

Asked(t) == {k \in 1 .. next - 1 : plans[k] = t}

Balanced == \A t \in Task : IsFiniteSet(Places(t)) /\ Cardinality(Places(t)) = Cardinality(Asked(t))

LEMMA AskedMore ==
  ASSUME TypeOK, next <= Len(plans), UNCHANGED plans, next' = next + 1, NEW t \in Task
  PROVE  /\ IsFiniteSet(Asked(t))
         /\ plans[next] = t =>
              Asked(t)' = Asked(t) \union {next} /\ next \notin Asked(t)
         /\ plans[next] # t => Asked(t)' = Asked(t)
<1>1. next \in Nat /\ next >= 1
  BY DEF TypeOK
<1>2. IsFiniteSet(Asked(t))
  <2>1. IsFiniteSet(1 .. next - 1)
    BY <1>1, FS_Interval
  <2> QED BY <2>1, FS_Subset DEF Asked
<1> QED BY <1>1, <1>2 DEF Asked

(* One more place, and the others stay.                                     *)
LEMMA BalanceStep ==
  ASSUME TypeOK, Balanced, next <= Len(plans), UNCHANGED plans, next' = next + 1,
         NEW p, p \notin Places(plans[next]),
         \A t \in Task : Places(t)' = IF t = plans[next] THEN Places(t) \union {p} ELSE Places(t)
  PROVE  Balanced'
<1> SUFFICES ASSUME NEW t \in Task
             PROVE  IsFiniteSet(Places(t)') /\ Cardinality(Places(t)') = Cardinality(Asked(t)')
  BY DEF Balanced
<1>1. IsFiniteSet(Places(t)) /\ Cardinality(Places(t)) = Cardinality(Asked(t))
  BY DEF Balanced
<1>2. CASE t = plans[next]
  <2>1. Asked(t)' = Asked(t) \union {next} /\ next \notin Asked(t) /\ IsFiniteSet(Asked(t))
    BY <1>2, AskedMore
  <2>2. Places(t)' = Places(t) \union {p} /\ p \notin Places(t)
    BY <1>2
  <2>3. Cardinality(Asked(t)') = Cardinality(Asked(t)) + 1
    BY <2>1, FS_AddElement
  <2>4. IsFiniteSet(Places(t)') /\ Cardinality(Places(t)') = Cardinality(Places(t)) + 1
    BY <1>1, <2>2, FS_AddElement
  <2> QED BY <1>1, <2>3, <2>4
<1>3. CASE t # plans[next]
  BY <1>1, <1>3, AskedMore
<1> QED BY <1>2, <1>3

LEMMA JoinBalance ==
  ASSUME TypeOK, Roomy, Balanced, JoinWave
  PROVE  Roomy' /\ Balanced'
<1>1. PICK i \in DOMAIN waves : waves' = Join(waves, i, plans[next])
  BY DEF JoinWave
<1>2. /\ next <= Len(plans) /\ UNCHANGED plans /\ next' = next + 1 /\ next \in Nat /\ next >= 1
      /\ Len(plans) \in Nat /\ plans[next] \in Task /\ waves \in Seq(Seq(Task))
  BY DEF JoinWave, TypeOK
<1> DEFINE u == plans[next]
           p == <<i, Len(waves[i]) + 1>>
<1>3. /\ waves' \in Seq(Seq(Task)) /\ DOMAIN waves' = DOMAIN waves /\ Len(waves') = Len(waves)
      /\ waves[i] \in Seq(Task) /\ waves'[i] = Append(waves[i], u)
      /\ \A j \in DOMAIN waves : j # i => waves'[j] = waves[j]
  BY <1>1, <1>2, JoinShape
<1>4. /\ Len(waves'[i]) = Len(waves[i]) + 1 /\ Len(waves[i]) \in Nat
      /\ waves'[i][Len(waves[i]) + 1] = u
      /\ \A k \in 1 .. Len(waves[i]) : waves'[i][k] = waves[i][k]
  BY <1>2, <1>3, AppendElements
<1>5. Roomy'
  <2>1. Len(waves) \in Nat /\ Len(waves') <= next' - 1
    BY <1>2, <1>3 DEF Roomy
  <2>2. ASSUME NEW j \in DOMAIN waves'
        PROVE  Len(waves'[j]) <= next' - 1
    <3>1. j \in DOMAIN waves /\ waves[j] \in Seq(Task) /\ Len(waves[j]) \in Nat
          /\ Len(waves[j]) <= next - 1
      BY <1>2, <1>3 DEF Roomy
    <3>2. CASE j = i
      BY <1>2, <1>4, <3>1, <3>2
    <3>3. CASE j # i
      <4>1. waves'[j] = waves[j]
        BY <1>3, <3>1, <3>3
      <4> QED BY <1>2, <3>1, <4>1
    <3> QED BY <3>2, <3>3
  <2> QED BY <2>1, <2>2 DEF Roomy
<1>6. Len(waves[i]) + 1 \in 1 .. Len(plans) /\ i \in 1 .. Len(waves)
  BY <1>2, <1>4 DEF Roomy
<1>7. p \notin Places(u)
  BY <1>4 DEF Places
<1>8. ASSUME NEW t \in Task
      PROVE  Places(t)' = IF t = u THEN Places(t) \union {p} ELSE Places(t)
  <2>1. ASSUME NEW j \in 1 .. Len(waves), NEW k \in 1 .. Len(plans)
        PROVE  (k <= Len(waves'[j]) /\ waves'[j][k] = t)
                 <=> \/ k <= Len(waves[j]) /\ waves[j][k] = t
                     \/ t = u /\ j = i /\ k = Len(waves[i]) + 1
    <3>1. CASE j # i
      <4>1. j \in DOMAIN waves
        BY <1>2
      <4>2. waves'[j] = waves[j]
        BY <1>3, <3>1, <4>1
      <4> QED BY <3>1, <4>2
    <3>2. CASE j = i
      <4>1. CASE k <= Len(waves[i])
        BY <1>4, <3>2, <4>1
      <4>2. CASE k = Len(waves[i]) + 1
        BY <1>4, <3>2, <4>2
      <4>3. CASE k > Len(waves[i]) + 1
        BY <1>4, <3>2, <4>3
      <4> QED BY <1>4, <4>1, <4>2, <4>3
    <3> QED BY <3>1, <3>2
  <2> QED BY <1>2, <1>3, <1>6, <2>1 DEF Places
<1>9. Balanced'
  BY <1>2, <1>7, <1>8, BalanceStep
<1> QED BY <1>5, <1>9

LEMMA OpenBalance ==
  ASSUME TypeOK, Roomy, Balanced, OpenWave
  PROVE  Roomy' /\ Balanced'
<1>1. /\ next <= Len(plans) /\ UNCHANGED plans /\ next' = next + 1 /\ next \in Nat /\ next >= 1
      /\ Len(plans) \in Nat /\ plans[next] \in Task /\ waves \in Seq(Seq(Task))
      /\ waves' = Open(waves, plans[next])
  BY DEF OpenWave, TypeOK
<1> DEFINE u == plans[next]
           p == <<Len(waves) + 1, 1>>
<1>2. /\ Len(waves') = Len(waves) + 1 /\ DOMAIN waves' = 1 .. Len(waves) + 1
      /\ waves'[Len(waves) + 1] = <<u>> /\ Len(waves) \in Nat
      /\ \A j \in DOMAIN waves : waves'[j] = waves[j]
  <2>1. Len(waves) \in Nat
    BY <1>1
  <2> QED BY <1>1, <2>1, OpenShape
<1>3. Roomy'
  <2>1. Len(waves') <= next' - 1
    BY <1>1, <1>2 DEF Roomy
  <2>2. ASSUME NEW j \in DOMAIN waves'
        PROVE  Len(waves'[j]) <= next' - 1
    <3>1. CASE j = Len(waves) + 1
      <4>1. waves'[j] = <<u>> /\ Len(<<u>>) = 1
        BY <1>2, <3>1
      <4> QED BY <1>1, <4>1
    <3>2. CASE j \in DOMAIN waves
      <4>1. waves'[j] = waves[j] /\ waves[j] \in Seq(Task) /\ Len(waves[j]) \in Nat
            /\ Len(waves[j]) <= next - 1
        BY <1>1, <1>2, <3>2 DEF Roomy
      <4> QED BY <1>1, <4>1
    <3>3. DOMAIN waves = 1 .. Len(waves)
      BY <1>1
    <3> QED BY <1>2, <3>1, <3>2, <3>3
  <2> QED BY <2>1, <2>2 DEF Roomy
<1>4. p \notin Places(u)
  BY <1>2 DEF Places
<1>5. ASSUME NEW t \in Task
      PROVE  Places(t)' = IF t = u THEN Places(t) \union {p} ELSE Places(t)
  <2>1. ASSUME NEW k \in 1 .. Len(plans)
        PROVE  (k <= Len(waves'[Len(waves) + 1]) /\ waves'[Len(waves) + 1][k] = t) <=> (t = u /\ k = 1)
    <3>1. Len(<<u>>) = 1 /\ <<u>>[1] = u
      OBVIOUS
    <3> QED BY <1>2, <3>1
  <2>2. ASSUME NEW j \in 1 .. Len(waves)
        PROVE  waves'[j] = waves[j]
    BY <1>1, <1>2
  <2>3. Len(waves) + 1 \notin 1 .. Len(waves) /\ 1 \in 1 .. Len(plans)
        /\ 1 .. Len(waves') = (1 .. Len(waves)) \union {Len(waves) + 1}
    BY <1>1, <1>2
  <2> QED BY <1>1, <2>1, <2>2, <2>3 DEF Places
<1>6. Balanced'
  BY <1>1, <1>4, <1>5, BalanceStep
<1> QED BY <1>3, <1>6

LEMMA InitBalance == Init => Roomy /\ Balanced
<1> SUFFICES ASSUME Init PROVE Roomy /\ Balanced
  OBVIOUS
<1>1. next = 1 /\ waves = <<>> /\ Len(waves) = 0 /\ DOMAIN waves = {}
  BY DEF Init
<1>2. \A t \in Task : Places(t) = {} /\ Asked(t) = {}
  BY <1>1 DEF Places, Asked
<1>3. Balanced
  BY <1>2, FS_EmptySet DEF Balanced
<1> QED BY <1>1, <1>3 DEF Roomy

(* Build-Waves places each task as often as the part of the batch it has    *)
(* read asks for it, for every batch: no task is lost, none runs twice.     *)
THEOREM NothingLostOrDoubled == Spec => []EachPlacedOnce
<1>1. TypeOK /\ Balanced => EachPlacedOnce
  <2> SUFFICES ASSUME TypeOK, Balanced, NEW t \in Task
               PROVE  Cardinality(Places(t)) = Occurrences(SubSeq(plans, 1, next - 1), t)
    BY DEF EachPlacedOnce
  <2>1. /\ DOMAIN SubSeq(plans, 1, next - 1) = 1 .. next - 1
        /\ \A k \in 1 .. next - 1 : SubSeq(plans, 1, next - 1)[k] = plans[k]
    BY DEF TypeOK
  <2>2. Occurrences(SubSeq(plans, 1, next - 1), t) = Cardinality(Asked(t))
    BY <2>1 DEF Occurrences, Asked
  <2> QED BY <2>2 DEF Balanced
<1>2. IInv /\ Roomy /\ Balanced /\ [Next]_vars => Roomy' /\ Balanced'
  <2>1. CASE UNCHANGED vars
    BY <2>1 DEF vars, Roomy, Balanced, Places, Asked
  <2> QED BY <2>1, JoinBalance, OpenBalance DEF Next, IInv
<1>3. IInv => TypeOK
  BY DEF IInv
<1> QED BY <1>1, <1>2, <1>3, InitIInv, NextIInv, InitBalance, PTL DEF Spec
-----------------------------------------------------------------------------
(***************************************************************************)
(* Build-Waves as a function of its arguments.  Induction over the numbers *)
(* is a fact about sets of numbers here: a nonempty one has a least.       *)
(***************************************************************************)
LEMMA NatLeast ==
  ASSUME NEW T \in SUBSET Nat, T # {}
  PROVE  \E x \in T : \A y \in T : x <= y
<1> DEFINE R == OpToRel(<, Nat)
<1>1. IsWellFoundedOn(R, Nat)
  BY NatLessThanWellFounded
<1>2. \A x, y \in Nat : <<y, x>> \in R <=> y < x
  BY DEF OpToRel
<1> HIDE DEF R
<1>3. PICK x \in T : \A y \in T : ~ (<<y, x>> \in R)
  BY <1>1, WFMin
<1>4. \A y \in T : ~ (y < x)
  BY <1>2, <1>3
<1> QED BY <1>4

LEMMA NatInd ==
  ASSUME NEW S \in SUBSET Nat, 0 \in S, \A n \in S : n + 1 \in S
  PROVE  S = Nat
<1> SUFFICES ASSUME S # Nat PROVE FALSE
  OBVIOUS
<1>1. PICK x \in Nat \ S : \A y \in Nat \ S : x <= y
  BY NatLeast
<1>2. x - 1 \in Nat /\ x - 1 \notin Nat \ S
  BY <1>1
<1>3. (x - 1) + 1 \in S
  BY <1>2
<1> QED BY <1>1, <1>3

(* A task that fits somewhere has a first wave it fits in, and only one.   *)
LEMMA FirstFitExists ==
  ASSUME NEW ws \in Seq(Seq(Task)), NEW t \in Task, NEW c \in Nat, ~NoWaveFits(ws, t, c)
  PROVE  \E i \in DOMAIN ws : FirstFit(ws, t, c, i)
<1> DEFINE T == {i \in DOMAIN ws : Fits(ws[i], t, c)}
<1>1. T \in SUBSET Nat /\ T # {} /\ DOMAIN ws = 1 .. Len(ws) /\ Len(ws) \in Nat
  BY DEF NoWaveFits
<1>2. PICK i \in T : \A j \in T : i <= j
  BY <1>1, NatLeast
<1>3. \A j \in 1 .. i - 1 : j \in DOMAIN ws /\ ~(i <= j)
  BY <1>1, <1>2
<1> QED BY <1>2, <1>3 DEF FirstFit

LEMMA FirstFitUnique ==
  ASSUME NEW ws \in Seq(Seq(Task)), NEW t \in Task, NEW c \in Nat,
         NEW i \in DOMAIN ws, FirstFit(ws, t, c, i),
         NEW j \in DOMAIN ws, FirstFit(ws, t, c, j)
  PROVE  i = j
<1>1. i \in Nat /\ j \in Nat /\ i >= 1 /\ j >= 1
  OBVIOUS
<1>2. (i < j => i \in 1 .. j - 1) /\ (j < i => j \in 1 .. i - 1)
  BY <1>1
<1>3. i \notin 1 .. j - 1 /\ j \notin 1 .. i - 1
  BY DEF FirstFit
<1> QED BY <1>1, <1>2, <1>3

(* Place joins the first wave that fits, or opens one.                     *)
LEMMA PlaceJoins ==
  ASSUME NEW ws \in Seq(Seq(Task)), NEW t \in Task, NEW c \in Nat,
         NEW i \in DOMAIN ws, FirstFit(ws, t, c, i)
  PROVE  Place(ws, t, c) = Join(ws, i, t)
<1>1. ~NoWaveFits(ws, t, c)
  BY DEF NoWaveFits, FirstFit
<1>2. (CHOOSE j \in DOMAIN ws : FirstFit(ws, t, c, j)) = i
  BY FirstFitUnique
<1> QED BY <1>1, <1>2 DEF Place

LEMMA PlaceOpens ==
  ASSUME NEW ws, NEW t, NEW c, NoWaveFits(ws, t, c)
  PROVE  Place(ws, t, c) = Open(ws, t)
BY DEF Place

LEMMA PlaceShape ==
  ASSUME NEW ws \in Seq(Seq(Task)), NEW t \in Task, NEW c \in Nat \ {0}, Capped(ws, c)
  PROVE  Place(ws, t, c) \in Seq(Seq(Task)) /\ Capped(Place(ws, t, c), c)
<1>1. CASE NoWaveFits(ws, t, c)
  BY <1>1, PlaceOpens, OpenShape, OpenCapped
<1>2. CASE ~NoWaveFits(ws, t, c)
  <2>1. PICK i \in DOMAIN ws : FirstFit(ws, t, c, i)
    BY <1>2, FirstFitExists
  <2>2. Fits(ws[i], t, c) /\ Place(ws, t, c) = Join(ws, i, t)
    BY <2>1, PlaceJoins DEF FirstFit
  <2> QED BY <2>1, <2>2, JoinShape, JoinCapped
<1> QED BY <1>1, <1>2

(* No wave of ws has more than c tasks.                                    *)
Small(ws, c) == \A i \in DOMAIN ws : Len(ws[i]) <= c

(* When placing a task under cap d leaves every wave at c or below, the    *)
(* waves were so before, and placing it under cap c gives the same plan.   *)
LEMMA PlaceSame ==
  ASSUME NEW ws \in Seq(Seq(Task)), NEW t \in Task, NEW c \in Nat, NEW d \in Nat,
         c <= d, Small(Place(ws, t, d), c)
  PROVE  Small(ws, c) /\ Place(ws, t, c) = Place(ws, t, d)
<1>0. \A i \in DOMAIN ws : ws[i] \in Seq(Task) /\ Len(ws[i]) \in Nat
  OBVIOUS
<1>1. \A i \in DOMAIN ws : Fits(ws[i], t, c) => Fits(ws[i], t, d)
  BY <1>0 DEF Fits
<1>2. CASE NoWaveFits(ws, t, d)
  <2>1. NoWaveFits(ws, t, c)
    BY <1>1, <1>2 DEF NoWaveFits
  <2>2. Place(ws, t, d) = Open(ws, t) /\ Place(ws, t, c) = Open(ws, t)
    BY <1>2, <2>1, PlaceOpens
  <2>3. ASSUME NEW i \in DOMAIN ws
        PROVE  Len(ws[i]) <= c
    <3>1. i \in DOMAIN Open(ws, t) /\ Open(ws, t)[i] = ws[i]
      <4>1. DOMAIN Open(ws, t) = 1 .. Len(ws) + 1 /\ DOMAIN ws = 1 .. Len(ws) /\ Len(ws) \in Nat
        BY OpenShape
      <4>2. i \in DOMAIN Open(ws, t)
        BY <4>1
      <4> QED BY <4>2, OpenShape
    <3> QED BY <2>2, <3>1 DEF Small
  <2> QED BY <2>2, <2>3 DEF Small
<1>3. CASE ~NoWaveFits(ws, t, d)
  <2>1. PICK i \in DOMAIN ws : FirstFit(ws, t, d, i)
    BY <1>3, FirstFitExists
  <2>2. Place(ws, t, d) = Join(ws, i, t)
    BY <2>1, PlaceJoins
  <2>3. /\ DOMAIN Join(ws, i, t) = DOMAIN ws /\ Join(ws, i, t)[i] = Append(ws[i], t)
        /\ \A j \in DOMAIN ws : j # i => Join(ws, i, t)[j] = ws[j]
    BY <2>1, JoinShape
  <2>4. Len(Append(ws[i], t)) = Len(ws[i]) + 1 /\ Len(ws[i]) \in Nat
    BY <1>0, AppendElements
  <2>5. Len(ws[i]) + 1 <= c
    BY <2>2, <2>3, <2>4 DEF Small
  <2>6. \A j \in DOMAIN ws : j # i => Len(ws[j]) <= c
    BY <2>2, <2>3 DEF Small
  <2>7. Small(ws, c)
    BY <2>4, <2>5, <2>6 DEF Small
  <2>8. Fits(ws[i], t, c)
    BY <2>1, <2>4, <2>5 DEF FirstFit, Fits
  <2>9. \A j \in 1 .. i - 1 : j \in DOMAIN ws
    <3>1. DOMAIN ws = 1 .. Len(ws) /\ Len(ws) \in Nat
      OBVIOUS
    <3> QED BY <3>1
  <2>10. FirstFit(ws, t, c, i)
    BY <1>1, <2>1, <2>8, <2>9 DEF FirstFit
  <2> QED BY <2>2, <2>7, <2>10, PlaceJoins
<1> QED BY <1>2, <1>3

(* The recursion of BuildWaves, as a relation: f holds the plan after each *)
(* task of the batch.                                                      *)
Trace(f, ps, c) ==
  /\ f[0] = <<>>
  /\ \A n \in 1 .. Len(ps) : f[n] = Place(f[n - 1], ps[n], c)

LEMMA TraceExists ==
  ASSUME NEW ps \in Seq(Task), NEW c
  PROVE  \E f : f = [n \in 0 .. Len(ps) |-> IF n = 0 THEN <<>> ELSE Place(f[n - 1], ps[n], c)]
<1> DEFINE UpTo(f, m) == f = [n \in 0 .. m |-> IF n = 0 THEN <<>> ELSE Place(f[n - 1], ps[n], c)]
           S == {m \in Nat : \E f : UpTo(f, m)}
<1>1. 0 \in S
  <2>1. UpTo([n \in 0 .. 0 |-> <<>>], 0)
    OBVIOUS
  <2> QED BY <2>1
<1>2. ASSUME NEW m \in S PROVE m + 1 \in S
  <2>1. PICK f : UpTo(f, m)
    BY <1>2
  <2> DEFINE g == [n \in 0 .. m + 1 |-> IF n = m + 1 THEN Place(f[m], ps[m + 1], c) ELSE f[n]]
             h == [n \in 0 .. m + 1 |-> IF n = 0 THEN <<>> ELSE Place(g[n - 1], ps[n], c)]
  <2>2. ASSUME NEW n \in 0 .. m + 1 PROVE g[n] = h[n]
    <3>0. m \in Nat
      OBVIOUS
    <3>1. CASE n = 0
      <4>1. f[0] = <<>>
        BY <2>1, <3>0
      <4> QED BY <3>0, <3>1, <4>1
    <3>2. CASE n \in 1 .. m
      <4>1. f[n] = Place(f[n - 1], ps[n], c)
        BY <2>1, <3>0, <3>2
      <4>2. g[n] = f[n] /\ g[n - 1] = f[n - 1]
        BY <3>0, <3>2
      <4>3. h[n] = Place(g[n - 1], ps[n], c)
        BY <3>0, <3>2
      <4> QED BY <4>1, <4>2, <4>3
    <3>3. CASE n = m + 1
      <4>1. g[n] = Place(f[m], ps[m + 1], c) /\ g[m] = f[m]
        BY <3>0, <3>3
      <4>2. h[n] = Place(g[m], ps[m + 1], c)
        BY <3>0, <3>3
      <4> QED BY <4>1, <4>2
    <3> QED BY <3>0, <3>1, <3>2, <3>3
  <2>3. g = h
    BY <2>2
  <2>4. UpTo(g, m + 1)
    BY <2>3
  <2> HIDE DEF UpTo
  <2> QED BY <2>4
<1>3. S = Nat
  <2> HIDE DEF S
  <2>1. S \in SUBSET Nat
    BY DEF S
  <2> QED BY <1>1, <1>2, <2>1, NatInd
<1>4. Len(ps) \in S
  BY <1>3
<1> QED BY <1>4

LEMMA BuildUnfold ==
  ASSUME NEW ps \in Seq(Task), NEW c
  PROVE  \E f : Trace(f, ps, c) /\ BuildWaves(ps, c) = f[Len(ps)]
<1> DEFINE f == CHOOSE g : g = [n \in 0 .. Len(ps) |-> IF n = 0 THEN <<>> ELSE Place(g[n - 1], ps[n], c)]
<1>1. f = [n \in 0 .. Len(ps) |-> IF n = 0 THEN <<>> ELSE Place(f[n - 1], ps[n], c)]
  BY TraceExists
<1>2. BuildWaves(ps, c) = f[Len(ps)]
  BY DEF BuildWaves
<1> HIDE DEF f
<1>3. f[0] = <<>>
  BY <1>1
<1>4. ASSUME NEW n \in 1 .. Len(ps) PROVE f[n] = Place(f[n - 1], ps[n], c)
  BY <1>1
<1>5. Trace(f, ps, c)
  BY <1>3, <1>4 DEF Trace
<1> QED BY <1>2, <1>5

(* Every plan of a trace is a plan, with no wave over the cap.             *)
LEMMA TraceShape ==
  ASSUME NEW ps \in Seq(Task), NEW c \in Nat \ {0}, NEW f, Trace(f, ps, c)
  PROVE  \A n \in 0 .. Len(ps) : f[n] \in Seq(Seq(Task)) /\ Capped(f[n], c)
<1> DEFINE S == {n \in Nat : n <= Len(ps) => f[n] \in Seq(Seq(Task)) /\ Capped(f[n], c)}
<1>1. 0 \in S
  <2>1. f[0] = <<>> /\ <<>> \in Seq(Seq(Task)) /\ DOMAIN <<>> = {}
    BY DEF Trace
  <2> QED BY <2>1 DEF Capped
<1>2. ASSUME NEW n \in S PROVE n + 1 \in S
  <2> SUFFICES ASSUME n + 1 <= Len(ps)
               PROVE  f[n + 1] \in Seq(Seq(Task)) /\ Capped(f[n + 1], c)
    OBVIOUS
  <2>1. n \in Nat /\ Len(ps) \in Nat
    OBVIOUS
  <2>2. f[n] \in Seq(Seq(Task)) /\ Capped(f[n], c)
    BY <2>1
  <2>3. n + 1 \in 1 .. Len(ps) /\ (n + 1) - 1 = n /\ ps[n + 1] \in Task
    BY <2>1
  <2>4. f[n + 1] = Place(f[n], ps[n + 1], c)
    BY <2>3 DEF Trace
  <2> QED BY <2>2, <2>3, <2>4, PlaceShape
<1>3. S = Nat
  <2> HIDE DEF S
  <2>1. S \in SUBSET Nat
    BY DEF S
  <2> QED BY <1>1, <1>2, <2>1, NatInd
<1> QED BY <1>3

(* Two caps no wave reaches build the same plan.                           *)
LEMMA SameTrace ==
  ASSUME NEW ps \in Seq(Task), NEW c \in Nat, NEW d \in Nat \ {0}, c <= d,
         NEW f, Trace(f, ps, d), NEW g, Trace(g, ps, c), Small(f[Len(ps)], c)
  PROVE  g[Len(ps)] = f[Len(ps)]
<1>0. Len(ps) \in Nat
  OBVIOUS
<1>1. ASSUME NEW n \in 1 .. Len(ps), Small(f[n], c)
      PROVE  Small(f[n - 1], c) /\ Place(f[n - 1], ps[n], c) = f[n]
  <2>1. f[n - 1] \in Seq(Seq(Task)) /\ ps[n] \in Task
    <3>1. n - 1 \in 0 .. Len(ps)
      BY <1>0
    <3> QED BY <3>1, TraceShape
  <2>2. f[n] = Place(f[n - 1], ps[n], d)
    BY DEF Trace
  <2>3. Small(Place(f[n - 1], ps[n], d), c)
    BY <1>1, <2>2
  <2> QED BY <2>1, <2>2, <2>3, PlaceSame
<1>2. \A n \in 0 .. Len(ps) : Small(f[n], c)
  <2> DEFINE S == {k \in Nat : k <= Len(ps) => Small(f[Len(ps) - k], c)}
  <2>1. 0 \in S
    BY <1>0
  <2>2. ASSUME NEW k \in S PROVE k + 1 \in S
    <3> SUFFICES ASSUME k + 1 <= Len(ps) PROVE Small(f[Len(ps) - (k + 1)], c)
      OBVIOUS
    <3>1. k \in Nat /\ Len(ps) - k \in 1 .. Len(ps) /\ Len(ps) - (k + 1) = (Len(ps) - k) - 1
      BY <1>0
    <3>2. Small(f[Len(ps) - k], c)
      BY <1>0, <3>1
    <3> QED BY <1>1, <3>1, <3>2
  <2>3. S = Nat
    <3> HIDE DEF S
    <3>1. S \in SUBSET Nat
      BY DEF S
    <3> QED BY <2>1, <2>2, <3>1, NatInd
  <2>4. ASSUME NEW n \in 0 .. Len(ps) PROVE Small(f[n], c)
    <3>1. Len(ps) - n \in Nat /\ Len(ps) - (Len(ps) - n) = n /\ Len(ps) - n <= Len(ps)
      BY <1>0
    <3>2. Len(ps) - n \in S
      BY ONLY <2>3, <3>1
    <3>3. Small(f[Len(ps) - (Len(ps) - n)], c)
      BY <3>1, <3>2
    <3> QED BY <3>1, <3>3
  <2> QED BY <2>4
<1>3. \A n \in 0 .. Len(ps) : g[n] = f[n]
  <2> DEFINE S == {n \in Nat : n <= Len(ps) => g[n] = f[n]}
  <2>1. 0 \in S
    BY DEF Trace
  <2>2. ASSUME NEW n \in S PROVE n + 1 \in S
    <3> SUFFICES ASSUME n + 1 <= Len(ps) PROVE g[n + 1] = f[n + 1]
      OBVIOUS
    <3>1. n + 1 \in 1 .. Len(ps) /\ (n + 1) - 1 = n /\ n + 1 \in 0 .. Len(ps) /\ n <= Len(ps)
      BY <1>0
    <3>2. g[n] = f[n]
      BY <3>1
    <3>3. g[n + 1] = Place(g[n], ps[n + 1], c)
      BY <3>1 DEF Trace
    <3>4. f[n + 1] = Place(f[n], ps[n + 1], c)
      BY <1>1, <1>2, <3>1
    <3> QED BY <3>2, <3>3, <3>4
  <2>3. S = Nat
    <3> HIDE DEF S
    <3>1. S \in SUBSET Nat
      BY DEF S
    <3> QED BY <2>1, <2>2, <3>1, NatInd
  <2> QED BY <1>0, <2>3
<1> QED BY <1>0, <1>3

(* The conflict-safe slots are the size of a largest wave: none is larger. *)
LEMMA SlotsMaximal ==
  ASSUME NEW ps \in Seq(Task)
  PROVE  /\ ConflictSafeSlots(ps) \in Nat
         /\ Small(BuildWaves(ps, 30), ConflictSafeSlots(ps))
<1> DEFINE ws == BuildWaves(ps, 30)
           sizes == {1} \cup {Len(ws[i]) : i \in DOMAIN ws}
           rest == {30 - n : n \in sizes}
<1>1. ws \in Seq(Seq(Task)) /\ Capped(ws, 30)
  <2>1. PICK f : Trace(f, ps, 30) /\ ws = f[Len(ps)]
    BY BuildUnfold
  <2>2. Len(ps) \in 0 .. Len(ps) /\ 30 \in Nat \ {0}
    OBVIOUS
  <2> QED BY <2>1, <2>2, TraceShape
<1>2. sizes \subseteq 1 .. 30
  <2>1. \A i \in DOMAIN ws : Len(ws[i]) \in 1 .. 30
    BY <1>1 DEF Capped
  <2> HIDE DEF ws
  <2>2. 1 \in 1 .. 30
    OBVIOUS
  <2> QED BY <2>1, <2>2
<1>3. ConflictSafeSlots(ps) = CHOOSE n \in sizes : \A m \in sizes : m <= n
  BY DEF ConflictSafeSlots
<1>4. Small(ws, ConflictSafeSlots(ps)) <=> \A i \in DOMAIN ws : Len(ws[i]) <= ConflictSafeSlots(ps)
  BY DEF Small
<1>5. 1 \in sizes /\ \A i \in DOMAIN ws : Len(ws[i]) \in sizes
  OBVIOUS
<1> HIDE DEF sizes, ws
<1>6. \A n \in sizes : n \in Nat
  BY <1>2
<1>7. rest \in SUBSET Nat /\ rest # {}
  BY <1>2, <1>5
<1>8. PICK r \in rest : \A s \in rest : r <= s
  BY <1>7, NatLeast
<1>9. PICK big \in sizes : r = 30 - big
  BY <1>8
<1>10. ASSUME NEW m \in sizes PROVE m <= big
  <2>1. 30 - big <= 30 - m
    BY <1>8, <1>9
  <2> QED BY <1>2, <1>9, <2>1
<1>11. ConflictSafeSlots(ps) \in sizes /\ \A m \in sizes : m <= ConflictSafeSlots(ps)
  BY <1>3, <1>9, <1>10
<1>12. ConflictSafeSlots(ps) \in Nat
  BY <1>6, <1>11
<1> QED BY <1>4, <1>5, <1>11, <1>12 DEF ws

(* Capping a plan at its conflict-safe slots changes nothing of it.        *)
LEMMA SlotsHarmless ==
  ASSUME NEW ps \in Seq(Task), NEW c \in 1 .. 30, ConflictSafeSlots(ps) < c
  PROVE  BuildWaves(ps, ConflictSafeSlots(ps)) = BuildWaves(ps, c)
<1> DEFINE k == ConflictSafeSlots(ps)
<1>1. k \in Nat /\ Small(BuildWaves(ps, 30), k)
  BY SlotsMaximal
<1>2. Small(BuildWaves(ps, 30), c)
  <2>1. PICK f : Trace(f, ps, 30) /\ BuildWaves(ps, 30) = f[Len(ps)]
    BY BuildUnfold
  <2>2. 30 \in Nat \ {0} /\ Len(ps) \in 0 .. Len(ps)
    OBVIOUS
  <2>3. BuildWaves(ps, 30) \in Seq(Seq(Task))
    BY <2>1, <2>2, TraceShape
  <2>4. \A i \in DOMAIN BuildWaves(ps, 30) : Len(BuildWaves(ps, 30)[i]) \in Nat
    BY <2>3
  <2> QED BY <1>1, <2>4 DEF Small
<1> HIDE DEF k
<1>3. ASSUME NEW e \in Nat, e <= 30, Small(BuildWaves(ps, 30), e)
      PROVE  BuildWaves(ps, e) = BuildWaves(ps, 30)
  <2>1. PICK f : Trace(f, ps, 30) /\ BuildWaves(ps, 30) = f[Len(ps)]
    BY BuildUnfold
  <2>2. PICK g : Trace(g, ps, e) /\ BuildWaves(ps, e) = g[Len(ps)]
    BY BuildUnfold
  <2>3. 30 \in Nat \ {0}
    OBVIOUS
  <2> QED BY <1>3, <2>1, <2>2, <2>3, SameTrace
<1>4. k <= 30 /\ c <= 30 /\ c \in Nat
  BY <1>1 DEF k
<1>5. BuildWaves(ps, k) = BuildWaves(ps, 30) /\ BuildWaves(ps, c) = BuildWaves(ps, 30)
  BY <1>1, <1>2, <1>3, <1>4
<1> QED BY <1>5 DEF k

(***************************************************************************)
(* The loop of Build-Waves follows that recursion, plan by plan.           *)
(***************************************************************************)
Follows == cap \in 1 .. 30 /\ \A f : Trace(f, plans, cap) => waves = f[next - 1]

LEMMA InitFollows == Init => Follows
<1> SUFFICES ASSUME Init PROVE Follows
  OBVIOUS
<1>1. cap \in 1 .. 30
  BY BoundAssumption DEF Init
<1>2. waves = <<>> /\ next - 1 = 0
  BY DEF Init
<1> QED BY <1>1, <1>2 DEF Follows, Trace

LEMMA NextFollows == TypeOK /\ Follows /\ [Next]_vars => Follows'
<1> SUFFICES ASSUME TypeOK, Follows, [Next]_vars PROVE Follows'
  OBVIOUS
<1>1. CASE UNCHANGED vars
  <2>1. plans' = plans /\ cap' = cap /\ next' = next /\ waves' = waves
    BY <1>1 DEF vars
  <2> QED BY <2>1 DEF Follows, Trace
<1>2. ASSUME next <= Len(plans), next' = next + 1, UNCHANGED <<plans, cap>>,
             waves' = Place(waves, plans[next], cap)
      PROVE  Follows'
  <2> SUFFICES ASSUME NEW f, Trace(f, plans, cap) PROVE waves' = f[next' - 1]
    BY <1>2 DEF Follows, Trace
  <2>1. waves = f[next - 1]
    BY DEF Follows
  <2>2. next \in 1 .. Len(plans) /\ next' - 1 = next
    BY <1>2 DEF TypeOK
  <2>3. f[next] = Place(f[next - 1], plans[next], cap)
    BY <2>2 DEF Trace
  <2> QED BY <1>2, <2>1, <2>2, <2>3
<1>3. CASE JoinWave
  <2>1. PICK i \in DOMAIN waves :
          FirstFit(waves, plans[next], cap, i) /\ waves' = Join(waves, i, plans[next])
    BY <1>3 DEF JoinWave
  <2>2. /\ next <= Len(plans) /\ next' = next + 1 /\ UNCHANGED <<plans, cap>>
        /\ plans[next] \in Task /\ waves \in Seq(Seq(Task)) /\ cap \in Nat
    BY <1>3 DEF JoinWave, TypeOK
  <2>3. waves' = Place(waves, plans[next], cap)
    BY <2>1, <2>2, PlaceJoins
  <2> QED BY <1>2, <2>2, <2>3
<1>4. CASE OpenWave
  <2>1. /\ next <= Len(plans) /\ next' = next + 1 /\ UNCHANGED <<plans, cap>>
        /\ NoWaveFits(waves, plans[next], cap) /\ waves' = Open(waves, plans[next])
    BY <1>4 DEF OpenWave
  <2> QED BY <1>2, <2>1, PlaceOpens
<1> QED BY <1>1, <1>3, <1>4 DEF Next

(* The conflict-safe slots never change a plan, for any batch and any cap: *)
(* building with the lesser of the two gives the waves of the cap alone.   *)
THEOREM SlotsNeutral == Spec => []ConflictSlotsNeutral
<1>1. TypeOK /\ Follows => ConflictSlotsNeutral
  <2> SUFFICES ASSUME TypeOK, Follows, next > Len(plans)
               PROVE  waves = BuildWaves(plans, IF ConflictSafeSlots(plans) < cap
                                                THEN ConflictSafeSlots(plans) ELSE cap)
    BY DEF ConflictSlotsNeutral
  <2>1. plans \in Seq(Task) /\ next - 1 = Len(plans) /\ cap \in 1 .. 30
    BY DEF TypeOK, Follows
  <2>2. PICK f : Trace(f, plans, cap) /\ BuildWaves(plans, cap) = f[Len(plans)]
    BY <2>1, BuildUnfold
  <2>3. waves = BuildWaves(plans, cap)
    BY <2>1, <2>2 DEF Follows
  <2> QED BY <2>1, <2>3, SlotsHarmless
<1>2. IInv => TypeOK
  BY DEF IInv
<1> QED BY <1>1, <1>2, InitIInv, NextIInv, InitFollows, NextFollows, PTL DEF Spec
=============================================================================
