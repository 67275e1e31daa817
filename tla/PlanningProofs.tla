--------------------------- MODULE PlanningProofs ---------------------------
(***************************************************************************)
(* What a top-up may select and how a backfill lays out its waves, for any *)
(* issues, labels, pull requests, files and defaults.                      *)
(***************************************************************************)
EXTENDS Planning, FiniteSetTheorems, WellFoundedInduction, TLAPS

-----------------------------------------------------------------------------
(***************************************************************************)
(* The loops the actions run.  Induction over the numbers is a fact about  *)
(* sets of numbers here: a nonempty one has a least.                       *)
(***************************************************************************)
LEMMA NatLeast ==
  ASSUME NEW T \in SUBSET Nat, T # {}
  PROVE  \E x \in T : \A y \in T : x <= y
<1> DEFINE R == OpToRel(<, Nat)
<1>1. IsWellFoundedOn(R, Nat)
  BY NatLessThanWellFounded
<1>2. \A x, y \in Nat : <<y, x>> \in R <=> y < x
  BY DEF OpToRel
<1> HIDE DEF R
<1>3. PICK x \in T : \A y \in T : ~ (<<y, x>> \in R)
  BY <1>1, WFMin
<1>4. \A y \in T : ~ (y < x)
  BY <1>2, <1>3
<1> QED BY <1>4

LEMMA NatInd ==
  ASSUME NEW S \in SUBSET Nat, 0 \in S, \A n \in S : n + 1 \in S
  PROVE  S = Nat
<1> SUFFICES ASSUME S # Nat PROVE FALSE
  OBVIOUS
<1>1. PICK x \in Nat \ S : \A y \in Nat \ S : x <= y
  BY NatLeast
<1>2. x - 1 \in Nat /\ x - 1 \notin Nat \ S
  BY <1>1
<1>3. (x - 1) + 1 \in S
  BY <1>2
<1> QED BY <1>1, <1>3

(* The recursion of Kept, as a relation.                                   *)
Keeps(f, s, keep) ==
  /\ f[0] = << >>
  /\ \A n \in 1 .. Len(s) : f[n] = IF n \in keep THEN Append(f[n - 1], s[n]) ELSE f[n - 1]

LEMMA KeptUnfold ==
  ASSUME NEW S, NEW s \in Seq(S), NEW keep
  PROVE  \E f : Keeps(f, s, keep) /\ Kept(s, keep) = f[Len(s)]
<1> DEFINE Of(f, n) == IF n = 0 THEN << >>
                       ELSE IF n \in keep THEN Append(f[n - 1], s[n]) ELSE f[n - 1]
           UpTo(f, m) == f = [n \in 0 .. m |-> Of(f, n)]
           U == {m \in Nat : \E f : UpTo(f, m)}
<1>1. 0 \in U
  <2>1. UpTo([n \in 0 .. 0 |-> << >>], 0)
    OBVIOUS
  <2> QED BY <2>1
<1>2. ASSUME NEW m \in U PROVE m + 1 \in U
  <2>1. PICK f : UpTo(f, m)
    BY <1>2
  <2> DEFINE g == [n \in 0 .. m + 1 |-> IF n = m + 1 THEN Of(f, n) ELSE f[n]]
             h == [n \in 0 .. m + 1 |-> Of(g, n)]
  <2>2. ASSUME NEW n \in 0 .. m + 1 PROVE g[n] = h[n]
    <3>0. m \in Nat
      OBVIOUS
    <3>1. g[n] = Of(f, n)
      <4>1. CASE n = m + 1
        BY <4>1
      <4>2. CASE n \in 0 .. m
        <5>1. f[n] = Of(f, n)
          BY <2>1, <4>2
        <5> QED BY <3>0, <4>2, <5>1
      <4> QED BY <3>0, <4>1, <4>2
    <3>2. n # 0 => g[n - 1] = f[n - 1]
      BY <3>0
    <3>3. h[n] = Of(g, n)
      OBVIOUS
    <3> QED BY <3>1, <3>2, <3>3
  <2>3. g = h
    BY <2>2
  <2>4. UpTo(g, m + 1)
    BY <2>3
  <2> HIDE DEF UpTo
  <2> QED BY <2>4
<1>3. U = Nat
  <2> HIDE DEF U
  <2>1. U \in SUBSET Nat
    BY DEF U
  <2> QED BY <1>1, <1>2, <2>1, NatInd
<1>4. PICK g : UpTo(g, Len(s))
  <2>1. Len(s) \in U
    BY <1>3
  <2> QED BY <2>1
<1> DEFINE f == CHOOSE h : UpTo(h, Len(s))
<1>5. Kept(s, keep) = f[Len(s)]
  BY DEF Kept
<1>6. UpTo(f, Len(s))
  <2> HIDE DEF UpTo
  <2> QED BY <1>4
<1> HIDE DEF f
<1>7. Keeps(f, s, keep)
  <2>1. f[0] = << >>
    BY <1>6
  <2>2. ASSUME NEW n \in 1 .. Len(s)
        PROVE  f[n] = IF n \in keep THEN Append(f[n - 1], s[n]) ELSE f[n - 1]
    <3>1. n \in 0 .. Len(s) /\ n # 0
      OBVIOUS
    <3>2. f[n] = Of(f, n)
      BY <1>6, <3>1
    <3> QED BY <3>1, <3>2
  <2> QED BY <2>1, <2>2 DEF Keeps
<1> QED BY <1>5, <1>7

(* What is kept is a list, of elements of the list.                        *)
LEMMA KeptList ==
  ASSUME NEW S, NEW s \in Seq(S), NEW keep
  PROVE  Kept(s, keep) \in Seq(S)
<1>1. PICK f : Keeps(f, s, keep) /\ Kept(s, keep) = f[Len(s)]
  BY KeptUnfold
<1> DEFINE U == {n \in Nat : n <= Len(s) => f[n] \in Seq(S)}
<1>2. 0 \in U
  <2>1. f[0] = << >> /\ << >> \in Seq(S)
    BY <1>1 DEF Keeps
  <2>2. f[0] \in Seq(S)
    BY <2>1
  <2> QED BY <2>2
<1>3. ASSUME NEW n \in U PROVE n + 1 \in U
  <2> SUFFICES ASSUME n + 1 <= Len(s) PROVE f[n + 1] \in Seq(S)
    OBVIOUS
  <2>1. n + 1 \in 1 .. Len(s) /\ (n + 1) - 1 = n /\ s[n + 1] \in S /\ f[n] \in Seq(S)
    OBVIOUS
  <2>2. f[n + 1] = IF n + 1 \in keep THEN Append(f[n], s[n + 1]) ELSE f[n]
    BY <1>1, <2>1 DEF Keeps
  <2> QED BY <2>1, <2>2
<1>4. U = Nat
  <2> HIDE DEF U
  <2>1. U \in SUBSET Nat
    BY DEF U
  <2> QED BY <1>2, <1>3, <2>1, NatInd
<1> QED BY <1>1, <1>4

(* What is kept stands in the order of the list, and nothing else is left  *)
(* out: pos tells where each of it was.                                    *)
Ranked(out, s, keep, m, pos) ==
  /\ \A i \in DOMAIN out : pos[i] \in 1 .. m /\ pos[i] \in keep /\ out[i] = s[pos[i]]
  /\ \A i, j \in DOMAIN out : i < j => pos[i] < pos[j]
  /\ \A k \in 1 .. m : k \in keep => \E i \in DOMAIN out : pos[i] = k

LEMMA KeptRanked ==
  ASSUME NEW S, NEW s \in Seq(S), NEW keep
  PROVE  \E pos : Ranked(Kept(s, keep), s, keep, Len(s), pos)
<1>1. PICK f : Keeps(f, s, keep) /\ Kept(s, keep) = f[Len(s)]
  BY KeptUnfold
<1> DEFINE Good(n) == f[n] \in Seq(S) /\ \E pos : Ranked(f[n], s, keep, n, pos)
           U == {n \in Nat : n <= Len(s) => Good(n)}
<1>2. 0 \in U
  <2>1. f[0] = << >> /\ << >> \in Seq(S) /\ DOMAIN << >> = {} /\ 1 .. 0 = {}
    BY <1>1 DEF Keeps
  <2>2. Ranked(f[0], s, keep, 0, << >>)
    BY <2>1 DEF Ranked
  <2> HIDE DEF Ranked
  <2> QED BY <2>1, <2>2
<1>3. ASSUME NEW n \in U PROVE n + 1 \in U
  <2> SUFFICES ASSUME n + 1 <= Len(s) PROVE Good(n + 1)
    OBVIOUS
  <2>1. n + 1 \in 1 .. Len(s) /\ (n + 1) - 1 = n /\ n \in Nat /\ s[n + 1] \in S /\ Good(n)
    OBVIOUS
  <2> HIDE DEF U
  <2>2. f[n + 1] = IF n + 1 \in keep THEN Append(f[n], s[n + 1]) ELSE f[n]
    BY <1>1, <2>1 DEF Keeps
  <2>3. PICK pos : Ranked(f[n], s, keep, n, pos)
    BY <2>1
  <2>4. CASE n + 1 \notin keep
    <3>1. \A i \in DOMAIN f[n] : pos[i] \in 1 .. n + 1 /\ pos[i] \in keep /\ f[n][i] = s[pos[i]]
      BY <2>1, <2>3 DEF Ranked
    <3>2. \A k \in 1 .. n + 1 : k \in keep => k \in 1 .. n
      BY <2>1, <2>4
    <3>3. Ranked(f[n], s, keep, n + 1, pos)
      BY <2>3, <3>1, <3>2 DEF Ranked
    <3> HIDE DEF Ranked
    <3> QED BY <2>1, <2>2, <2>4, <3>3
  <2>5. CASE n + 1 \in keep
    <3> DEFINE out == f[n]
               more == Append(out, s[n + 1])
               last == Len(out) + 1
               far == [i \in 1 .. last |-> IF i = last THEN n + 1 ELSE pos[i]]
    <3>1. out \in Seq(S) /\ Len(out) \in Nat /\ DOMAIN out = 1 .. Len(out)
      BY <2>1
    <3>2. /\ more \in Seq(S) /\ DOMAIN more = 1 .. last /\ more[last] = s[n + 1]
          /\ \A i \in 1 .. Len(out) : more[i] = out[i]
      BY <2>1, <3>1
    <3>3. far[last] = n + 1 /\ \A i \in 1 .. Len(out) : far[i] = pos[i]
      BY <3>1
    <3> HIDE DEF out, more, far
    <3>4. ASSUME NEW i \in 1 .. last
          PROVE  far[i] \in 1 .. n + 1 /\ far[i] \in keep /\ more[i] = s[far[i]]
      <4>1. CASE i = last
        BY <2>1, <2>5, <3>2, <3>3, <4>1
      <4>2. CASE i # last
        <5>1. i \in 1 .. Len(out)
          BY <3>1, <4>2
        <5>2. pos[i] \in 1 .. n /\ pos[i] \in keep /\ out[i] = s[pos[i]]
          BY <2>3, <3>1, <5>1 DEF Ranked, out
        <5> QED BY <2>1, <3>2, <3>3, <5>1, <5>2
      <4> QED BY <4>1, <4>2
    <3>5. ASSUME NEW i \in 1 .. last, NEW j \in 1 .. last, i < j PROVE far[i] < far[j]
      <4>1. i \in 1 .. Len(out) /\ pos[i] \in 1 .. n
        <5>1. i \in 1 .. Len(out)
          BY <3>1, <3>5
        <5> QED BY <2>3, <3>1, <5>1 DEF Ranked, out
      <4>2. CASE j = last
        BY <2>1, <3>3, <4>1, <4>2
      <4>3. CASE j # last
        <5>1. j \in 1 .. Len(out)
          BY <3>1, <4>3
        <5>2. pos[i] < pos[j]
          BY <2>3, <3>1, <3>5, <4>1, <5>1 DEF Ranked, out
        <5> QED BY <3>3, <4>1, <5>1, <5>2
      <4> QED BY <4>2, <4>3
    <3>6. ASSUME NEW k \in 1 .. n + 1, k \in keep PROVE \E i \in 1 .. last : far[i] = k
      <4>1. CASE k = n + 1
        <5>1. last \in 1 .. last
          BY <3>1
        <5> QED BY <3>3, <4>1, <5>1
      <4>2. CASE k # n + 1
        <5>1. k \in 1 .. n
          BY <2>1, <4>2
        <5>2. PICK i \in DOMAIN out : pos[i] = k
          BY <2>3, <3>6, <5>1 DEF Ranked, out
        <5>3. i \in 1 .. Len(out) /\ i \in 1 .. last
          BY <3>1
        <5> QED BY <3>3, <5>2, <5>3
      <4> QED BY <4>1, <4>2
    <3>7. Ranked(more, s, keep, n + 1, far)
      BY <3>2, <3>4, <3>5, <3>6 DEF Ranked
    <3>8. f[n + 1] = more
      BY <2>2, <2>5 DEF more, out
    <3> HIDE DEF Ranked
    <3> QED BY <3>2, <3>7, <3>8
  <2> QED BY <2>4, <2>5
<1>4. U = Nat
  <2> HIDE DEF U
  <2>1. U \in SUBSET Nat
    BY DEF U
  <2> QED BY <1>2, <1>3, <2>1, NatInd
<1>5. Good(Len(s))
  BY <1>4
<1> QED BY <1>1, <1>5

(* A section of the numbers.                                               *)
LEMMA CountUp ==
  ASSUME NEW n \in Nat
  PROVE  IsFiniteSet(1 .. n) /\ Cardinality(1 .. n) = n
<1>1. 1 \in Int /\ n \in Int
  OBVIOUS
<1>2. IsFiniteSet(1 .. n) /\ Cardinality(1 .. n) = IF 1 > n THEN 0 ELSE n - 1 + 1
  BY <1>1, FS_Interval
<1>3. (IF 1 > n THEN 0 ELSE n - 1 + 1) = n
  OBVIOUS
<1> QED BY <1>2, <1>3

(* As many as are to be kept.                                              *)
LEMMA KeptCount ==
  ASSUME NEW S, NEW s \in Seq(S), NEW keep \in SUBSET (1 .. Len(s))
  PROVE  Len(Kept(s, keep)) = Cardinality(keep) /\ IsFiniteSet(keep)
<1> DEFINE out == Kept(s, keep)
           n == Len(out)
<1>1. out \in Seq(S) /\ n \in Nat /\ DOMAIN out = 1 .. n
  <2>1. out \in Seq(S)
    BY KeptList
  <2> HIDE DEF out
  <2> QED BY <2>1
<1>2. PICK pos : Ranked(out, s, keep, Len(s), pos)
  BY KeptRanked
<1> HIDE DEF out, n
<1> DEFINE at == [i \in 1 .. n |-> pos[i]]
<1>3. /\ \A i \in 1 .. n : at[i] \in keep
      /\ \A i, j \in 1 .. n : i < j => at[i] # at[j]
      /\ \A k \in keep : \E i \in 1 .. n : at[i] = k
  <2>1. \A i \in 1 .. n : at[i] = pos[i] /\ pos[i] \in 1 .. Len(s) /\ pos[i] \in keep
    BY <1>1, <1>2 DEF Ranked
  <2>2. \A i, j \in 1 .. n : i < j => pos[i] < pos[j]
    BY <1>1, <1>2 DEF Ranked
  <2>3. \A k \in keep : \E i \in 1 .. n : pos[i] = k
    BY <1>1, <1>2 DEF Ranked
  <2> QED BY <2>1, <2>2, <2>3
<1>4. at \in [1 .. n -> keep]
  BY <1>3
<1> HIDE DEF at
<1>5. \A i, j \in 1 .. n : at[i] = at[j] => i = j
  <2> SUFFICES ASSUME NEW i \in 1 .. n, NEW j \in 1 .. n, at[i] = at[j] PROVE i = j
    OBVIOUS
  <2>1. ~(i < j) /\ ~(j < i)
    BY <1>3
  <2> QED BY <1>1, <2>1
<1>6. at \in Bijection(1 .. n, keep)
  BY <1>3, <1>4, <1>5 DEF Bijection, Injection, Surjection, IsInjective
<1>7. IsFiniteSet(1 .. n) /\ Cardinality(1 .. n) = n
  BY <1>1, CountUp
<1> QED BY <1>6, <1>7, FS_Bijection DEF ExistsBijection, n, out

(* What is made of finitely many things, one each, is finite.              *)
LEMMA MadeFinite ==
  ASSUME NEW S, IsFiniteSet(S), NEW f, DOMAIN f = S
  PROVE  IsFiniteSet({f[x] : x \in S})
<1> DEFINE T == {f[x] : x \in S}
           g == [x \in S |-> f[x]]
<1>1. g \in [S -> T] /\ \A t \in T : \E x \in S : g[x] = t
  OBVIOUS
<1>2. g \in Surjection(S, T)
  BY <1>1 DEF Surjection
<1> HIDE DEF g, T
<1>3. IsFiniteSet(T)
  BY <1>2, FS_Surjection
<1> QED BY <1>3 DEF T

-----------------------------------------------------------------------------
(***************************************************************************)
(* The board: every row is the reading of one issue.                       *)
(***************************************************************************)
Reading(r, iss, ps) == \E m \in DOMAIN iss : r = projectTask(iss[m], m, ps)

LEMMA BoardReads ==
  ASSUME NEW iss \in Seq(IssueRow), NEW ps
  PROVE  /\ DOMAIN buildProjection(iss, ps) = 1 .. Len(iss)
         /\ \A k \in 1 .. Len(iss) : Reading(buildProjection(iss, ps)[k], iss, ps)
<1> DEFINE n == Len(iss)
           all == [k \in 1 .. n |-> k]
           Of(talk) == {k \in 1 .. n : isNonTask(iss[k]) = talk}
           tasks == Kept(all, Of(FALSE))
           talks == Kept(all, Of(TRUE))
           order == tasks \o talks
<1>1. n \in Nat /\ DOMAIN iss = 1 .. n
  OBVIOUS
<1>2. buildProjection(iss, ps) = [k \in 1 .. n |-> projectTask(iss[order[k]], order[k], ps)]
  BY DEF buildProjection
<1> HIDE DEF n
<1>3. all \in Seq(1 .. n) /\ Len(all) = n
  BY <1>1
<1>4. Of(FALSE) \in SUBSET (1 .. Len(all)) /\ Of(TRUE) \in SUBSET (1 .. Len(all))
  BY <1>3
<1>5. Of(FALSE) \cup Of(TRUE) = 1 .. n /\ Of(FALSE) \cap Of(TRUE) = {}
  <2>1. \A k \in 1 .. n : isNonTask(iss[k]) \in BOOLEAN
    BY DEF isNonTask
  <2> QED BY <2>1
<1> HIDE DEF all, Of
<1>6. tasks \in Seq(1 .. n) /\ talks \in Seq(1 .. n)
  BY <1>3, KeptList
<1>7. /\ Len(tasks) = Cardinality(Of(FALSE)) /\ IsFiniteSet(Of(FALSE))
      /\ Len(talks) = Cardinality(Of(TRUE)) /\ IsFiniteSet(Of(TRUE))
  BY <1>3, <1>4, KeptCount
<1> HIDE DEF tasks, talks
<1>8. Len(tasks) + Len(talks) = n
  <2>1. Cardinality(Of(FALSE) \cup Of(TRUE)) =
          Cardinality(Of(FALSE)) + Cardinality(Of(TRUE)) - Cardinality(Of(FALSE) \cap Of(TRUE))
    BY <1>7, FS_Union
  <2>2. Cardinality(Of(FALSE) \cap Of(TRUE)) = 0 /\ Cardinality(1 .. n) = n
    BY <1>1, <1>5, FS_EmptySet, CountUp
  <2>3. Len(tasks) \in Nat /\ Len(talks) \in Nat
    BY <1>6
  <2>4. n = Len(tasks) + Len(talks) - 0
    BY <1>5, <1>7, <2>1, <2>2, Zenon
  <2> QED BY <2>3, <2>4
<1>9. order \in Seq(1 .. n) /\ Len(order) = n
  BY <1>6, <1>8
<1> HIDE DEF order
<1>10. \A k \in 1 .. n : order[k] \in 1 .. n
  BY <1>1, <1>9
<1>11. ASSUME NEW k \in 1 .. n PROVE Reading(buildProjection(iss, ps)[k], iss, ps)
  <2>1. buildProjection(iss, ps)[k] = projectTask(iss[order[k]], order[k], ps)
    BY <1>2
  <2> QED BY <1>1, <1>10, <2>1 DEF Reading
<1> QED BY <1>2, <1>11 DEF n

-----------------------------------------------------------------------------
(***************************************************************************)
(* The inductive invariant.  Groups stay with their issues, whatever       *)
(* becomes of labels: a row of the board, however old, a task planned and  *)
(* an entry of the manifest name an issue with the group it has.           *)
(***************************************************************************)
Issued == issues \in Seq(IssueRow) /\ DOMAIN prs \subseteq PR

Stated == facts.target \in Nat /\ facts.slots \in Nat /\ IsList(facts.pool)

Told(r, iss) == r.issue \in DOMAIN iss /\ r.conflictGroup = iss[r.issue].group

Fields == {"issue", "state", "conflictGroup", "linkedPR"}

Pictured ==
  /\ Len(board) \in Nat /\ DOMAIN board = 1 .. Len(board)
  /\ \A i \in DOMAIN board : DOMAIN board[i] = Fields /\ Told(board[i], issues)

Chosen ==
  plan # NoPlan /\ plan.tool = "top-up" =>
    IsFiniteSet(plan.selected) /\ \A s \in plan.selected : Told(s, issues)

Worker == [issue : Nat, status : {"running", "completed"}, conflictGroup : Group]

OnFile == IsFiniteSet(manifest) /\ \A w \in manifest : w \in Worker /\ Told(w, issues)

PlanningInv == Issued /\ Stated /\ Pictured /\ Chosen /\ OnFile

(* What a row tells is in the invariant; its group is a group.             *)
LEMMA GroupKnown ==
  ASSUME Issued, NEW r, Told(r, issues)
  PROVE  r.conflictGroup \in Group /\ r.issue \in Nat
<1>1. r.issue \in DOMAIN issues /\ DOMAIN issues = 1 .. Len(issues) /\ Len(issues) \in Nat
  BY DEF Issued, Told
<1>2. issues[r.issue] \in IssueRow
  BY <1>1 DEF Issued
<1>3. issues[r.issue].group \in Group
  BY <1>2 DEF IssueRow
<1> QED BY <1>1, <1>3 DEF Told

LEMMA GroupRead ==
  ASSUME PlanningInv, NEW i \in DOMAIN board
  PROVE  /\ GroupOf(board[i]) = board[i].conflictGroup
         /\ board[i].conflictGroup \in Group /\ ~HighRisk(board[i])
<1>1. DOMAIN board[i] = Fields /\ Told(board[i], issues)
  BY DEF PlanningInv, Pictured
<1>2. board[i].conflictGroup \in Group
  BY <1>1, GroupKnown DEF PlanningInv
<1>3. board[i].conflictGroup # NoGroup
  BY <1>2, GeneralAssumption
<1>4. "conflictGroup" \in DOMAIN board[i] /\ "risk" \notin DOMAIN board[i]
  BY <1>1 DEF Fields
<1>5. GroupOf(board[i]) = board[i].conflictGroup
  BY <1>3, <1>4 DEF GroupOf, Has
<1>6. ~HighRisk(board[i])
  BY <1>4 DEF HighRisk, Has
<1> QED BY <1>2, <1>5, <1>6

LEMMA InitPlanning == Init => PlanningInv
<1> SUFFICES ASSUME Init PROVE PlanningInv
  OBVIOUS
<1>1. PICK world \in World : issues = world.issues /\ facts = world.facts
  BY DEF Init
<1>2. prs = << >> /\ manifest = {} /\ board = << >> /\ plan = NoPlan
  BY DEF Init
<1>3. Issued
  BY <1>1, <1>2, WorldAssumption DEF Issued
<1>4. Stated
  BY <1>1, WorldAssumption DEF Stated
<1>5. Pictured
  BY <1>2 DEF Pictured
<1>6. Chosen
  BY <1>2 DEF Chosen
<1>7. OnFile
  BY <1>2, FS_EmptySet DEF OnFile
<1> QED BY <1>3, <1>4, <1>5, <1>6, <1>7 DEF PlanningInv

(* A fresh picture.                                                        *)
LEMMA ProjectBoardKeeps == ASSUME PlanningInv, ProjectBoard PROVE PlanningInv'
<1>1. /\ board' = buildProjection(issues, prs)
      /\ UNCHANGED <<issues, prs, manifest, alive, plan, facts>>
  BY DEF ProjectBoard
<1>2. /\ DOMAIN board' = 1 .. Len(issues) /\ Len(issues) \in Nat
      /\ \A k \in 1 .. Len(issues) : Reading(board'[k], issues, prs)
  <2>1. issues \in Seq(IssueRow)
    BY DEF PlanningInv, Issued
  <2> QED BY <1>1, <2>1, BoardReads
<1>3. ASSUME NEW k \in 1 .. Len(issues)
      PROVE  DOMAIN board'[k] = Fields /\ Told(board'[k], issues)
  <2>1. PICK m \in DOMAIN issues : board'[k] = projectTask(issues[m], m, prs)
    BY <1>2 DEF Reading
  <2>2. /\ DOMAIN projectTask(issues[m], m, prs) = Fields
        /\ projectTask(issues[m], m, prs).issue = m
        /\ projectTask(issues[m], m, prs).conflictGroup = issues[m].group
    BY DEF projectTask, Fields
  <2> QED BY <2>1, <2>2 DEF Told
<1>4. Len(board') = Len(issues)
  <2>1. board' = [k \in 1 .. Len(issues) |-> board'[k]]
    BY <1>1, <1>2 DEF buildProjection
  <2> QED BY <1>2, <2>1
<1>5. Pictured'
  BY <1>1, <1>2, <1>3, <1>4 DEF Pictured
<1> QED BY <1>1, <1>5 DEF PlanningInv, Issued, Stated, Chosen, OnFile

(* New labels leave the groups alone.                                      *)
LEMMA RelabelKeeps ==
  ASSUME PlanningInv, NEW n, NEW labels \in Labels, Relabel(n, labels)
  PROVE  PlanningInv'
<1>1. /\ issues' = [issues EXCEPT ![n].labels = labels]
      /\ UNCHANGED <<prs, manifest, alive, board, plan, facts>>
  BY DEF Relabel
<1>2. issues \in Seq(IssueRow) /\ labels \in SUBSET STRING
  BY WorldAssumption DEF PlanningInv, Issued
<1>3. /\ issues' \in Seq(IssueRow) /\ DOMAIN issues' = DOMAIN issues
      /\ \A m \in DOMAIN issues : issues'[m].group = issues[m].group
  <2>1. ASSUME NEW m \in DOMAIN issues
        PROVE  issues'[m] \in IssueRow /\ issues'[m].group = issues[m].group
    <3>1. issues[m] \in IssueRow
      BY <1>2
    <3>2. issues'[m] = IF m = n THEN [issues[m] EXCEPT !.labels = labels] ELSE issues[m]
      BY <1>1
    <3>3. [issues[m] EXCEPT !.labels = labels] \in IssueRow
      BY <1>2, <3>1 DEF IssueRow
    <3>4. [issues[m] EXCEPT !.labels = labels].group = issues[m].group
      BY <3>1 DEF IssueRow
    <3> QED BY <3>1, <3>2, <3>3, <3>4
  <2>2. DOMAIN issues' = 1 .. Len(issues) /\ DOMAIN issues = 1 .. Len(issues) /\ Len(issues) \in Nat
    BY <1>1, <1>2
  <2>3. issues' = [m \in 1 .. Len(issues) |-> issues'[m]]
    BY <1>1, <2>2
  <2>4. issues' \in [1 .. Len(issues) -> IssueRow]
    BY <2>1, <2>2, <2>3
  <2> QED BY <2>1, <2>2, <2>4
<1>4. \A r : Told(r, issues) => Told(r, issues')
  BY <1>3 DEF Told
<1> QED BY <1>1, <1>3, <1>4 DEF PlanningInv, Issued, Stated, Pictured, Chosen, OnFile

(* An entry of the manifest, and the same one with another status.         *)
LEMMA AWorker ==
  ASSUME NEW n \in Nat, NEW status \in {"running", "completed"}, NEW other \in {"running", "completed"},
         NEW group \in Group
  PROVE  LET w == [issue |-> n, status |-> status, conflictGroup |-> group]
         IN  w \in Worker /\ [w EXCEPT !.status = other] = [issue |-> n, status |-> other, conflictGroup |-> group]
<1> DEFINE w == [issue |-> n, status |-> status, conflictGroup |-> group]
<1>1. w \in Worker
  BY DEF Worker
<1>2. [w EXCEPT !.status = other] = [issue |-> n, status |-> other, conflictGroup |-> group]
  OBVIOUS
<1> QED BY <1>1, <1>2

(* A launch puts what was planned on file.                                 *)
LEMMA LaunchKeeps == ASSUME PlanningInv, Launch PROVE PlanningInv'
<1> DEFINE entry(r) == [issue |-> r.issue, status |-> "running", conflictGroup |-> r.conflictGroup]
<1>1. /\ plan # NoPlan /\ plan.tool = "top-up"
      /\ manifest' = {entry(r) : r \in plan.selected} /\ plan' = NoPlan
      /\ UNCHANGED <<issues, prs, board, facts>>
  BY DEF Launch
<1>2. IsFiniteSet(plan.selected) /\ \A r \in plan.selected : Told(r, issues)
  BY <1>1 DEF PlanningInv, Chosen
<1>3. IsFiniteSet(manifest')
  <2> DEFINE f == [r \in plan.selected |-> entry(r)]
  <2>1. IsFiniteSet({f[r] : r \in plan.selected})
    BY <1>2, MadeFinite
  <2>2. {f[r] : r \in plan.selected} = {entry(r) : r \in plan.selected}
    OBVIOUS
  <2> QED BY <1>1, <2>1, <2>2
<1>4. ASSUME NEW r \in plan.selected PROVE entry(r) \in Worker /\ Told(entry(r), issues)
  <2>1. r.conflictGroup \in Group /\ r.issue \in Nat
    BY <1>2, GroupKnown DEF PlanningInv
  <2>2. entry(r) \in Worker
    <3>1. "running" \in {"running", "completed"}
      OBVIOUS
    <3> QED BY <2>1, <3>1, AWorker
  <2>3. entry(r).issue = r.issue /\ entry(r).conflictGroup = r.conflictGroup
    OBVIOUS
  <2> QED BY <1>2, <2>2, <2>3 DEF Told
<1>5. OnFile'
  BY <1>1, <1>3, <1>4 DEF OnFile
<1> QED BY <1>1, <1>5 DEF PlanningInv, Issued, Stated, Pictured, Chosen

LEMMA FinishKeeps == ASSUME PlanningInv, NEW n, Finish(n) PROVE PlanningInv'
<1> DEFINE ended(w) == IF w.issue = n THEN [w EXCEPT !.status = "completed"] ELSE w
<1>1. /\ manifest' = {ended(w) : w \in manifest} /\ UNCHANGED <<issues, board, plan, facts>>
      /\ DOMAIN prs' \subseteq DOMAIN prs \cup PR
  BY DEF Finish
<1>2. IsFiniteSet(manifest')
  <2>1. IsFiniteSet(manifest)
    BY DEF PlanningInv, OnFile
  <2> DEFINE f == [w \in manifest |-> ended(w)]
  <2>2. IsFiniteSet({f[w] : w \in manifest})
    <3>1. DOMAIN f = manifest
      OBVIOUS
    <3> HIDE DEF f
    <3> QED BY <2>1, <3>1, MadeFinite
  <2>3. {f[w] : w \in manifest} = {ended(w) : w \in manifest}
    OBVIOUS
  <2> QED BY <1>1, <2>2, <2>3
<1>3. ASSUME NEW w \in manifest PROVE ended(w) \in Worker /\ Told(ended(w), issues)
  <2>1. w \in Worker /\ Told(w, issues)
    BY DEF PlanningInv, OnFile
  <2>2. [w EXCEPT !.status = "completed"] \in Worker
    <3>1. w.issue \in Nat /\ w.conflictGroup \in Group
      BY <2>1 DEF Worker
    <3>2. w = [issue |-> w.issue, status |-> w.status, conflictGroup |-> w.conflictGroup]
      BY <2>1 DEF Worker
    <3>3. [w EXCEPT !.status = "completed"] =
            [issue |-> w.issue, status |-> "completed", conflictGroup |-> w.conflictGroup]
      <4>1. w.status \in {"running", "completed"}
        BY <2>1 DEF Worker
      <4> QED BY <3>1, <3>2, <4>1, AWorker
    <3> QED BY <3>1, <3>3 DEF Worker
  <2>3. /\ [w EXCEPT !.status = "completed"].issue = w.issue
        /\ [w EXCEPT !.status = "completed"].conflictGroup = w.conflictGroup
    BY <2>1 DEF Worker
  <2> QED BY <2>1, <2>2, <2>3 DEF Told
<1>4. OnFile'
  BY <1>1, <1>2, <1>3 DEF OnFile
<1> QED BY <1>1, <1>4 DEF PlanningInv, Issued, Stated, Pictured, Chosen

(* A top-up names rows of the board.                                       *)
LEMMA TopUpKeeps == ASSUME PlanningInv, TopUp PROVE PlanningInv'
<1> DEFINE chosen == computeTopUpPlan(board, manifest, facts.locks, facts.pool,
                                      facts.signals, facts.main, facts.target).selected
           row(i) == [issue |-> board[i].issue, conflictGroup |-> GroupOf(board[i])]
<1>1. /\ plan' = [tool |-> "top-up", selected |-> {row(i) : i \in chosen}]
      /\ UNCHANGED <<issues, prs, manifest, board, facts>>
  BY DEF TopUp
<1>2. chosen \subseteq DOMAIN board
  BY DEF computeTopUpPlan, Slice, deduplicateByConflictGroup, selectEligibleTasks
<1>3. IsFiniteSet(chosen)
  <2>1. IsFiniteSet(DOMAIN board)
    BY CountUp DEF PlanningInv, Pictured
  <2> HIDE DEF chosen
  <2> QED BY <1>2, <2>1, FS_Subset
<1> HIDE DEF chosen
<1>4. IsFiniteSet({row(i) : i \in chosen})
  <2> DEFINE f == [i \in chosen |-> row(i)]
  <2>1. IsFiniteSet({f[i] : i \in chosen})
    BY <1>3, MadeFinite
  <2>2. {f[i] : i \in chosen} = {row(i) : i \in chosen}
    OBVIOUS
  <2> QED BY <2>1, <2>2
<1>5. ASSUME NEW i \in chosen PROVE Told(row(i), issues)
  <2>1. Told(board[i], issues) /\ GroupOf(board[i]) = board[i].conflictGroup
    BY <1>2, GroupRead DEF PlanningInv, Pictured
  <2> QED BY <2>1 DEF Told
<1>6. Chosen'
  BY <1>1, <1>4, <1>5 DEF Chosen
<1> QED BY <1>1, <1>6 DEF PlanningInv, Issued, Stated, Pictured, OnFile

LEMMA BackfillKeeps == ASSUME PlanningInv, Backfill PROVE PlanningInv'
<1>1. plan'.tool = "backfill" /\ UNCHANGED <<issues, prs, manifest, board, facts>>
  BY DEF Backfill
<1>2. Chosen'
  BY <1>1 DEF Chosen
<1> QED BY <1>1, <1>2 DEF PlanningInv, Issued, Stated, Pictured, OnFile

LEMMA ClosePRKeeps == ASSUME PlanningInv, NEW pr, ClosePR(pr) PROVE PlanningInv'
<1>1. DOMAIN prs' \subseteq DOMAIN prs /\ UNCHANGED <<issues, manifest, board, plan, facts>>
  BY DEF ClosePR
<1> QED BY <1>1 DEF PlanningInv, Issued, Stated, Pictured, Chosen, OnFile

LEMMA PlanningSafe == Spec => []PlanningInv
<1>1. PlanningInv /\ [Next]_vars => PlanningInv'
  <2> SUFFICES ASSUME PlanningInv, [Next]_vars PROVE PlanningInv'
    OBVIOUS
  <2>1. CASE ProjectBoard
    BY <2>1, ProjectBoardKeeps
  <2>2. CASE TopUp
    BY <2>2, TopUpKeeps
  <2>3. CASE Backfill
    BY <2>3, BackfillKeeps
  <2>4. CASE Launch
    BY <2>4, LaunchKeeps
  <2>5. ASSUME NEW n \in Issue, Finish(n) PROVE PlanningInv'
    BY <2>5, FinishKeeps
  <2>6. ASSUME NEW n \in Issue, NEW labels \in Labels, Relabel(n, labels) PROVE PlanningInv'
    BY <2>6, RelabelKeeps
  <2>7. ASSUME NEW pr \in PR, ClosePR(pr) PROVE PlanningInv'
    BY <2>7, ClosePRKeeps
  <2>8. CASE UNCHANGED vars
    BY <2>8 DEF vars, PlanningInv, Issued, Stated, Pictured, Chosen, OnFile
  <2> QED BY <2>1, <2>2, <2>3, <2>4, <2>5, <2>6, <2>7, <2>8 DEF Next
<1> QED BY <1>1, InitPlanning, PTL DEF Spec

-----------------------------------------------------------------------------
(***************************************************************************)
(* The cut to size takes as many as there is room for, and leaves nothing  *)
(* out while there is room.                                                *)
(***************************************************************************)
LEMMA Sliced ==
  ASSUME NEW N \in Nat, NEW S \in SUBSET (1 .. N), NEW n \in Nat
  PROVE  /\ IsFiniteSet(Slice(S, n)) /\ Cardinality(Slice(S, n)) \in Nat
         /\ Cardinality(Slice(S, n)) <= n
         /\ Cardinality(Slice(S, n)) < n => Slice(S, n) = S
<1> DEFINE before(i) == {j \in S : j < i}
           rk == [i \in S |-> Cardinality(before(i))]
           cut == Slice(S, n)
<1>0. \A i \in S : i \in Nat
  OBVIOUS
<1>1. IsFiniteSet(S)
  BY CountUp, FS_Subset
<1>2. ASSUME NEW i \in S PROVE IsFiniteSet(before(i)) /\ rk[i] = Cardinality(before(i)) /\ rk[i] \in Nat
  <2>1. before(i) \in SUBSET S
    OBVIOUS
  <2>2. IsFiniteSet(before(i))
    BY <1>1, <2>1, FS_Subset
  <2> QED BY <2>2, FS_CardinalityType
<1>3. cut = {i \in S : rk[i] < n}
  BY DEF Slice
<1> HIDE DEF rk, cut
<1>4. ASSUME NEW i \in S, NEW j \in S, i < j PROVE rk[i] < rk[j]
  <2>1. i \notin before(i) /\ before(i) \cup {i} \in SUBSET before(j)
    <3>1. i \in Nat /\ j \in Nat /\ \A k \in S : k \in Nat
      BY <1>0
    <3>2. \A k \in before(i) : k \in before(j)
      BY <1>4, <3>1
    <3>3. i \in before(j) /\ i \notin before(i)
      BY <1>4, <3>1
    <3> HIDE DEF before
    <3> QED BY <3>2, <3>3
  <2>2. IsFiniteSet(before(i)) /\ IsFiniteSet(before(j))
    BY <1>2
  <2> HIDE DEF before
  <2>3. Cardinality(before(i) \cup {i}) = Cardinality(before(i)) + 1
    BY <2>1, <2>2, FS_AddElement
  <2>4. Cardinality(before(i) \cup {i}) <= Cardinality(before(j))
    BY <2>1, <2>2, FS_Subset
  <2>5. Cardinality(before(i)) = rk[i] /\ Cardinality(before(j)) = rk[j] /\ rk[i] \in Nat /\ rk[j] \in Nat
    BY <1>2
  <2>6. rk[i] + 1 <= rk[j]
    BY <2>3, <2>4, <2>5
  <2> QED BY <2>5, <2>6
<1>5. IsFiniteSet(cut) /\ cut \in SUBSET S
  <2>1. cut \in SUBSET S
    BY <1>3
  <2> QED BY <1>1, <2>1, FS_Subset
<1>6. Cardinality(cut) <= n
  <2> DEFINE f == [i \in cut |-> rk[i] + 1]
  <2>1. f \in [cut -> 1 .. n]
    <3>1. ASSUME NEW i \in cut PROVE rk[i] + 1 \in 1 .. n
      <4>1. i \in S /\ rk[i] < n
        BY <1>3
      <4>2. rk[i] \in Nat
        BY <1>2, <4>1
      <4> QED BY <4>1, <4>2
    <3> QED BY <3>1
  <2>2. ASSUME NEW i \in cut, NEW j \in cut, f[i] = f[j] PROVE i = j
    <3>1. i \in S /\ j \in S
      BY <1>5
    <3>2. rk[i] \in Nat /\ rk[j] \in Nat
      BY <1>2, <3>1
    <3>3. rk[i] = rk[j]
      BY <2>2, <3>2
    <3>4. ~(i < j) /\ ~(j < i)
      BY <1>4, <3>1, <3>2, <3>3
    <3> QED BY <1>0, <3>1, <3>4
  <2> HIDE DEF f
  <2>3. f \in Injection(cut, 1 .. n)
    BY <2>1, <2>2 DEF Injection, IsInjective
  <2>4. Cardinality(cut) <= Cardinality(1 .. n) /\ Cardinality(1 .. n) = n
    BY <2>3, CountUp, FS_Injection
  <2> QED BY <2>4
<1>7. ASSUME cut # S PROVE n <= Cardinality(cut)
  <2>1. S \ cut # {} /\ S \ cut \in SUBSET Nat
    BY <1>0, <1>5, <1>7
  <2>2. PICK m \in S \ cut : \A y \in S \ cut : m <= y
    BY <2>1, NatLeast
  <2>3. before(m) \in SUBSET cut
    <3>1. ASSUME NEW k \in before(m) PROVE k \in cut
      <4>1. k \in S /\ k < m /\ k \in Nat /\ m \in Nat
        BY <1>0, <2>2
      <4>2. ~(m <= k)
        BY <4>1
      <4> QED BY <2>2, <4>1, <4>2
    <3> QED BY <3>1
  <2>4. Cardinality(before(m)) <= Cardinality(cut)
    BY <1>5, <2>3, FS_Subset
  <2>5. ~(rk[m] < n) /\ rk[m] \in Nat /\ rk[m] = Cardinality(before(m))
    BY <1>2, <1>3, <2>2
  <2>6. Cardinality(cut) \in Nat
    BY <1>5, FS_CardinalityType
  <2> DEFINE a == Cardinality(before(m))
             b == Cardinality(cut)
  <2>7. a <= b /\ ~(a < n) /\ a \in Nat /\ b \in Nat
    BY <2>4, <2>5, <2>6
  <2> HIDE DEF a, b
  <2>8. n <= b
    BY <2>7
  <2> QED BY <2>8 DEF b
<1>8. Cardinality(cut) \in Nat
  BY <1>5, FS_CardinalityType
<1>9. Cardinality(cut) < n => cut = S
  BY <1>7, <1>8
<1> QED BY <1>5, <1>6, <1>8, <1>9 DEF cut

(* Of every group there is an eligible task of, one is kept.               *)
LEMMA GroupKept ==
  ASSUME NEW b, DOMAIN b \subseteq Nat, NEW S \in SUBSET DOMAIN b, NEW i \in S
  PROVE  \E j \in deduplicateByConflictGroup(b, S) : GroupOf(b[j]) = GroupOf(b[i])
<1> DEFINE same == {j \in S : GroupOf(b[j]) = GroupOf(b[i])}
<1>1. same \in SUBSET Nat /\ same # {}
  OBVIOUS
<1>2. PICK j \in same : \A k \in same : j <= k
  BY <1>1, NatLeast
<1>3. \A k \in S : k < j => GroupOf(b[k]) # GroupOf(b[j])
  <2> SUFFICES ASSUME NEW k \in S, k < j, GroupOf(b[k]) = GroupOf(b[j]) PROVE FALSE
    OBVIOUS
  <2>1. k \in same
    OBVIOUS
  <2>2. j <= k /\ j \in Nat /\ k \in Nat
    BY <1>1, <1>2, <2>1
  <2> QED BY <2>2
<1> QED BY <1>2, <1>3 DEF deduplicateByConflictGroup

(* A batch is of some size.                                                *)
LEMMA BatchNat ==
  ASSUME NEW signals, NEW pool, NEW locks
  PROVE  TopUpBatch(signals, pool, locks) \in Nat
<1>1. topUpBatchSize \in Nat /\ reducedBatchSize \in Nat
  BY DefaultsAssumption
<1>2. AtMost(reducedBatchSize, topUpBatchSize) \in Nat
  BY <1>1 DEF AtMost
<1>3. CASE \/ CapacityBelow(pool, providerCapacityThreshold)
           \/ Cardinality(Held(locks)) > heldLocksThreshold
           \/ extractRiskLevel(signals) = "medium"
  BY <1>2, <1>3 DEF TopUpBatch
<1>4. CASE ~(\/ CapacityBelow(pool, providerCapacityThreshold)
             \/ Cardinality(Held(locks)) > heldLocksThreshold
             \/ extractRiskLevel(signals) = "medium")
  BY <1>1, <1>4 DEF TopUpBatch
<1> QED BY <1>3, <1>4

(* Only a top-up writes a top-up's plan.                                   *)
LEMMA OnlyTopUp == ASSUME [Next]_vars, ToppedUp PROVE TopUp
<1>1. plan' # plan /\ plan' # NoPlan /\ plan'.tool = "top-up"
  BY DEF ToppedUp, Wrote
<1>2. ~Backfill
  BY <1>1 DEF Backfill
<1> QED BY <1>1, <1>2 DEF Next, vars, ProjectBoard, Launch, Finish, ClosePR, Relabel

(* What a top-up that selects something selects from, and how much of it.  *)
Eligible == selectEligibleTasks(board, extractActiveConflictGroups(manifest),
                                extractLockedGroups(facts.locks))
OnePerGroup == deduplicateByConflictGroup(board, Eligible)
Room == AtMost(TopUpBatch(facts.signals, facts.pool, facts.locks),
               facts.target - countActiveWorkers(manifest))
Row(i) == [issue |-> board[i].issue, conflictGroup |-> GroupOf(board[i])]

LEMMA TopUpSelects ==
  ASSUME PlanningInv, [Next]_vars, ToppedUp
  PROVE  /\ Room \in Nat /\ countActiveWorkers(manifest) \in Nat
         /\ plan'.selected = {Row(i) : i \in Slice(OnePerGroup, Room)}
<1> DEFINE workers == countActiveWorkers(manifest)
           batch == TopUpBatch(facts.signals, facts.pool, facts.locks)
           deficit == AtLeast(0, facts.target - workers)
           blocked == TopUpBlocked(facts.main, facts.signals, facts.pool)
           room == IF blocked THEN 0 ELSE AtMost(batch, deficit)
<1>1. TopUp /\ plan'.selected # {}
  BY OnlyTopUp DEF ToppedUp
<1>2. computeTopUpPlan(board, manifest, facts.locks, facts.pool, facts.signals,
                       facts.main, facts.target).selected = Slice(OnePerGroup, room)
  BY DEF computeTopUpPlan, OnePerGroup, Eligible
<1>3. plan'.selected = {Row(i) : i \in Slice(OnePerGroup, room)}
  BY <1>1, <1>2 DEF TopUp, Row
<1>4. workers \in Nat
  <2>1. Active(manifest) \in SUBSET manifest /\ IsFiniteSet(manifest)
    BY DEF PlanningInv, OnFile, Active
  <2>2. IsFiniteSet(Active(manifest))
    BY <2>1, FS_Subset
  <2> QED BY <2>2, FS_CardinalityType DEF countActiveWorkers
<1>5. batch \in Nat
  BY BatchNat
<1>6. facts.target \in Nat
  BY DEF PlanningInv, Stated
<1>7. OnePerGroup \in SUBSET (1 .. Len(board)) /\ Len(board) \in Nat
  BY DEF PlanningInv, Pictured, OnePerGroup, Eligible, deduplicateByConflictGroup, selectEligibleTasks
<1> HIDE DEF workers, batch, blocked
<1>8. deficit \in Nat /\ (deficit # 0 => deficit = facts.target - workers)
  BY <1>4, <1>6 DEF AtLeast
<1> HIDE DEF deficit
<1>9. AtMost(batch, deficit) \in Nat /\ (deficit = 0 => AtMost(batch, deficit) = 0)
  BY <1>5, <1>8 DEF AtMost
<1>10. room \in Nat
  BY <1>9
<1>11. room # 0
  <2> HIDE DEF room
  <2>1. Slice(OnePerGroup, room) # {}
    BY <1>1, <1>3
  <2>2. IsFiniteSet(Slice(OnePerGroup, room)) /\ Cardinality(Slice(OnePerGroup, room)) <= room
    BY <1>7, <1>10, Sliced
  <2>3. Cardinality(Slice(OnePerGroup, room)) # 0 /\ Cardinality(Slice(OnePerGroup, room)) \in Nat
    BY <2>1, <2>2, FS_EmptySet, FS_CardinalityType
  <2> QED BY <1>10, <2>2, <2>3
<1>12. room = AtMost(batch, deficit) /\ deficit # 0
  BY <1>9, <1>11
<1>13. room = Room
  BY <1>8, <1>12 DEF Room, batch, workers
<1> QED BY <1>3, <1>4, <1>10, <1>13 DEF workers

(***************************************************************************)
(* Whatever picture it plans from, a top-up selects no task of a group     *)
(* that a worker or lock on file has, and no two of one group.             *)
(***************************************************************************)
THEOREM TopUpStaysApart == Spec => TopUpApart
<1> DEFINE OfTheirOwn ==
      /\ \A s \in plan'.selected : s.conflictGroup \notin
           extractActiveConflictGroups(manifest) \cup extractLockedGroups(facts.locks)
      /\ \A s, t \in plan'.selected : s # t => s.conflictGroup # t.conflictGroup
<1>1. ASSUME PlanningInv, [Next]_vars, ToppedUp PROVE OfTheirOwn
  <2> DEFINE chosen == Slice(OnePerGroup, Room)
  <2>1. plan'.selected = {Row(i) : i \in chosen}
    BY <1>1, TopUpSelects
  <2>2. chosen \subseteq OnePerGroup /\ OnePerGroup \subseteq Eligible /\ Eligible \subseteq DOMAIN board
    BY DEF Slice, OnePerGroup, deduplicateByConflictGroup, Eligible, selectEligibleTasks
  <2>3. \A i \in chosen : i \in Nat
    BY <1>1, <2>2 DEF PlanningInv, Pictured
  <2> HIDE DEF chosen
  <2>4. \A i \in chosen : GroupOf(board[i]) \notin
          extractActiveConflictGroups(manifest) \cup extractLockedGroups(facts.locks)
    BY <2>2 DEF Eligible, selectEligibleTasks
  <2>5. ASSUME NEW i \in chosen, NEW j \in chosen, i # j
        PROVE  GroupOf(board[i]) # GroupOf(board[j])
    <3>1. i < j \/ j < i
      BY <2>3, <2>5
    <3> QED BY <2>2, <3>1 DEF OnePerGroup, deduplicateByConflictGroup
  <2>6. \A i : Row(i).conflictGroup = GroupOf(board[i])
    BY DEF Row
  <2>7. \A s \in plan'.selected : \E i \in chosen : s = Row(i)
    BY <2>1
  <2> QED BY <2>4, <2>5, <2>6, <2>7
<1>2. PlanningInv /\ [Next]_vars => [ToppedUp => OfTheirOwn]_vars
  BY <1>1
<1> QED BY <1>2, PlanningSafe, PTL DEF Spec, TopUpApart

(* Their rows differ as their groups do.                                   *)
LEMMA RowsApart ==
  ASSUME PlanningInv, NEW n
  PROVE  LET cut == Slice(OnePerGroup, n)
         IN  IsFiniteSet(cut) => Cardinality({Row(i) : i \in cut}) = Cardinality(cut)
<1> DEFINE cut == Slice(OnePerGroup, n)
           rows == {Row(i) : i \in cut}
           f == [i \in cut |-> Row(i)]
<1> SUFFICES ASSUME IsFiniteSet(cut) PROVE Cardinality(rows) = Cardinality(cut)
  OBVIOUS
<1>1. cut \subseteq OnePerGroup /\ OnePerGroup \subseteq Eligible /\ Eligible \subseteq DOMAIN board
  BY DEF Slice, OnePerGroup, deduplicateByConflictGroup, Eligible, selectEligibleTasks
<1>2. \A i \in cut : i \in Nat
  BY <1>1 DEF PlanningInv, Pictured
<1> HIDE DEF cut
<1>3. ASSUME NEW i \in cut, NEW j \in cut, Row(i) = Row(j) PROVE i = j
  <2>1. Row(i).conflictGroup = GroupOf(board[i]) /\ Row(j).conflictGroup = GroupOf(board[j])
    BY DEF Row
  <2>2. GroupOf(board[i]) = GroupOf(board[j])
    BY <1>3, <2>1
  <2>3. i \in Eligible /\ j \in Eligible /\ i \in OnePerGroup /\ j \in OnePerGroup
    BY <1>1
  <2>4. ~(i < j) /\ ~(j < i)
    BY <2>2, <2>3 DEF OnePerGroup, deduplicateByConflictGroup
  <2> QED BY <1>2, <2>4
<1>4. f \in [cut -> rows] /\ \A r \in rows : \E i \in cut : f[i] = r
  OBVIOUS
<1>5. \A i \in cut : f[i] = Row(i)
  OBVIOUS
<1> HIDE DEF f, rows
<1>6. \A i, j \in cut : f[i] = f[j] => i = j
  BY <1>3, <1>5
<1>7. f \in Bijection(cut, rows)
  BY <1>4, <1>6 DEF Bijection, Injection, Surjection, IsInjective
<1> QED BY <1>7, FS_Bijection DEF ExistsBijection

(***************************************************************************)
(* A top-up never raises the workers on file above the target, and leaves  *)
(* out no task it has room for, unless the task's group is taken.          *)
(***************************************************************************)
THEOREM TopUpFillsUp == Spec => TopUpFills
<1> DEFINE taken == {s.conflictGroup : s \in plan'.selected} \cup extractLockedGroups(facts.locks)
                      \cup extractActiveConflictGroups(manifest)
           size == Cardinality(plan'.selected)
           deficit == facts.target - countActiveWorkers(manifest)
           full == AtMost(TopUpBatch(facts.signals, facts.pool, facts.locks), deficit)
           Filled ==
             /\ size <= deficit
             /\ size < full =>
                  \A i \in DOMAIN board :
                    board[i].state \in {"ready", "todo"} /\ board[i].linkedPR = NoPR
                    => GroupOf(board[i]) \in taken
<1>1. ASSUME PlanningInv, [Next]_vars, ToppedUp PROVE Filled
  <2> DEFINE cut == Slice(OnePerGroup, Room)
  <2>1. /\ Room \in Nat /\ countActiveWorkers(manifest) \in Nat
        /\ plan'.selected = {Row(i) : i \in cut}
    BY <1>1, TopUpSelects
  <2>2. OnePerGroup \in SUBSET (1 .. Len(board)) /\ Len(board) \in Nat
    BY <1>1 DEF PlanningInv, Pictured, OnePerGroup, Eligible, deduplicateByConflictGroup, selectEligibleTasks
  <2>3. /\ IsFiniteSet(cut) /\ Cardinality(cut) \in Nat /\ Cardinality(cut) <= Room
        /\ Cardinality(cut) < Room => cut = OnePerGroup
    BY <2>1, <2>2, Sliced
  <2>4. size = Cardinality(cut)
    BY <1>1, <2>1, <2>3, RowsApart
  <2>5. Room <= deficit /\ Room = full
    <3>1. facts.target \in Nat
      BY <1>1 DEF PlanningInv, Stated
    <3>2. deficit \in Int
      BY <2>1, <3>1
    <3>3. TopUpBatch(facts.signals, facts.pool, facts.locks) \in Nat
      BY BatchNat
    <3>4. Room = full
      BY DEF Room
    <3> DEFINE batch == TopUpBatch(facts.signals, facts.pool, facts.locks)
    <3> HIDE DEF deficit, batch
    <3>5. AtMost(batch, deficit) <= deficit
      BY <3>2, <3>3 DEF AtMost, batch
    <3> QED BY <3>4, <3>5 DEF batch
  <2>6. size <= deficit
    <3>1. deficit \in Int
      BY <1>1, <2>1 DEF PlanningInv, Stated
    <3> HIDE DEF deficit, cut, full
    <3> QED BY <2>1, <2>3, <2>4, <2>5, <3>1
  <2>7. ASSUME size < full, NEW i \in DOMAIN board,
               board[i].state \in {"ready", "todo"}, board[i].linkedPR = NoPR,
               GroupOf(board[i]) \notin extractActiveConflictGroups(manifest)
                 \cup extractLockedGroups(facts.locks)
        PROVE  GroupOf(board[i]) \in {s.conflictGroup : s \in plan'.selected}
    <3>1. cut = OnePerGroup
      BY <2>3, <2>4, <2>5, <2>7
    <3>2. ~HighRisk(board[i])
      BY <1>1, GroupRead
    <3>3. i \in Eligible
      BY <2>7, <3>2 DEF Eligible, selectEligibleTasks
    <3>4. Eligible \in SUBSET DOMAIN board /\ DOMAIN board \subseteq Nat
      BY <1>1 DEF Eligible, selectEligibleTasks, PlanningInv, Pictured
    <3>5. PICK j \in OnePerGroup : GroupOf(board[j]) = GroupOf(board[i])
      BY <3>3, <3>4, GroupKept DEF OnePerGroup
    <3>6. Row(j) \in plan'.selected /\ Row(j).conflictGroup = GroupOf(board[j])
      BY <2>1, <3>1 DEF Row
    <3> QED BY <3>5, <3>6
  <2> HIDE DEF deficit, full
  <2>8. ASSUME size < full, NEW i \in DOMAIN board,
               board[i].state \in {"ready", "todo"}, board[i].linkedPR = NoPR
        PROVE  GroupOf(board[i]) \in taken
    BY <2>7, <2>8
  <2> HIDE DEF size, taken
  <2> QED BY <2>6, <2>8
<1>2. PlanningInv /\ [Next]_vars => [ToppedUp => Filled]_vars
  BY <1>1
<1> QED BY <1>2, PlanningSafe, PTL DEF Spec, TopUpFills

-----------------------------------------------------------------------------
(***************************************************************************)
(* The label map is tried from the top: an issue that comes out ready or   *)
(* to do has no label of the entries above.                                *)
(***************************************************************************)
Finished == {"agent:done", "agent:merged", "agent:archived", "agent:running", "agent:blocked"}

LEMMA MapStates ==
  /\ DOMAIN STATE_LABEL_MAP = 1 .. 8
  /\ \A k \in 1 .. 8 : STATE_LABEL_MAP[k].state \in {"ready", "todo"} => k = 6 \/ k = 7
  /\ \A k \in 1 .. 8 : STATE_LABEL_MAP[k].state # "open"
  /\ \A label \in Finished : \E k \in 1 .. 5 : STATE_LABEL_MAP[k].label = label
<1> DEFINE M == STATE_LABEL_MAP
<1>1. DOMAIN M = 1 .. 8
  BY DEF STATE_LABEL_MAP
<1>2. /\ M[1].state = "done" /\ M[2].state = "done" /\ M[3].state = "archived"
      /\ M[4].state = "running" /\ M[5].state = "blocked" /\ M[6].state = "ready"
      /\ M[7].state = "todo" /\ M[8].state = "triage"
  BY DEF STATE_LABEL_MAP
<1>3. /\ M[1].label = "agent:done" /\ M[2].label = "agent:merged" /\ M[3].label = "agent:archived"
      /\ M[4].label = "agent:running" /\ M[5].label = "agent:blocked"
  BY DEF STATE_LABEL_MAP
<1> HIDE DEF M
<1>4. \A k \in 1 .. 8 : \/ k = 1 \/ k = 2 \/ k = 3 \/ k = 4 \/ k = 5 \/ k = 6 \/ k = 7 \/ k = 8
  OBVIOUS
<1>5. \A k \in 1 .. 8 : M[k].state \in {"ready", "todo"} => k = 6 \/ k = 7
  BY <1>2, <1>4
<1>6. \A k \in 1 .. 8 : M[k].state # "open"
  BY <1>2, <1>4
<1>7. \A label \in Finished : \E k \in 1 .. 5 : M[k].label = label
  <2>1. 1 \in 1 .. 5 /\ 2 \in 1 .. 5 /\ 3 \in 1 .. 5 /\ 4 \in 1 .. 5 /\ 5 \in 1 .. 5
    OBVIOUS
  <2> QED BY <1>3, <2>1 DEF Finished
<1> QED BY <1>1, <1>5, <1>6, <1>7 DEF M

LEMMA StateTells ==
  ASSUME NEW labels, mapState(labels) \in {"ready", "todo"}
  PROVE  labels \cap Finished = {}
<1> DEFINE M == STATE_LABEL_MAP
           hits == {k \in DOMAIN M : M[k].label \in labels}
           least == CHOOSE k \in hits : \A j \in hits : k <= j
<1>1. mapState(labels) = IF hits = {} THEN "open" ELSE M[least].state
  BY DEF mapState
<1>2. /\ hits \in SUBSET (1 .. 8) /\ hits \in SUBSET Nat
      /\ \A k \in 1 .. 8 : M[k].label \in labels => k \in hits
  BY MapStates
<1>3. hits # {}
  BY <1>1
<1> HIDE DEF hits, M
<1>4. \E k \in hits : \A j \in hits : k <= j
  BY <1>2, <1>3, NatLeast
<1>5. least \in hits /\ \A j \in hits : least <= j
  BY <1>4
<1> HIDE DEF least
<1>6. least = 6 \/ least = 7
  <2>1. M[least].state \in {"ready", "todo"} /\ least \in 1 .. 8
    BY <1>1, <1>2, <1>3, <1>5
  <2> QED BY <2>1, MapStates DEF M
<1> SUFFICES ASSUME NEW label \in labels \cap Finished PROVE FALSE
  OBVIOUS
<1>7. PICK k \in 1 .. 5 : M[k].label = label
  BY MapStates DEF M
<1>8. k \in hits
  BY <1>2, <1>7
<1>9. least <= k
  BY <1>5, <1>8
<1> QED BY <1>6, <1>9

(* An issue whose row is ready or to do and shows no pull request is a     *)
(* launch candidate, but for the labels the board does not look at.        *)
LEMMA RowTells ==
  ASSUME NEW issue \in IssueRow, NEW n, NEW ps, NoPR \notin DOMAIN ps,
         projectTask(issue, n, ps).state \in {"ready", "todo"},
         projectTask(issue, n, ps).linkedPR = NoPR
  PROVE  isCandidate([issue EXCEPT !.labels = @ \ Unwanted], n, ps)
<1> DEFINE wanted == [issue EXCEPT !.labels = @ \ Unwanted]
<1>1. wanted.labels = issue.labels \ Unwanted /\ wanted.talk = issue.talk
  BY DEF IssueRow
<1> HIDE DEF wanted
<1>2. projectTask(issue, n, ps).state =
        IF isNonTask(issue) THEN "discussion/open" ELSE mapState(issue.labels)
  BY DEF projectTask
<1>3. ~isNonTask(issue) /\ mapState(issue.labels) \in {"ready", "todo"}
  BY <1>2
<1>4. issue.labels \cap NON_TASK_LABELS = {} /\ ~issue.talk
  BY <1>3 DEF isNonTask
<1>5. issue.labels \cap Finished = {}
  BY <1>3, StateTells
<1>6. wanted.labels \cap EXCLUDE_LABELS = {}
  BY <1>1, <1>4, <1>5 DEF EXCLUDE_LABELS, Finished, Unwanted
<1>7. Mentions(ps, n) = {}
  <2>1. findLinkedPR(ps, n) = NoPR
    BY <1>3 DEF projectTask
  <2> SUFFICES ASSUME Mentions(ps, n) # {} PROVE FALSE
    OBVIOUS
  <2>2. findLinkedPR(ps, n) \in Mentions(ps, n)
    BY DEF findLinkedPR
  <2>3. Mentions(ps, n) \subseteq DOMAIN ps
    BY DEF Mentions
  <2> QED BY <2>1, <2>2, <2>3
<1> QED BY <1>1, <1>4, <1>6, <1>7 DEF isCandidate, wanted

(***************************************************************************)
(* From a picture that is not old and a manifest that lists every worker,  *)
(* a top-up takes only launch candidates that nobody works on, whatever    *)
(* the issues, labels and pull requests are.                               *)
(***************************************************************************)
THEOREM TopUpCandidates == Spec => TopUpTakesCandidates
<1> DEFINE Fresh == ToppedUp /\ Current /\ alive \subseteq {w.issue : w \in Active(manifest)}
           Fit ==
             \A s \in plan'.selected :
               /\ isCandidate([issues[s.issue] EXCEPT !.labels = @ \ Unwanted], s.issue, prs)
               /\ s.issue \notin alive
<1>1. ASSUME PlanningInv, [Next]_vars, Fresh PROVE Fit
  <2>1. plan'.selected = {Row(i) : i \in Slice(OnePerGroup, Room)}
    BY <1>1, TopUpSelects
  <2>2. Slice(OnePerGroup, Room) \subseteq Eligible
    BY DEF Slice, OnePerGroup, deduplicateByConflictGroup
  <2>3. issues \in Seq(IssueRow) /\ NoPR \notin DOMAIN prs
    BY <1>1, WorldAssumption DEF PlanningInv, Issued
  <2>4. /\ DOMAIN board = 1 .. Len(issues)
        /\ \A k \in 1 .. Len(issues) : Reading(board[k], issues, prs)
    BY <1>1, <2>3, BoardReads DEF Current
  <2>5. ASSUME NEW i \in Eligible
        PROVE  /\ isCandidate([issues[Row(i).issue] EXCEPT !.labels = @ \ Unwanted], Row(i).issue, prs)
               /\ Row(i).issue \notin alive
    <3>1. /\ i \in DOMAIN board /\ board[i].state \in {"ready", "todo"} /\ board[i].linkedPR = NoPR
          /\ GroupOf(board[i]) \notin extractActiveConflictGroups(manifest)
      BY DEF Eligible, selectEligibleTasks
    <3>2. PICK m \in DOMAIN issues : board[i] = projectTask(issues[m], m, prs)
      BY <2>4, <3>1 DEF Reading
    <3>3. issues[m] \in IssueRow
      BY <2>3
    <3>4. Row(i).issue = m
      BY <3>2 DEF Row, projectTask
    <3>5. isCandidate([issues[m] EXCEPT !.labels = @ \ Unwanted], m, prs)
      BY <2>3, <3>1, <3>2, <3>3, RowTells
    <3>6. m \notin alive
      <4> SUFFICES ASSUME m \in alive PROVE FALSE
        OBVIOUS
      <4>1. PICK w \in Active(manifest) : w.issue = m
        BY <1>1
      <4>2. w \in manifest /\ Told(w, issues)
        BY <1>1 DEF Active, PlanningInv, OnFile
      <4>3. w.conflictGroup = issues[m].group /\ w.conflictGroup \in Group
        BY <1>1, <4>1, <4>2, GroupKnown DEF Told, PlanningInv
      <4>4. w.conflictGroup \in extractActiveConflictGroups(manifest)
        BY <4>1, <4>3, GeneralAssumption DEF extractActiveConflictGroups
      <4>5. GroupOf(board[i]) = board[i].conflictGroup
        BY <1>1, <3>1, GroupRead
      <4>6. board[i].conflictGroup = issues[m].group
        BY <3>2 DEF projectTask
      <4> QED BY <3>1, <4>3, <4>4, <4>5, <4>6
    <3> QED BY <3>4, <3>5, <3>6
  <2> QED BY <2>1, <2>2, <2>5
<1>2. PlanningInv /\ [Next]_vars => [Fresh => Fit]_vars
  BY <1>1
<1> QED BY <1>2, PlanningSafe, PTL DEF Spec, TopUpTakesCandidates

-----------------------------------------------------------------------------
(***************************************************************************)
(* The waves of a backfill.  A function can be applied again and again.    *)
(***************************************************************************)
Iterated(g, x0, step, m) ==
  g[0] = x0 /\ \A k \in Nat : k < m => g[k + 1] = step[g[k]]

LEMMA IterateTo ==
  ASSUME NEW X, NEW x0 \in X, NEW step \in [X -> X], NEW m \in Nat
  PROVE  \E g \in [0 .. m -> X] : Iterated(g, x0, step, m)
<1> DEFINE Good(n) == \E g \in [0 .. n -> X] : Iterated(g, x0, step, n)
           U == {n \in Nat : Good(n)}
<1>1. 0 \in U
  <2> DEFINE g == [k \in 0 .. 0 |-> x0]
  <2>1. g \in [0 .. 0 -> X] /\ g[0] = x0 /\ \A k \in Nat : ~(k < 0)
    OBVIOUS
  <2> HIDE DEF g
  <2>2. Iterated(g, x0, step, 0)
    BY <2>1 DEF Iterated
  <2> QED BY <2>1, <2>2
<1>2. ASSUME NEW n \in U PROVE n + 1 \in U
  <2>0. n \in Nat
    OBVIOUS
  <2>1. PICK g \in [0 .. n -> X] : Iterated(g, x0, step, n)
    OBVIOUS
  <2> DEFINE h == [k \in 0 .. n + 1 |-> IF k = n + 1 THEN step[g[n]] ELSE g[k]]
  <2>2. h \in [0 .. n + 1 -> X]
    <3>1. g[n] \in X
      BY <2>0
    <3>2. step[g[n]] \in X
      BY <3>1
    <3>3. \A k \in 0 .. n + 1 : k # n + 1 => k \in 0 .. n
      BY <2>0
    <3> QED BY <3>2, <3>3
  <2>3. h[n + 1] = step[g[n]] /\ \A k \in 0 .. n : h[k] = g[k]
    BY <2>0
  <2> HIDE DEF h
  <2>4. h[0] = x0
    <3>1. 0 \in 0 .. n
      BY <2>0
    <3> QED BY <2>1, <2>3, <3>1 DEF Iterated
  <2>5. ASSUME NEW k \in Nat, k < n + 1 PROVE h[k + 1] = step[h[k]]
    <3>1. CASE k = n
      <4>1. n \in 0 .. n
        BY <2>0
      <4> QED BY <2>3, <3>1, <4>1
    <3>2. CASE k # n
      <4>1. k < n /\ k \in 0 .. n /\ k + 1 \in 0 .. n
        BY <2>0, <2>5, <3>2
      <4> QED BY <2>1, <2>3, <4>1 DEF Iterated
    <3> QED BY <3>1, <3>2
  <2>6. Iterated(h, x0, step, n + 1)
    BY <2>4, <2>5 DEF Iterated
  <2>7. Good(n + 1)
    BY <2>2, <2>6
  <2> HIDE DEF Good
  <2> QED BY <2>0, <2>7
<1>3. U = Nat
  <2> HIDE DEF U
  <2>1. U \in SUBSET Nat
    BY DEF U
  <2> QED BY <1>1, <1>2, <2>1, NatInd
<1> QED BY <1>3

LEMMA IteratesAgree ==
  ASSUME NEW x0, NEW step, NEW g, NEW h, NEW m \in Nat, NEW n \in Nat, m <= n,
         Iterated(g, x0, step, m), Iterated(h, x0, step, n)
  PROVE  g[m] = h[m]
<1> DEFINE U == {k \in Nat : k <= m => g[k] = h[k]}
<1>1. 0 \in U
  BY DEF Iterated
<1>2. ASSUME NEW k \in U PROVE k + 1 \in U
  <2> SUFFICES ASSUME k + 1 <= m PROVE g[k + 1] = h[k + 1]
    OBVIOUS
  <2>1. k \in Nat /\ k < m /\ k < n /\ g[k] = h[k]
    OBVIOUS
  <2> QED BY <2>1 DEF Iterated
<1>3. U = Nat
  <2> HIDE DEF U
  <2>1. U \in SUBSET Nat
    BY DEF U
  <2> QED BY <1>1, <1>2, <2>1, NatInd
<1> QED BY <1>3

Chain(f, X, x0, step) ==
  f \in [Nat -> X] /\ f[0] = x0 /\ \A n \in Nat : f[n + 1] = step[f[n]]

LEMMA Iterates ==
  ASSUME NEW X, NEW x0, NEW step, x0 \in X, step \in [X -> X]
  PROVE  \E f : Chain(f, X, x0, step)
<1> DEFINE G(n) == CHOOSE g \in [0 .. n -> X] : Iterated(g, x0, step, n)
           f == [n \in Nat |-> G(n)[n]]
<1>1. ASSUME NEW n \in Nat PROVE G(n) \in [0 .. n -> X] /\ Iterated(G(n), x0, step, n)
  BY IterateTo
<1>2. \A n \in Nat : f[n] = G(n)[n]
  OBVIOUS
<1>3. f \in [Nat -> X]
  <2>1. ASSUME NEW n \in Nat PROVE G(n)[n] \in X
    <3>1. n \in 0 .. n
      OBVIOUS
    <3> HIDE DEF G
    <3> QED BY <1>1, <3>1
  <2> QED BY <2>1
<1> HIDE DEF G, f
<1>4. f[0] = x0
  BY <1>1, <1>2 DEF Iterated
<1>5. ASSUME NEW n \in Nat PROVE f[n + 1] = step[f[n]]
  <2>1. n + 1 \in Nat /\ n <= n + 1 /\ n < n + 1
    OBVIOUS
  <2>2. Iterated(G(n), x0, step, n) /\ Iterated(G(n + 1), x0, step, n + 1)
    BY <1>1, <2>1
  <2>3. G(n)[n] = G(n + 1)[n]
    <3> DEFINE g == G(n)
               h == G(n + 1)
               m == n + 1
    <3>1. Iterated(g, x0, step, n) /\ Iterated(h, x0, step, m) /\ m \in Nat /\ n <= m
      BY <2>1, <2>2
    <3> HIDE DEF g, h, m
    <3>2. g[n] = h[n]
      BY <3>1, IteratesAgree
    <3> QED BY <3>2 DEF g, h
  <2>4. G(n + 1)[n + 1] = step[G(n + 1)[n]]
    BY <2>1, <2>2 DEF Iterated
  <2> QED BY <1>2, <2>1, <2>3, <2>4
<1> QED BY <1>3, <1>4, <1>5 DEF Chain

(***************************************************************************)
(* One pass over the remaining tasks, in order: FoldLeft takes up a set of *)
(* positions by their greatest.                                            *)
(***************************************************************************)
LEMMA Greatest ==
  ASSUME NEW m \in Nat, NEW T \in SUBSET (1 .. m), T # {}
  PROVE  /\ Max(T) \in T
         /\ \A y \in T : y <= Max(T)
<1> DEFINE R == {m - x : x \in T}
<1>1. R \in SUBSET Nat /\ R # {}
  <2>1. ASSUME NEW x \in T PROVE m - x \in Nat
    <3>1. x \in 1 .. m
      OBVIOUS
    <3>2. x \in Nat /\ x <= m
      BY <3>1
    <3> QED BY <3>2
  <2>2. PICK x : x \in T
    OBVIOUS
  <2>3. m - x \in R
    BY <2>2
  <2>4. \A r \in R : r \in Nat
    BY <2>1
  <2> HIDE DEF R
  <2> QED BY <2>3, <2>4
<1> HIDE DEF R
<1>2. PICK r \in R : \A y \in R : r <= y
  BY <1>1, NatLeast
<1>3. PICK x \in T : r = m - x
  BY <1>2 DEF R
<1>4. ASSUME NEW y \in T PROVE x >= y
  <2>1. m - y \in R
    BY DEF R
  <2>2. x \in 1 .. m /\ y \in 1 .. m /\ r <= m - y
    BY <1>2, <2>1
  <2> QED BY <1>3, <2>2
<1>5. \E g \in T : \A y \in T : g >= y
  BY <1>4
<1>6. Max(T) \in T /\ \A y \in T : Max(T) >= y
  BY <1>5 DEF Max
<1> QED BY <1>6

Joins(b, wave, i, c) ==
  Len(wave) < c /\ \A k \in DOMAIN wave : GroupOf(b[wave[k]]) # GroupOf(b[i])

Joined(b, wave, i, c) == IF Joins(b, wave, i, c) THEN Append(wave, i) ELSE wave

Passes(b, r, c, f) ==
  f = [s \in SUBSET DOMAIN r |->
         IF s = {} THEN << >> ELSE Joined(b, f[s \ {Max(s)}], r[Max(s)], c)]

LEMMA PassExists ==
  ASSUME NEW S, NEW r \in Seq(S), NEW b, NEW c
  PROVE  \E f : Passes(b, r, c, f)
<1> DEFINE D == DOMAIN r
           Of(f, s) == IF s = {} THEN << >>
                      ELSE Joined(b, f[s \ {Max(s)}], r[Max(s)], c)
           UpTo(f, n) == \A s \in SUBSET D : Cardinality(s) <= n => f[s] = Of(f, s)
           U == {n \in Nat : \E f : f = [s \in SUBSET D |-> f[s]] /\ UpTo(f, n)}
<1>0. IsFiniteSet(D) /\ D = 1 .. Len(r) /\ Len(r) \in Nat
  BY FS_Interval
<1>1. ASSUME NEW s \in SUBSET D
      PROVE  /\ IsFiniteSet(s) /\ Cardinality(s) \in Nat /\ (Cardinality(s) = 0 <=> s = {})
             /\ s # {} => s \ {Max(s)} \in SUBSET D /\ Cardinality(s \ {Max(s)}) = Cardinality(s) - 1
  <2>1. IsFiniteSet(s)
    BY <1>0, FS_Subset
  <2>2. s # {} => Max(s) \in s
    BY <1>0, Greatest
  <2> QED BY <2>1, <2>2, FS_RemoveElement, FS_CardinalityType, FS_EmptySet
<1> HIDE DEF D
<1>2. 0 \in U
  <2> DEFINE f == [s \in SUBSET D |-> << >>]
  <2>1. UpTo(f, 0)
    <3> SUFFICES ASSUME NEW s \in SUBSET D, Cardinality(s) <= 0 PROVE f[s] = Of(f, s)
      OBVIOUS
    <3>1. Cardinality(s) \in Nat /\ Cardinality(s) <= 0
      BY <1>1
    <3>2. Cardinality(s) = 0
      BY <3>1
    <3>3. s = {}
      BY <1>1, <3>2
    <3> QED BY <3>3
  <2> QED BY <2>1
<1>3. ASSUME NEW n \in U PROVE n + 1 \in U
  <2>1. PICK f : f = [s \in SUBSET D |-> f[s]] /\ UpTo(f, n)
    BY <1>3
  <2> DEFINE g == [s \in SUBSET D |-> IF Cardinality(s) <= n THEN f[s] ELSE Of(f, s)]
  <2>2. n \in Nat
    OBVIOUS
  <2>3. UpTo(g, n + 1)
    <3> SUFFICES ASSUME NEW s \in SUBSET D, Cardinality(s) <= n + 1 PROVE g[s] = Of(g, s)
      OBVIOUS
    <3>1. g[s] = Of(f, s)
      BY <2>1
    <3>2. CASE s = {}
      BY <3>1, <3>2
    <3>3. CASE s # {}
      <4> DEFINE q == s \ {Max(s)}
      <4>1. q \in SUBSET D /\ Cardinality(q) <= n
        <5>1. q \in SUBSET D /\ Cardinality(q) = Cardinality(s) - 1 /\ Cardinality(s) \in Nat
          BY <1>1, <3>3
        <5> QED BY <2>2, <5>1
      <4>2. g[q] = f[q]
        BY <4>1
      <4> QED BY <3>1, <3>3, <4>2
    <3> QED BY <3>2, <3>3
  <2>4. g = [s \in SUBSET D |-> g[s]]
    OBVIOUS
  <2> HIDE DEF g, UpTo
  <2> QED BY <2>2, <2>3, <2>4
<1>4. U = Nat
  <2> HIDE DEF U
  <2>1. U \in SUBSET Nat
    BY DEF U
  <2> QED BY <1>2, <1>3, <2>1, NatInd
<1>5. Cardinality(D) \in Nat
  BY <1>0, FS_CardinalityType DEF D
<1>6. PICK f : f = [s \in SUBSET D |-> f[s]] /\ UpTo(f, Cardinality(D))
  BY <1>4, <1>5
<1>7. ASSUME NEW s \in SUBSET D PROVE Cardinality(s) <= Cardinality(D)
  BY <1>0, FS_Subset DEF D
<1>8. f = [s \in SUBSET D |-> Of(f, s)]
  BY <1>6, <1>7
<1>9. Passes(b, r, c, f)
  BY <1>8 DEF Passes, D
<1> QED BY <1>9

(* w[n] is the wave when the first n of the tasks have been tried.         *)
Fills(w, b, r, c) ==
  /\ w[0] = << >>
  /\ \A n \in 1 .. Len(r) : w[n] = Joined(b, w[n - 1], r[n], c)

LEMMA FillUnfold ==
  ASSUME NEW S, NEW r \in Seq(S), NEW b, NEW c
  PROVE  \E w : Fills(w, b, r, c) /\ FillWave(b, r, c) = w[Len(r)]
<1> DEFINE f == CHOOSE g : Passes(b, r, c, g)
           w == [j \in 0 .. Len(r) |-> f[1 .. j]]
<1>0. Len(r) \in Nat /\ DOMAIN r = 1 .. Len(r)
  OBVIOUS
<1>1. Passes(b, r, c, f)
  BY PassExists
<1>2. FillWave(b, r, c) = f[DOMAIN r]
  BY DEF FillWave, FoldLeft, MapThenFoldSet, Passes, Joined, Joins
<1> HIDE DEF f
<1>3. w[0] = << >>
  <2>1. 1 .. 0 = {} /\ {} \in SUBSET DOMAIN r
    OBVIOUS
  <2> QED BY <1>0, <1>1, <2>1 DEF Passes
<1>4. ASSUME NEW j \in 1 .. Len(r) PROVE w[j] = Joined(b, w[j - 1], r[j], c)
  <2>1. 1 .. j \in SUBSET DOMAIN r /\ 1 .. j # {} /\ j \in Nat /\ j - 1 \in 0 .. Len(r) /\ j \in 0 .. Len(r)
    <3>1. j \in Nat /\ 1 <= j /\ j <= Len(r)
      BY <1>0
    <3>2. j \in 1 .. j /\ \A i \in 1 .. j : i \in 1 .. Len(r)
      BY <1>0, <3>1
    <3>3. 1 .. j \in SUBSET DOMAIN r /\ 1 .. j # {}
      BY <1>0, <3>2
    <3>4. j - 1 \in 0 .. Len(r) /\ j \in 0 .. Len(r)
      BY <1>0, <3>1
    <3> QED BY <3>1, <3>3, <3>4
  <2>2. Max(1 .. j) \in 1 .. j /\ \A y \in 1 .. j : y <= Max(1 .. j)
    BY <2>1, Greatest
  <2>3. Max(1 .. j) = j
    <3>1. j \in 1 .. j
      BY <2>1
    <3> QED BY <2>1, <2>2, <3>1
  <2>4. (1 .. j) \ {j} = 1 .. (j - 1)
    BY <2>1
  <2>5. f[1 .. j] = Joined(b, f[(1 .. j) \ {Max(1 .. j)}], r[Max(1 .. j)], c)
    BY <1>1, <2>1 DEF Passes
  <2>6. f[1 .. j] = Joined(b, f[1 .. (j - 1)], r[j], c)
    BY <2>3, <2>4, <2>5
  <2>7. w[j] = f[1 .. j] /\ w[j - 1] = f[1 .. (j - 1)]
    BY <2>1
  <2> QED BY <2>6, <2>7
<1>5. FillWave(b, r, c) = w[Len(r)]
  BY <1>0, <1>2
<1> HIDE DEF w
<1> QED BY <1>3, <1>4, <1>5 DEF Fills

(* The wave after a pass: no two tasks of a group, no more than the cap,   *)
(* tasks that were there, and no task passed over that it has room for.    *)
In(t, wave) == \E k \in DOMAIN wave : wave[k] = t

Apart(b, wave) ==
  \A k, l \in DOMAIN wave : k # l => GroupOf(b[wave[k]]) # GroupOf(b[wave[l]])

Passed(b, wave, r, n, c) ==
  /\ Len(wave) <= c
  /\ \A k \in DOMAIN wave : \E m \in 1 .. n : wave[k] = r[m]
  /\ Apart(b, wave)
  /\ \A m \in 1 .. n : In(r[m], wave) \/ ~Joins(b, wave, r[m], c)

LEMMA JoinedPasses ==
  ASSUME NEW S, NEW r \in Seq(S), NEW b, NEW c \in Nat, NEW n \in Nat, n + 1 <= Len(r),
         NEW wave \in Seq(S), Passed(b, wave, r, n, c)
  PROVE  LET more == Joined(b, wave, r[n + 1], c)
         IN  more \in Seq(S) /\ Passed(b, more, r, n + 1, c)
<1> DEFINE t == r[n + 1]
           more == Joined(b, wave, t, c)
<1>0. /\ t \in S /\ Len(wave) \in Nat /\ DOMAIN wave = 1 .. Len(wave)
      /\ \A m \in 1 .. n : m \in 1 .. n + 1
      /\ n + 1 \in 1 .. n + 1
      /\ \A m \in 1 .. n + 1 : m = n + 1 \/ m \in 1 .. n
  OBVIOUS
<1> HIDE DEF t
<1>1. CASE ~Joins(b, wave, t, c)
  <2>1. more = wave
    BY <1>1 DEF Joined
  <2> HIDE DEF more
  <2>2. \A m \in 1 .. n + 1 : In(r[m], wave) \/ ~Joins(b, wave, r[m], c)
    BY <1>0, <1>1 DEF t, Passed
  <2>3. \A k \in DOMAIN wave : \E m \in 1 .. n + 1 : wave[k] = r[m]
    BY <1>0 DEF Passed
  <2>4. Passed(b, wave, r, n + 1, c)
    BY <2>2, <2>3 DEF Passed
  <2> QED BY <2>1, <2>4 DEF more, t
<1>2. CASE Joins(b, wave, t, c)
  <2> DEFINE last == Len(wave) + 1
  <2>1. more = Append(wave, t)
    BY <1>2 DEF Joined
  <2>2. /\ more \in Seq(S) /\ Len(more) = last /\ DOMAIN more = 1 .. last /\ more[last] = t
        /\ \A k \in 1 .. Len(wave) : more[k] = wave[k]
        /\ last \in 1 .. last
        /\ \A k \in 1 .. Len(wave) : k \in 1 .. last
        /\ \A k \in 1 .. last : k = last \/ k \in 1 .. Len(wave)
    BY <1>0, <2>1
  <2> HIDE DEF more
  <2>3. Len(more) <= c
    BY <1>0, <1>2, <2>2 DEF Joins
  <2> HIDE DEF last
  <2>4. ASSUME NEW k \in DOMAIN more PROVE \E m \in 1 .. n + 1 : more[k] = r[m]
    <3>1. CASE k = last
      BY <1>0, <2>2, <3>1 DEF t
    <3>2. CASE k \in 1 .. Len(wave)
      BY <1>0, <2>2, <3>2 DEF Passed
    <3> QED BY <2>2, <3>1, <3>2
  <2>5. \A k \in 1 .. Len(wave) : GroupOf(b[wave[k]]) # GroupOf(b[t])
    BY <1>0, <1>2 DEF Joins
  <2>6. ASSUME NEW k \in 1 .. last, NEW l \in 1 .. last, k # l
        PROVE  GroupOf(b[more[k]]) # GroupOf(b[more[l]])
    <3>1. CASE k = last /\ l \in 1 .. Len(wave)
      BY <2>2, <2>5, <3>1
    <3>2. CASE l = last /\ k \in 1 .. Len(wave)
      BY <2>2, <2>5, <3>2
    <3>3. CASE k \in 1 .. Len(wave) /\ l \in 1 .. Len(wave)
      BY <1>0, <2>2, <2>6, <3>3 DEF Passed, Apart
    <3> QED BY <2>2, <2>6, <3>1, <3>2, <3>3
  <2>7. Apart(b, more)
    BY <2>2, <2>6 DEF Apart
  <2>8. ASSUME NEW m \in 1 .. n + 1 PROVE In(r[m], more) \/ ~Joins(b, more, r[m], c)
    <3>1. CASE m = n + 1
      BY <2>2, <3>1 DEF In, t
    <3>2. CASE m \in 1 .. n /\ In(r[m], wave)
      BY <1>0, <2>2, <3>2 DEF In
    <3>3. CASE m \in 1 .. n /\ ~Joins(b, wave, r[m], c)
      <4>1. Len(wave) < c => Len(more) < c \/ ~(Len(more) < c)
        OBVIOUS
      <4>2. CASE ~(Len(wave) < c)
        <5>1. Len(more) = Len(wave) + 1
          BY <2>2 DEF last
        <5>2. ~(Len(more) < c)
          BY <1>0, <4>2, <5>1
        <5> QED BY <5>2 DEF Joins
      <4>3. CASE Len(wave) < c
        <5>1. PICK k \in DOMAIN wave : GroupOf(b[wave[k]]) = GroupOf(b[r[m]])
          BY <3>3, <4>3 DEF Joins
        <5>2. k \in DOMAIN more /\ more[k] = wave[k]
          BY <1>0, <2>2
        <5>3. GroupOf(b[more[k]]) = GroupOf(b[r[m]])
          BY <5>1, <5>2
        <5> QED BY <5>2, <5>3 DEF Joins
      <4> QED BY <4>2, <4>3
    <3> QED BY <1>0, <3>1, <3>2, <3>3 DEF Passed
  <2>9. Passed(b, more, r, n + 1, c)
    BY <2>3, <2>4, <2>7, <2>8 DEF Passed
  <2> QED BY <2>2, <2>9 DEF more, t
<1> QED BY <1>1, <1>2

LEMMA FillPasses ==
  ASSUME NEW S, NEW r \in Seq(S), NEW b, NEW c \in Nat
  PROVE  FillWave(b, r, c) \in Seq(S) /\ Passed(b, FillWave(b, r, c), r, Len(r), c)
<1>1. PICK w : Fills(w, b, r, c) /\ FillWave(b, r, c) = w[Len(r)]
  BY FillUnfold
<1> DEFINE Good(n) == w[n] \in Seq(S) /\ Passed(b, w[n], r, n, c)
           U == {n \in Nat : n <= Len(r) => Good(n)}
<1>2. 0 \in U
  <2>1. w[0] = << >> /\ << >> \in Seq(S) /\ DOMAIN << >> = {} /\ 1 .. 0 = {} /\ Len(<< >>) = 0
    BY <1>1 DEF Fills
  <2>2. Passed(b, w[0], r, 0, c)
    BY <2>1 DEF Passed, Apart
  <2> HIDE DEF Passed
  <2> QED BY <2>1, <2>2
<1>3. ASSUME NEW n \in U PROVE n + 1 \in U
  <2> SUFFICES ASSUME n + 1 <= Len(r) PROVE Good(n + 1)
    OBVIOUS
  <2>1. n + 1 \in 1 .. Len(r) /\ (n + 1) - 1 = n /\ n \in Nat /\ Good(n)
    OBVIOUS
  <2> HIDE DEF U
  <2>2. w[n + 1] = Joined(b, w[n], r[n + 1], c)
    BY <1>1, <2>1 DEF Fills
  <2> DEFINE wave == w[n]
             m == n + 1
  <2>3. wave \in Seq(S) /\ Passed(b, wave, r, n, c)
    BY <2>1
  <2> HIDE DEF wave
  <2>4. Joined(b, wave, r[n + 1], c) \in Seq(S) /\ Passed(b, Joined(b, wave, r[n + 1], c), r, n + 1, c)
    BY <2>1, <2>3, JoinedPasses
  <2> QED BY <2>2, <2>4 DEF wave
<1>4. U = Nat
  <2> HIDE DEF U
  <2>1. U \in SUBSET Nat
    BY DEF U
  <2> QED BY <1>2, <1>3, <2>1, NatInd
<1>5. Good(Len(r))
  BY <1>4
<1> QED BY <1>1, <1>5

(* Of something remaining, something is taken.                             *)
LEMMA FillTakes ==
  ASSUME NEW S, NEW r \in Seq(S), r # << >>, NEW b, NEW c \in Nat \ {0}
  PROVE  Len(FillWave(b, r, c)) \in 1 .. c
<1> DEFINE wave == FillWave(b, r, c)
<1>1. wave \in Seq(S) /\ Passed(b, wave, r, Len(r), c)
  BY FillPasses
<1> HIDE DEF wave
<1>2. Len(wave) \in Nat /\ DOMAIN wave = 1 .. Len(wave) /\ Len(wave) <= c /\ 1 \in 1 .. Len(r)
  BY <1>1 DEF Passed
<1>3. Len(wave) # 0
  <2> SUFFICES ASSUME Len(wave) = 0 PROVE FALSE
    OBVIOUS
  <2>1. DOMAIN wave = {} /\ Len(wave) < c
    BY <1>2
  <2>2. Joins(b, wave, r[1], c) /\ ~In(r[1], wave)
    BY <2>1 DEF Joins, In
  <2> QED BY <1>1, <1>2, <2>2 DEF Passed
<1> QED BY <1>2, <1>3 DEF wave

(* The recursion of planWaves, as a relation.                              *)
Rest(b, r, c) == Kept(r, {k \in DOMAIN r : r[k] \notin ToSet(FillWave(b, r, c))})

Rests(f, b, T, c) ==
  f = [n \in Nat |-> IF n = 0 THEN Kept([i \in DOMAIN b |-> i], T) ELSE Rest(b, f[n - 1], c)]

LEMMA RestTyped ==
  ASSUME NEW S, NEW r \in Seq(S), NEW b, NEW c
  PROVE  Rest(b, r, c) \in Seq(S)
BY KeptList DEF Rest

LEMMA RestsExist ==
  ASSUME NEW N \in Nat, NEW b, DOMAIN b = 1 .. N, NEW T, NEW c
  PROVE  \E f : Rests(f, b, T, c)
<1> DEFINE X == Seq(1 .. N)
           x0 == Kept([i \in DOMAIN b |-> i], T)
           step == [r \in X |-> Rest(b, r, c)]
<1>1. x0 \in X
  <2>1. [i \in DOMAIN b |-> i] \in Seq(1 .. N)
    OBVIOUS
  <2> QED BY <2>1, KeptList
<1>2. step \in [X -> X]
  BY RestTyped
<1> HIDE DEF X, x0, step
<1>3. PICK f \in [Nat -> X] : f[0] = x0 /\ \A n \in Nat : f[n + 1] = step[f[n]]
  <2>1. \E f : Chain(f, X, x0, step)
    BY <1>1, <1>2, Iterates
  <2> QED BY <2>1 DEF Chain
<1> DEFINE g == [n \in Nat |-> IF n = 0 THEN x0 ELSE Rest(b, f[n - 1], c)]
<1>4. ASSUME NEW n \in Nat PROVE f[n] = g[n]
  <2>1. CASE n = 0
    BY <1>3, <2>1
  <2>2. CASE n # 0
    <3>1. n - 1 \in Nat /\ (n - 1) + 1 = n
      BY <2>2
    <3>2. f[n - 1] \in X /\ f[n] = step[f[n - 1]]
      BY <1>3, <3>1
    <3>3. step[f[n - 1]] = Rest(b, f[n - 1], c)
      BY <3>2 DEF step
    <3> QED BY <2>2, <3>2, <3>3
  <2> QED BY <2>1, <2>2
<1>5. f = [n \in Nat |-> f[n]]
  BY <1>3
<1>6. f = g
  BY <1>4, <1>5
<1> QED BY <1>6 DEF Rests, x0

LEMMA RestsShape ==
  ASSUME NEW N \in Nat, NEW b, DOMAIN b = 1 .. N, NEW T \in SUBSET (1 .. N), NEW c,
         NEW f, Rests(f, b, T, c)
  PROVE  /\ f[0] = Kept([i \in DOMAIN b |-> i], T)
         /\ \A n \in Nat : f[n + 1] = Rest(b, f[n], c)
         /\ \A n \in Nat : f[n] \in Seq(1 .. N)
<1>1. f[0] = Kept([i \in DOMAIN b |-> i], T)
  BY DEF Rests
<1>2. ASSUME NEW n \in Nat PROVE f[n + 1] = Rest(b, f[n], c)
  <2>1. n + 1 \in Nat /\ n + 1 # 0 /\ (n + 1) - 1 = n
    OBVIOUS
  <2>2. f[n + 1] = IF n + 1 = 0 THEN Kept([i \in DOMAIN b |-> i], T) ELSE Rest(b, f[(n + 1) - 1], c)
    BY <2>1 DEF Rests
  <2> QED BY <2>1, <2>2
<1> DEFINE U == {n \in Nat : f[n] \in Seq(1 .. N)}
<1>3. 0 \in U
  <2>1. [i \in DOMAIN b |-> i] \in Seq(1 .. N)
    OBVIOUS
  <2>2. Kept([i \in DOMAIN b |-> i], T) \in Seq(1 .. N)
    BY <2>1, KeptList
  <2> QED BY <1>1, <2>2
<1>4. ASSUME NEW n \in U PROVE n + 1 \in U
  <2>1. n \in Nat /\ n + 1 \in Nat /\ f[n] \in Seq(1 .. N)
    OBVIOUS
  <2>2. f[n + 1] \in Seq(1 .. N)
    BY <1>2, <2>1, RestTyped
  <2> QED BY <2>1, <2>2
<1>5. U = Nat
  <2> HIDE DEF U
  <2>1. U \in SUBSET Nat
    BY DEF U
  <2> QED BY <1>3, <1>4, <2>1, NatInd
<1>6. \A n \in Nat : f[n] \in Seq(1 .. N)
  BY <1>5
<1> QED BY <1>1, <1>2, <1>6

(* What is kept, as a set.                                                 *)
LEMMA KeptSet ==
  ASSUME NEW S, NEW s \in Seq(S), NEW keep \in SUBSET (1 .. Len(s))
  PROVE  ToSet(Kept(s, keep)) = {s[k] : k \in keep}
<1> DEFINE out == Kept(s, keep)
<1>1. PICK pos : Ranked(out, s, keep, Len(s), pos)
  BY KeptRanked
<1> HIDE DEF out
<1>2. ASSUME NEW i \in DOMAIN out PROVE out[i] \in {s[k] : k \in keep}
  BY <1>1 DEF Ranked
<1>3. ASSUME NEW k \in keep PROVE \E i \in DOMAIN out : out[i] = s[k]
  BY <1>1 DEF Ranked
<1>4. ToSet(out) = {out[i] : i \in DOMAIN out}
  BY DEF ToSet
<1>5. ToSet(out) = {s[k] : k \in keep}
  BY <1>2, <1>3, <1>4
<1> QED BY <1>5 DEF out

(* Each pass takes its wave off what remains.                              *)
LEMMA RestLeaves ==
  ASSUME NEW S, NEW r \in Seq(S), NEW b, NEW c
  PROVE  ToSet(Rest(b, r, c)) = ToSet(r) \ ToSet(FillWave(b, r, c))
<1> DEFINE W == ToSet(FillWave(b, r, c))
           keep == {k \in DOMAIN r : r[k] \notin W}
<1>1. keep \in SUBSET (1 .. Len(r))
  OBVIOUS
<1>2. ToSet(Kept(r, keep)) = {r[k] : k \in keep}
  BY <1>1, KeptSet
<1>3. Rest(b, r, c) = Kept(r, keep)
  BY DEF Rest
<1> HIDE DEF W
<1>4. {r[k] : k \in keep} = {r[k] : k \in DOMAIN r} \ W
  OBVIOUS
<1> QED BY <1>2, <1>3, <1>4 DEF ToSet, W

Backlog(f, b, T, c, N) ==
  /\ N \in Nat /\ DOMAIN b = 1 .. N /\ T \in SUBSET (1 .. N)
  /\ c \in Nat \ {0} /\ Rests(f, b, T, c)

Leaves(f, b, c) ==
  \A n \in Nat : ToSet(f[n + 1]) = ToSet(f[n]) \ ToSet(FillWave(b, f[n], c))

LEMMA RestSets ==
  ASSUME NEW f, NEW b, NEW T, NEW c, NEW N, Backlog(f, b, T, c, N)
  PROVE  /\ ToSet(f[0]) = T
         /\ \A n \in Nat : f[n] \in Seq(1 .. N)
         /\ Leaves(f, b, c)
<1>0. N \in Nat /\ DOMAIN b = 1 .. N /\ T \in SUBSET (1 .. N) /\ Rests(f, b, T, c)
  BY DEF Backlog
<1>1. /\ f[0] = Kept([i \in DOMAIN b |-> i], T)
      /\ \A n \in Nat : f[n + 1] = Rest(b, f[n], c)
      /\ \A n \in Nat : f[n] \in Seq(1 .. N)
  BY <1>0, RestsShape
<1>2. ToSet(f[0]) = T
  <2> DEFINE ids == [i \in DOMAIN b |-> i]
  <2>1. ids \in Seq(1 .. N) /\ Len(ids) = N /\ \A i \in 1 .. N : ids[i] = i
    BY <1>0
  <2> HIDE DEF ids
  <2>2. T \in SUBSET (1 .. Len(ids))
    BY <1>0, <2>1
  <2>3. ToSet(Kept(ids, T)) = {ids[k] : k \in T}
    BY <2>1, <2>2, KeptSet
  <2>4. {ids[k] : k \in T} = T
    BY <1>0, <2>1
  <2> QED BY <1>1, <2>3, <2>4 DEF ids
<1>3. ASSUME NEW n \in Nat PROVE ToSet(f[n + 1]) = ToSet(f[n]) \ ToSet(FillWave(b, f[n], c))
  <2>1. f[n] \in Seq(1 .. N) /\ f[n + 1] = Rest(b, f[n], c)
    BY <1>1
  <2> QED BY <2>1, RestLeaves
<1>4. Leaves(f, b, c)
  BY <1>3 DEF Leaves
<1> QED BY <1>1, <1>2, <1>4

LEMMA WaveFacts ==
  ASSUME NEW f, NEW b, NEW T, NEW c, NEW N, Backlog(f, b, T, c, N), NEW n \in Nat, f[n] # << >>
  PROVE  LET wave == FillWave(b, f[n], c)
         IN  /\ wave \in Seq(1 .. N) /\ Len(wave) \in 1 .. c /\ Apart(b, wave)
             /\ ToSet(wave) \subseteq ToSet(f[n]) /\ ToSet(wave) # {}
             /\ \A t \in ToSet(f[n]) : t \in ToSet(wave) \/ ~Joins(b, wave, t, c)
<1> DEFINE r == f[n]
           wave == FillWave(b, r, c)
<1>1. r \in Seq(1 .. N) /\ r # << >> /\ c \in Nat \ {0}
  BY RestSets DEF Backlog
<1> HIDE DEF r
<1>2. wave \in Seq(1 .. N) /\ Passed(b, wave, r, Len(r), c)
  BY <1>1, FillPasses
<1>3. Len(wave) \in 1 .. c
  BY <1>1, FillTakes
<1> HIDE DEF wave
<1>4. ToSet(wave) \subseteq ToSet(r)
  BY <1>1, <1>2 DEF Passed, ToSet
<1>5. ToSet(wave) # {}
  <2>1. 1 \in DOMAIN wave
    BY <1>2, <1>3
  <2> QED BY <2>1 DEF ToSet
<1>6. ASSUME NEW t \in ToSet(r) PROVE t \in ToSet(wave) \/ ~Joins(b, wave, t, c)
  <2>1. PICK m \in 1 .. Len(r) : t = r[m]
    BY <1>1 DEF ToSet
  <2>2. In(r[m], wave) \/ ~Joins(b, wave, r[m], c)
    BY <1>2 DEF Passed
  <2> QED BY <2>1, <2>2 DEF In, ToSet
<1> QED BY <1>2, <1>3, <1>4, <1>5, <1>6 DEF Passed, wave, r

(* What remains only shrinks.                                              *)
LEMMA RestShrinks ==
  ASSUME NEW f, NEW b, NEW T, NEW c, NEW N, Backlog(f, b, T, c, N),
         NEW m \in Nat, NEW n \in Nat, m <= n
  PROVE  ToSet(f[n]) \subseteq ToSet(f[m])
<1> DEFINE U == {k \in Nat : ToSet(f[m + k]) \subseteq ToSet(f[m])}
<1>1. 0 \in U
  OBVIOUS
<1>2. ASSUME NEW k \in U PROVE k + 1 \in U
  <2> DEFINE l == m + k
  <2>1. k \in Nat /\ l \in Nat /\ m + (k + 1) = l + 1 /\ ToSet(f[l]) \subseteq ToSet(f[m])
    OBVIOUS
  <2> HIDE DEF l
  <2>2. ToSet(f[l + 1]) = ToSet(f[l]) \ ToSet(FillWave(b, f[l], c))
    <3>1. Leaves(f, b, c)
      BY RestSets
    <3> QED BY <2>1, <3>1 DEF Leaves
  <2> QED BY <2>1, <2>2
<1>3. U = Nat
  <2> HIDE DEF U
  <2>1. U \in SUBSET Nat
    BY DEF U
  <2> QED BY <1>1, <1>2, <2>1, NatInd
<1>4. n - m \in U /\ m + (n - m) = n
  <2>1. n - m \in Nat /\ m + (n - m) = n
    OBVIOUS
  <2> HIDE DEF U
  <2> QED BY <1>3, <2>1
<1> QED BY <1>4

LEMMA NothingLeft ==
  ASSUME NEW S, NEW r \in Seq(S)
  PROVE  r = << >> <=> ToSet(r) = {}
<1>1. r = << >> => ToSet(r) = {}
  BY DEF ToSet
<1>2. ASSUME r # << >> PROVE 1 \in DOMAIN r
  BY <1>2
<1> QED BY <1>1, <1>2 DEF ToSet

(* There are no more passes than tasks.                                    *)
LEMMA RestEnds ==
  ASSUME NEW f, NEW b, NEW T, NEW c, NEW N, Backlog(f, b, T, c, N)
  PROVE  Cardinality(T) \in Nat /\ f[Cardinality(T)] = << >>
<1> DEFINE size == Cardinality(T)
           left(n) == Cardinality(ToSet(f[n]))
           U == {n \in Nat : f[n] # << >> => left(n) + n <= size}
<1>0. IsFiniteSet(T) /\ size \in Nat
  <2>1. N \in Nat /\ T \in SUBSET (1 .. N)
    BY DEF Backlog
  <2> QED BY <2>1, CountUp, FS_Subset, FS_CardinalityType
<1>1. ASSUME NEW n \in Nat PROVE IsFiniteSet(ToSet(f[n])) /\ left(n) \in Nat
  <2>1. ToSet(f[n]) \subseteq T
    <3>1. ToSet(f[0]) = T /\ 0 \in Nat /\ 0 <= n
      BY RestSets
    <3>2. ToSet(f[n]) \subseteq ToSet(f[0])
      BY <3>1, RestShrinks
    <3> QED BY <3>1, <3>2
  <2> QED BY <1>0, <2>1, FS_Subset, FS_CardinalityType
<1> HIDE DEF size
<1>2. 0 \in U
  <2>1. left(0) = size
    BY RestSets DEF size
  <2> QED BY <1>0, <2>1
<1>3. ASSUME NEW n \in U PROVE n + 1 \in U
  <2> SUFFICES ASSUME f[n + 1] # << >> PROVE left(n + 1) + (n + 1) <= size
    OBVIOUS
  <2>0. n \in Nat /\ n + 1 \in Nat /\ n <= n + 1
    OBVIOUS
  <2>1. f[n] \in Seq(1 .. N) /\ f[n + 1] \in Seq(1 .. N)
    BY <2>0, RestSets
  <2>2. f[n] # << >>
    <3>1. ToSet(f[n + 1]) \subseteq ToSet(f[n])
      BY <2>0, RestShrinks
    <3> QED BY <2>1, <3>1, NothingLeft
  <2>3. left(n) + n <= size
    BY <2>2
  <2> DEFINE W == ToSet(FillWave(b, f[n], c))
             a == ToSet(f[n])
             z == ToSet(f[n + 1])
  <2>4. W # {} /\ W \subseteq a /\ z = a \ W
    <3>1. W # {} /\ W \subseteq a
      BY <2>0, <2>2, WaveFacts
    <3>2. z = a \ W
      <4>1. Leaves(f, b, c)
        BY RestSets
      <4> QED BY <2>0, <4>1 DEF Leaves
    <3> QED BY <3>1, <3>2
  <2>5. IsFiniteSet(a) /\ IsFiniteSet(z) /\ Cardinality(a) \in Nat /\ Cardinality(z) \in Nat
    BY <1>1, <2>0
  <2> HIDE DEF W, a, z
  <2>6. Cardinality(z) <= Cardinality(a) /\ Cardinality(z) # Cardinality(a)
    <3>1. z \in SUBSET a /\ z # a
      BY <2>4
    <3> QED BY <2>5, <3>1, FS_Subset
  <2>7. left(n) = Cardinality(a) /\ left(n + 1) = Cardinality(z)
    BY DEF a, z
  <2> HIDE DEF left
  <2> DEFINE ca == Cardinality(a)
             cz == Cardinality(z)
  <2>8. ca \in Nat /\ cz \in Nat /\ cz <= ca /\ cz # ca /\ ca + n <= size
    BY <2>3, <2>5, <2>6, <2>7
  <2> HIDE DEF ca, cz
  <2>9. cz + (n + 1) <= size
    BY <1>0, <2>0, <2>8
  <2> QED BY <2>7, <2>9 DEF cz
<1>4. U = Nat
  <2> HIDE DEF U
  <2>1. U \in SUBSET Nat
    BY DEF U
  <2> QED BY <1>2, <1>3, <2>1, NatInd
<1>5. f[size] = << >>
  <2> SUFFICES ASSUME f[size] # << >> PROVE FALSE
    OBVIOUS
  <2>1. left(size) + size <= size /\ left(size) \in Nat
    <3>1. size \in U
      BY <1>0, <1>4
    <3> HIDE DEF left
    <3> QED BY <1>0, <1>1, <3>1 DEF left
  <2>2. ToSet(f[size]) # {}
    BY <1>0, RestSets, NothingLeft
  <2>3. left(size) # 0
    BY <1>0, <1>1, <2>2, FS_EmptySet
  <2> HIDE DEF left
  <2> QED BY <1>0, <2>1, <2>3
<1> QED BY <1>0, <1>5 DEF size

LastPass(f, T) == Least({n \in 0 .. Cardinality(T) : f[n] = << >>})

LEMMA LastPassRight ==
  ASSUME NEW f, NEW b, NEW T, NEW c, NEW N, Backlog(f, b, T, c, N)
  PROVE  /\ LastPass(f, T) \in Nat /\ f[LastPass(f, T)] = << >>
         /\ \A n \in Nat : n < LastPass(f, T) => f[n] # << >>
<1> DEFINE size == Cardinality(T)
           E == {n \in 0 .. size : f[n] = << >>}
<1>1. size \in Nat /\ f[size] = << >>
  BY RestEnds
<1> HIDE DEF size
<1>2. E \in SUBSET Nat /\ size \in E
  BY <1>1
<1> HIDE DEF E
<1>3. \E x \in E : \A y \in E : x <= y
  BY <1>2, NatLeast
<1>4. Least(E) \in E /\ \A y \in E : Least(E) <= y
  BY <1>3 DEF Least
<1>5. LastPass(f, T) = Least(E)
  BY DEF LastPass, E, size
<1> DEFINE l == Least(E)
<1>6. l \in Nat /\ l <= size /\ f[l] = << >>
  BY <1>1, <1>4 DEF E
<1>7. ASSUME NEW n \in Nat, n < l PROVE f[n] # << >>
  <2> HIDE DEF l
  <2> SUFFICES ASSUME f[n] = << >> PROVE FALSE
    OBVIOUS
  <2>1. n \in E
    BY <1>1, <1>6, <1>7 DEF E
  <2>2. l <= n
    BY <1>4, <2>1 DEF l
  <2> QED BY <1>6, <1>7, <2>2
<1> QED BY <1>5, <1>6, <1>7

(***************************************************************************)
(* The plan: every task is in one wave, and not in an earlier one because  *)
(* that had no room for it.                                                *)
(***************************************************************************)
Laid(ws, b, T, c, N) ==
  /\ Len(ws) \in Nat /\ DOMAIN ws = 1 .. Len(ws)
  /\ \A i \in DOMAIN ws : ws[i] \in Seq(1 .. N) /\ Len(ws[i]) \in 1 .. c /\ Apart(b, ws[i])
  /\ \A i \in DOMAIN ws : ToSet(ws[i]) \subseteq T
  /\ \A t \in T : \E i \in DOMAIN ws : t \in ToSet(ws[i])
  /\ \A i, j \in DOMAIN ws : i < j => ToSet(ws[i]) \cap ToSet(ws[j]) = {}
  /\ \A i, j \in DOMAIN ws : j < i => \A t \in ToSet(ws[i]) : ~Joins(b, ws[j], t, c)

LEMMA WavesLaid ==
  ASSUME NEW f, NEW b, NEW T, NEW c, NEW N, Backlog(f, b, T, c, N)
  PROVE  Laid([n \in 1 .. LastPass(f, T) |-> FillWave(b, f[n - 1], c)], b, T, c, N)
<1> DEFINE last == LastPass(f, T)
           ws == [n \in 1 .. last |-> FillWave(b, f[n - 1], c)]
<1>1. last \in Nat /\ f[last] = << >> /\ \A n \in Nat : n < last => f[n] # << >>
  BY LastPassRight
<1> HIDE DEF last
<1>2. DOMAIN ws = 1 .. last /\ Len(ws) = last /\ \A i \in 1 .. last : ws[i] = FillWave(b, f[i - 1], c)
  BY <1>1
<1> HIDE DEF ws
<1>3. Leaves(f, b, c) /\ ToSet(f[0]) = T
  BY RestSets
<1>4. ASSUME NEW i \in 1 .. last
      PROVE  /\ i - 1 \in Nat /\ i \in Nat
             /\ ws[i] \in Seq(1 .. N) /\ Len(ws[i]) \in 1 .. c /\ Apart(b, ws[i])
             /\ ToSet(ws[i]) \subseteq ToSet(f[i - 1])
             /\ ToSet(f[i]) = ToSet(f[i - 1]) \ ToSet(ws[i])
             /\ \A t \in ToSet(f[i - 1]) : t \in ToSet(ws[i]) \/ ~Joins(b, ws[i], t, c)
  <2> DEFINE n == i - 1
  <2>1. n \in Nat /\ n < last /\ i \in Nat /\ n + 1 = i
    BY <1>1
  <2>2. ws[i] = FillWave(b, f[n], c)
    BY <1>2
  <2> HIDE DEF n
  <2>3. f[n] # << >>
    BY <1>1, <2>1
  <2>4. ToSet(f[n + 1]) = ToSet(f[n]) \ ToSet(FillWave(b, f[n], c))
    BY <1>3, <2>1 DEF Leaves
  <2> DEFINE wave == FillWave(b, f[n], c)
  <2>5. /\ wave \in Seq(1 .. N) /\ Len(wave) \in 1 .. c /\ Apart(b, wave)
        /\ ToSet(wave) \subseteq ToSet(f[n])
        /\ \A t \in ToSet(f[n]) : t \in ToSet(wave) \/ ~Joins(b, wave, t, c)
    BY <2>1, <2>3, WaveFacts
  <2> HIDE DEF wave
  <2>6. ToSet(f[i]) = ToSet(f[n]) \ ToSet(wave)
    BY <2>1, <2>4 DEF wave
  <2>7. ws[i] = wave
    BY <2>2 DEF wave
  <2> QED BY <2>1, <2>5, <2>6, <2>7 DEF n
<1>5. ASSUME NEW i \in 1 .. last PROVE ToSet(ws[i]) \subseteq T
  <2> DEFINE n == i - 1
  <2>1. n \in Nat /\ 0 \in Nat /\ 0 <= n /\ ToSet(ws[i]) \subseteq ToSet(f[n])
    BY <1>4
  <2> HIDE DEF n
  <2>2. ToSet(f[n]) \subseteq ToSet(f[0])
    BY <2>1, RestShrinks
  <2> QED BY <1>3, <2>1, <2>2
<1>6. ASSUME NEW i \in 1 .. last, NEW j \in 1 .. last, i < j
      PROVE  ToSet(ws[j]) \subseteq ToSet(f[i - 1]) \ ToSet(ws[i])
  <2> DEFINE n == j - 1
  <2>1. n \in Nat /\ i \in Nat /\ i <= n /\ ToSet(ws[j]) \subseteq ToSet(f[n])
    BY <1>4, <1>6
  <2> HIDE DEF n
  <2>2. ToSet(f[n]) \subseteq ToSet(f[i])
    BY <2>1, RestShrinks
  <2>3. ToSet(f[i]) = ToSet(f[i - 1]) \ ToSet(ws[i])
    BY <1>4
  <2> QED BY <2>1, <2>2, <2>3
<1>7. ASSUME NEW i \in 1 .. last, NEW j \in 1 .. last, j < i, NEW t \in ToSet(ws[i])
      PROVE  ~Joins(b, ws[j], t, c)
  <2>1. t \in ToSet(f[j - 1]) /\ t \notin ToSet(ws[j])
    BY <1>6, <1>7
  <2> QED BY <1>4, <2>1
<1>8. ASSUME NEW t \in T PROVE \E i \in 1 .. last : t \in ToSet(ws[i])
  <2> DEFINE gone == {n \in Nat : t \notin ToSet(f[n])}
  <2>1. last \in gone
    BY <1>1 DEF ToSet
  <2>2. 0 \notin gone
    BY <1>3
  <2>3. PICK n \in gone : \A m \in gone : n <= m
    <3>1. gone \in SUBSET Nat
      OBVIOUS
    <3> HIDE DEF gone
    <3> QED BY <2>1, <3>1, NatLeast
  <2>4. n \in Nat /\ t \notin ToSet(f[n]) /\ n # 0 /\ n <= last
    BY <2>1, <2>2, <2>3
  <2>5. n \in 1 .. last /\ n - 1 \in Nat
    BY <1>1, <2>4
  <2>6. t \in ToSet(f[n - 1])
    <3> SUFFICES ASSUME t \notin ToSet(f[n - 1]) PROVE FALSE
      OBVIOUS
    <3>1. n - 1 \in gone
      BY <2>5
    <3>2. n <= n - 1
      BY <2>3, <3>1
    <3> QED BY <2>4, <3>2
  <2>7. ToSet(f[n]) = ToSet(f[n - 1]) \ ToSet(ws[n])
    BY <1>4, <2>5
  <2>8. t \in ToSet(ws[n])
    BY <2>4, <2>6, <2>7
  <2> QED BY <2>5, <2>8
<1>9. Len(ws) \in Nat /\ DOMAIN ws = 1 .. Len(ws)
  BY <1>1, <1>2
<1>10. \A i \in DOMAIN ws : ws[i] \in Seq(1 .. N) /\ Len(ws[i]) \in 1 .. c /\ Apart(b, ws[i])
  BY <1>2, <1>4
<1>11. \A i, j \in DOMAIN ws : i < j => ToSet(ws[i]) \cap ToSet(ws[j]) = {}
  BY <1>2, <1>6
<1>12. \A i, j \in DOMAIN ws : j < i => \A t \in ToSet(ws[i]) : ~Joins(b, ws[j], t, c)
  BY <1>2, <1>7
<1>13. /\ \A i \in DOMAIN ws : ToSet(ws[i]) \subseteq T
       /\ \A t \in T : \E i \in DOMAIN ws : t \in ToSet(ws[i])
  BY <1>2, <1>5, <1>8
<1>14. Laid(ws, b, T, c, N)
  BY <1>9, <1>10, <1>11, <1>12, <1>13 DEF Laid
<1> QED BY <1>14 DEF ws, last

(* As many places as tasks.                                                *)
Places(ws) == UNION {{i} \X DOMAIN ws[i] : i \in DOMAIN ws}

LEMMA LaidCounts ==
  ASSUME NEW ws, NEW b, NEW T, NEW c, NEW N \in Nat, T \in SUBSET (1 .. N), Laid(ws, b, T, c, N)
  PROVE  /\ {ws[at[1]][at[2]] : at \in Places(ws)} = T
         /\ Cardinality(Places(ws)) = Cardinality(T)
<1> DEFINE P == Places(ws)
           task == [at \in P |-> ws[at[1]][at[2]]]
<1>1. ASSUME NEW at \in P
      PROVE  /\ at = <<at[1], at[2]>> /\ at[1] \in DOMAIN ws /\ at[2] \in DOMAIN ws[at[1]]
             /\ task[at] = ws[at[1]][at[2]]
  <2>1. PICK i \in DOMAIN ws : at \in {i} \X DOMAIN ws[i]
    BY DEF Places
  <2> QED BY <2>1
<1>2. ASSUME NEW i \in DOMAIN ws, NEW k \in DOMAIN ws[i] PROVE <<i, k>> \in P
  BY DEF Places
<1>3. ASSUME NEW at \in P PROVE task[at] \in ToSet(ws[at[1]]) /\ task[at] \in T
  <2>1. ToSet(ws[at[1]]) \subseteq T
    BY <1>1 DEF Laid
  <2> QED BY <1>1, <2>1 DEF ToSet
<1>4. ASSUME NEW t \in T PROVE \E at \in P : task[at] = t
  <2>1. PICK i \in DOMAIN ws : t \in ToSet(ws[i])
    BY DEF Laid
  <2>2. PICK k \in DOMAIN ws[i] : ws[i][k] = t
    BY <2>1 DEF ToSet
  <2>3. <<i, k>> \in P
    BY <1>2
  <2> QED BY <2>2, <2>3
<1>5. {ws[at[1]][at[2]] : at \in P} = T
  <2>1. \A at \in P : task[at] = ws[at[1]][at[2]] /\ task[at] \in T
    BY <1>3
  <2>2. \A t \in T : \E at \in P : task[at] = t
    BY <1>4
  <2> HIDE DEF task, P
  <2>3. \A t \in T : t \in {ws[at[1]][at[2]] : at \in P}
    BY <2>1, <2>2
  <2>4. \A t \in {ws[at[1]][at[2]] : at \in P} : t \in T
    BY <2>1
  <2> QED BY <2>3, <2>4
<1>6. task \in [P -> T]
  BY <1>3
<1> HIDE DEF task, P
<1>7. ASSUME NEW x \in P, NEW y \in P, task[x] = task[y] PROVE x = y
  <2>1. /\ x[1] \in DOMAIN ws /\ y[1] \in DOMAIN ws /\ x[1] \in Nat /\ y[1] \in Nat
        /\ task[x] \in ToSet(ws[x[1]]) /\ task[x] \in ToSet(ws[y[1]])
    BY <1>1, <1>3, <1>7 DEF Laid
  <2>2. x[1] = y[1]
    <3>1. ~(x[1] < y[1]) /\ ~(y[1] < x[1])
      BY <2>1 DEF Laid
    <3> QED BY <2>1, <3>1
  <2>3. x[2] = y[2]
    <3>1. Apart(b, ws[x[1]])
      BY <2>1 DEF Laid
    <3>2. x[2] \in DOMAIN ws[x[1]] /\ y[2] \in DOMAIN ws[x[1]] /\ ws[x[1]][x[2]] = ws[x[1]][y[2]]
      BY <1>1, <1>7, <2>2
    <3> QED BY <3>1, <3>2 DEF Apart
  <2> QED BY <1>1, <2>2, <2>3
<1>8. task \in Bijection(P, T)
  BY <1>4, <1>6, <1>7 DEF Bijection, Injection, Surjection, IsInjective
<1>9. IsFiniteSet(T)
  BY CountUp, FS_Subset
<1>10. IsFiniteSet(P)
  <2>1. task \in Injection(P, T)
    BY <1>8 DEF Bijection
  <2> QED BY <1>9, <2>1, FS_Injection
<1>11. Cardinality(P) = Cardinality(T)
  BY <1>8, <1>10, FS_Bijection DEF ExistsBijection
<1> QED BY <1>5, <1>11 DEF P

(* With no high-risk row there are no solo waves.                          *)
LEMMA PlanIs ==
  ASSUME NEW N \in Nat, NEW b, DOMAIN b = 1 .. N, NEW T \in SUBSET (1 .. N), NEW c \in Nat \ {0},
         \A i \in T : ~HighRisk(b[i])
  PROVE  Laid(planWaves(b, T, c), b, T, c, N)
<1> DEFINE ids == [i \in DOMAIN b |-> i]
           f == CHOOSE g : Rests(g, b, T, c)
           solo == {i \in T : HighRisk(b[i])}
           first == [k \in 1 .. Cardinality(solo) |-> <<Kept(ids, solo)[k]>>]
           ws == [n \in 1 .. LastPass(f, T) |-> FillWave(b, f[n - 1], c)]
<1>1. solo = {} /\ T \ solo = T
  OBVIOUS
<1>2. planWaves(b, T, c) = first \o ws
  <2> DEFINE h(U) == CHOOSE g : g = [n \in Nat |->
                       IF n = 0 THEN Kept(ids, U)
                       ELSE LET placed == ToSet(FillWave(b, g[n - 1], c))
                            IN Kept(g[n - 1], {k \in DOMAIN g[n - 1] : g[n - 1][k] \notin placed})]
  <2>1. planWaves(b, T, c) =
          first \o [n \in 1 .. Least({n \in 0 .. Cardinality(T) : h(T \ solo)[n] = << >>}) |->
                      FillWave(b, h(T \ solo)[n - 1], c)]
    BY DEF planWaves
  <2>2. h(T) = f
    BY DEF Rests, Rest
  <2>3. h(T \ solo) = f
    BY <1>1, <2>2
  <2> HIDE DEF h, f, first, solo
  <2> QED BY <2>1, <2>3 DEF LastPass
<1>3. Backlog(f, b, T, c, N)
  <2>1. Rests(f, b, T, c)
    BY RestsExist
  <2> QED BY <2>1 DEF Backlog
<1> HIDE DEF f
<1>4. Laid(ws, b, T, c, N)
  BY <1>3, WavesLaid
<1> HIDE DEF ws
<1>5. first = << >>
  <2>1. Cardinality(solo) = 0
    BY <1>1, FS_EmptySet
  <2> DEFINE e == Kept(ids, solo)
             n == Cardinality(solo)
  <2>2. first = [k \in 1 .. n |-> <<e[k]>>]
    OBVIOUS
  <2>3. n = 0
    BY <2>1
  <2> HIDE DEF e, n, first
  <2>4. first = [k \in 1 .. 0 |-> <<e[k]>>]
    BY <2>2, <2>3
  <2>5. [k \in 1 .. 0 |-> <<e[k]>>] = << >>
    OBVIOUS
  <2> QED BY <2>4, <2>5
<1>6. ws \in Seq(Seq(1 .. N))
  <2>1. Len(ws) \in Nat /\ DOMAIN ws = 1 .. Len(ws) /\ \A i \in DOMAIN ws : ws[i] \in Seq(1 .. N)
    BY <1>4 DEF Laid
  <2>2. ws = [i \in 1 .. Len(ws) |-> ws[i]]
    <3>1. ws = [i \in DOMAIN ws |-> ws[i]]
      BY DEF ws
    <3> QED BY <2>1, <3>1
  <2> QED BY <2>1, <2>2
<1> HIDE DEF first
<1>7. first \o ws = ws
  BY <1>5, <1>6
<1> QED BY <1>2, <1>4, <1>7

(* The cap is at least one.                                                *)
LEMMA CapRight ==
  ASSUME PlanningInv
  PROVE  effectiveParallelism(board, manifest, facts.pool, facts.slots,
                              facts.signals, facts.target) \in Nat \ {0}
<1> DEFINE requested == facts.target
           free == AtLeast(0, extractProviderSlots(facts.pool) - countActiveWorkers(manifest))
           groups == {GroupOf(board[i]) : i \in filterExecutableTasks(board)}
           risky == extractRiskSafeSlots(facts.signals, requested)
           bounds == {requested, free, facts.slots, Cardinality(groups), risky,
                      reviewCapacity, mergeCapacity, failureBudget}
<1>1. requested \in Nat /\ facts.slots \in Nat
  BY DEF PlanningInv, Stated
<1>2. free \in Nat
  <2>1. countActiveWorkers(manifest) \in Nat
    <3>1. Active(manifest) \in SUBSET manifest /\ IsFiniteSet(manifest)
      BY DEF PlanningInv, OnFile, Active
    <3>2. IsFiniteSet(Active(manifest))
      BY <3>1, FS_Subset
    <3> QED BY <3>2, FS_CardinalityType DEF countActiveWorkers
  <2>2. extractProviderSlots(facts.pool) \in Nat
    <3> DEFINE pool == facts.pool
               able == {k \in DOMAIN pool : Endless(pool[k]) \/ Headroom(pool[k]) > 0}
    <3>1. pool \in Seq(ToSet(pool))
      BY DEF PlanningInv, Stated, IsList
    <3> HIDE DEF pool
    <3>2. DOMAIN pool = 1 .. Len(pool) /\ Len(pool) \in Nat
      BY <3>1
    <3>3. able \in SUBSET (1 .. Len(pool))
      BY <3>2
    <3> HIDE DEF able
    <3>4. IsFiniteSet(able)
      BY <3>2, <3>3, CountUp, FS_Subset
    <3>5. Cardinality(able) \in Nat
      BY <3>4, FS_CardinalityType
    <3> QED BY <3>5 DEF extractProviderSlots, able, pool
  <2> DEFINE a == extractProviderSlots(facts.pool)
             w == countActiveWorkers(manifest)
  <2>3. a \in Nat /\ w \in Nat
    BY <2>1, <2>2
  <2> HIDE DEF a, w
  <2>4. AtLeast(0, a - w) \in Nat
    BY <2>3 DEF AtLeast
  <2> QED BY <2>4 DEF a, w
<1>3. Cardinality(groups) \in Nat
  <2> DEFINE f == [i \in filterExecutableTasks(board) |-> GroupOf(board[i])]
  <2>1. filterExecutableTasks(board) \in SUBSET (1 .. Len(board)) /\ Len(board) \in Nat
    BY DEF PlanningInv, Pictured, filterExecutableTasks
  <2>2. IsFiniteSet(filterExecutableTasks(board))
    BY <2>1, CountUp, FS_Subset
  <2>3. DOMAIN f = filterExecutableTasks(board)
    OBVIOUS
  <2>4. groups = {f[i] : i \in filterExecutableTasks(board)}
    OBVIOUS
  <2> HIDE DEF f, groups
  <2>5. IsFiniteSet(groups)
    BY <2>2, <2>3, <2>4, MadeFinite
  <2> QED BY <2>5, FS_CardinalityType
<1>4. risky \in Nat
  <2> HIDE DEF requested
  <2>1. requested \div 2 \in Nat
    BY <1>1
  <2>2. AtLeast(1, requested \div 2) \in Nat
    BY <2>1 DEF AtLeast
  <2>3. CASE extractRiskLevel(facts.signals) = "high"
    BY <2>3 DEF extractRiskSafeSlots
  <2>4. CASE extractRiskLevel(facts.signals) = "medium"
    BY <2>2, <2>4 DEF extractRiskSafeSlots
  <2>5. CASE extractRiskLevel(facts.signals) # "high" /\ extractRiskLevel(facts.signals) # "medium"
    BY <1>1, <2>5 DEF extractRiskSafeSlots
  <2> QED BY <2>3, <2>4, <2>5
<1>5. reviewCapacity \in Nat /\ mergeCapacity \in Nat /\ failureBudget \in Nat
  BY DefaultsAssumption
<1> DEFINE cap == effectiveParallelism(board, manifest, facts.pool, facts.slots,
                                       facts.signals, facts.target)
<1>6. cap = AtLeast(1, Least(bounds))
  BY DEF effectiveParallelism
<1> HIDE DEF requested, free, groups, risky, cap
<1>7. bounds \in SUBSET Nat /\ bounds # {}
  BY <1>1, <1>2, <1>3, <1>4, <1>5
<1> HIDE DEF bounds
<1>8. \E n \in bounds : \A k \in bounds : n <= k
  BY <1>7, NatLeast
<1>9. Least(bounds) \in Nat
  BY <1>7, <1>8 DEF Least
<1>10. AtLeast(1, Least(bounds)) \in Nat \ {0}
  BY <1>9 DEF AtLeast
<1> QED BY <1>6, <1>10 DEF cap

(* The rule of the launcher, on a board with no locks and no high risk.    *)
LEMMA LauncherRule ==
  ASSUME NEW b, NEW wave, NEW t \in DOMAIN b, NEW c, \A k \in DOMAIN wave : wave[k] \in DOMAIN b
  PROVE  /\ Launcher(b)!Fits(wave, t, c) <=> Joins(b, wave, t, c)
         /\ \A k, l \in DOMAIN wave :
              Launcher(b)!Clash(wave[k], wave[l]) <=> GroupOf(b[wave[k]]) = GroupOf(b[wave[l]])
<1>1. ASSUME NEW s \in DOMAIN b, NEW u \in DOMAIN b
      PROVE  Launcher(b)!Clash(s, u) <=> GroupOf(b[s]) = GroupOf(b[u])
  BY DEF Launcher!Clash, Launcher!SameGroup, Launcher!LockOverlap, Launcher!BothHighRisk
<1>2. Launcher(b)!Fits(wave, t, c) <=> Joins(b, wave, t, c)
  BY <1>1 DEF Launcher!Fits, Joins
<1> QED BY <1>1, <1>2

(***************************************************************************)
(* A backfill previews the launcher's waves, whatever the board, the cap   *)
(* and the defaults are: all tasks, each once, each in the first wave      *)
(* Build-Waves would find room for it in.                                  *)
(***************************************************************************)
THEOREM BackfillFirstFit == Spec => BackfillIsFirstFit
<1> DEFINE ws == plan'.waves
           at0 == UNION {{i} \X DOMAIN ws[i] : i \in DOMAIN ws}
           FirstFit ==
             /\ {ws[at[1]][at[2]] : at \in at0} = filterExecutableTasks(board)
             /\ Cardinality(at0) = Cardinality(filterExecutableTasks(board))
             /\ Launcher(board)!ClashFree(ws)
             /\ Launcher(board)!Capped(ws, plan'.cap)
             /\ Launcher(board)!Settled(ws, plan'.cap)
<1>1. ASSUME PlanningInv, [Next]_vars, Wrote("backfill") PROVE FirstFit
  <2>1. plan' # plan /\ plan' # NoPlan /\ plan'.tool = "backfill"
    BY <1>1 DEF Wrote
  <2>2. ~TopUp
    BY <2>1 DEF TopUp
  <2>3. Backfill
    BY <1>1, <2>1, <2>2 DEF Next, vars, ProjectBoard, Launch, Finish, ClosePR, Relabel
  <2> DEFINE cap == effectiveParallelism(board, manifest, facts.pool, facts.slots,
                                         facts.signals, facts.target)
             T == filterExecutableTasks(board)
             N == Len(board)
  <2>4. plan'.cap = cap /\ ws = planWaves(board, T, cap)
    BY <2>3 DEF Backfill
  <2>5. cap \in Nat \ {0}
    BY <1>1, CapRight
  <2>6. N \in Nat /\ DOMAIN board = 1 .. N /\ T \in SUBSET (1 .. N)
    BY <1>1 DEF PlanningInv, Pictured, filterExecutableTasks
  <2>7. \A i \in T : ~HighRisk(board[i])
    BY <1>1, <2>6, GroupRead
  <2> HIDE DEF cap, T, N, ws
  <2>8. Laid(ws, board, T, cap, N)
    BY <2>4, <2>5, <2>6, <2>7, PlanIs
  <2>9. at0 = Places(ws)
    BY DEF Places
  <2>10. {ws[at[1]][at[2]] : at \in at0} = T /\ Cardinality(at0) = Cardinality(T)
    BY <2>6, <2>8, <2>9, LaidCounts
  <2>11. ASSUME NEW i \in DOMAIN ws
         PROVE  /\ DOMAIN ws[i] = 1 .. Len(ws[i]) /\ Len(ws[i]) \in 1 .. cap
                /\ \A k \in DOMAIN ws[i] : ws[i][k] \in ToSet(ws[i]) /\ ws[i][k] \in DOMAIN board
    <3>1. ws[i] \in Seq(1 .. N) /\ Len(ws[i]) \in 1 .. cap
      BY <2>8 DEF Laid
    <3> QED BY <2>6, <3>1 DEF ToSet
  <2>12. Launcher(board)!ClashFree(ws)
    <3> SUFFICES ASSUME NEW i \in DOMAIN ws, NEW k \in DOMAIN ws[i], NEW l \in DOMAIN ws[i], k # l
                 PROVE  ~Launcher(board)!Clash(ws[i][k], ws[i][l])
      BY DEF Launcher!ClashFree
    <3>1. GroupOf(board[ws[i][k]]) # GroupOf(board[ws[i][l]])
      BY <2>8 DEF Laid, Apart
    <3>2. \A m \in DOMAIN ws[i] : ws[i][m] \in DOMAIN board
      BY <2>11
    <3> QED BY <3>1, <3>2, LauncherRule
  <2>13. Launcher(board)!Capped(ws, cap)
    BY <2>11 DEF Launcher!Capped
  <2>14. Launcher(board)!Settled(ws, cap)
    <3> SUFFICES ASSUME NEW i \in DOMAIN ws, NEW k \in DOMAIN ws[i], NEW j \in 1 .. i - 1
                 PROVE  ~Launcher(board)!Fits(ws[j], ws[i][k], cap)
      BY DEF Launcher!Settled
    <3>1. j \in DOMAIN ws /\ j < i
      BY <2>8 DEF Laid
    <3>2. ~Joins(board, ws[j], ws[i][k], cap)
      BY <2>8, <2>11, <3>1 DEF Laid
    <3>3. ws[i][k] \in DOMAIN board /\ \A m \in DOMAIN ws[j] : ws[j][m] \in DOMAIN board
      BY <2>11, <3>1
    <3> QED BY <3>2, <3>3, LauncherRule
  <2> QED BY <2>4, <2>10, <2>12, <2>13, <2>14 DEF T
<1>2. PlanningInv /\ [Next]_vars => [Wrote("backfill") => FirstFit]_vars
  BY <1>1
<1> QED BY <1>2, PlanningSafe, PTL DEF Spec, BackfillIsFirstFit
=============================================================================
