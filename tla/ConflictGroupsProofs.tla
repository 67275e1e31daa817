------------------------ MODULE ConflictGroupsProofs ------------------------
(***************************************************************************)
(* The conflict groups of any batch: the union-find finds the components   *)
(* of overlapping files, stays as flat as its ranks say, and the names of  *)
(* the groups keep them apart.                                             *)
(***************************************************************************)
EXTENDS ConflictGroups, FiniteSetTheorems, WellFoundedInduction, TLAPS

-----------------------------------------------------------------------------
(* Induction over the numbers is a fact about sets of numbers here: a      *)
(* nonempty one has a least.                                               *)
LEMMA NatLeast ==
  ASSUME NEW T \in SUBSET Nat, T # {}
  PROVE  \E x \in T : \A y \in T : x <= y
<1> DEFINE R == OpToRel(<, Nat)
<1>1. IsWellFoundedOn(R, Nat)
  BY NatLessThanWellFounded
<1>2. \A x, y \in Nat : <<y, x>> \in R <=> y < x
  BY DEF OpToRel
<1> HIDE DEF R
<1>3. PICK x \in T : \A y \in T : ~ (<<y, x>> \in R)
  BY <1>1, WFMin
<1>4. \A y \in T : ~ (y < x)
  BY <1>2, <1>3
<1> QED BY <1>4

LEMMA NatInd ==
  ASSUME NEW S \in SUBSET Nat, 0 \in S, \A n \in S : n + 1 \in S
  PROVE  S = Nat
<1> SUFFICES ASSUME S # Nat PROVE FALSE
  OBVIOUS
<1>1. PICK x \in Nat \ S : \A y \in Nat \ S : x <= y
  BY NatLeast
<1>2. x - 1 \in Nat /\ x - 1 \notin Nat \ S
  BY <1>1
<1>3. (x - 1) + 1 \in S
  BY <1>2
<1> QED BY <1>1, <1>3

-----------------------------------------------------------------------------
(***************************************************************************)
(* The forest.  rt names the root above each task without walking to it,   *)
(* and ranks grow along the way up.                                        *)
(***************************************************************************)
Tree(n, p, rk, rt) ==
  /\ p \in [1 .. n -> 1 .. n] /\ rk \in [1 .. n -> Nat] /\ rt \in [1 .. n -> 1 .. n]
  /\ \A x \in 1 .. n :
       /\ p[rt[x]] = rt[x] /\ rt[p[x]] = rt[x] /\ (p[x] = x => rt[x] = x)
       /\ p[x] # x => rk[x] < rk[p[x]]
       /\ rt[x] # x => rk[x] < rk[rt[x]]
       /\ rk[x] < n

(* The way up from x, as find walks it.                                    *)
Climbs(n, p, x, up) ==
  /\ up[0] = x
  /\ \A k \in 0 .. n : up[k] \in 1 .. n
  /\ \A k \in 1 .. n : up[k] = p[up[k - 1]]

LEMMA PathUnfold ==
  ASSUME NEW n \in Nat, NEW p \in [1 .. n -> 1 .. n], NEW x \in 1 .. n
  PROVE  \E up : Climbs(n, p, x, up) /\ Path(p, x) = {up[k] : k \in 0 .. n}
<1> DEFINE Of(f, k) == IF k = 0 THEN x ELSE p[f[k - 1]]
           UpTo(f, m) == f = [k \in 0 .. m |-> Of(f, k)]
           U == {m \in Nat : \E f : UpTo(f, m)}
<1>0. Len(p) = n
  OBVIOUS
<1>1. 0 \in U
  <2>1. UpTo([k \in 0 .. 0 |-> x], 0)
    OBVIOUS
  <2> QED BY <2>1
<1>2. ASSUME NEW m \in U PROVE m + 1 \in U
  <2>1. PICK f : UpTo(f, m)
    BY <1>2
  <2> DEFINE g == [k \in 0 .. m + 1 |-> IF k = m + 1 THEN Of(f, k) ELSE f[k]]
             h == [k \in 0 .. m + 1 |-> Of(g, k)]
  <2>2. ASSUME NEW k \in 0 .. m + 1 PROVE g[k] = h[k]
    <3>0. m \in Nat
      OBVIOUS
    <3>1. g[k] = Of(f, k)
      <4>1. CASE k = m + 1
        BY <4>1
      <4>2. CASE k \in 0 .. m
        <5>1. f[k] = Of(f, k)
          BY <2>1, <4>2
        <5> QED BY <3>0, <4>2, <5>1
      <4> QED BY <3>0, <4>1, <4>2
    <3>2. k # 0 => g[k - 1] = f[k - 1]
      BY <3>0
    <3>3. h[k] = Of(g, k)
      OBVIOUS
    <3> QED BY <3>1, <3>2, <3>3
  <2>3. g = h
    BY <2>2
  <2>4. UpTo(g, m + 1)
    BY <2>3
  <2> HIDE DEF UpTo
  <2> QED BY <2>4
<1>3. U = Nat
  <2> HIDE DEF U
  <2>1. U \in SUBSET Nat
    BY DEF U
  <2> QED BY <1>1, <1>2, <2>1, NatInd
<1>4. PICK g : UpTo(g, n)
  <2>1. n \in U
    BY <1>3
  <2> QED BY <2>1
<1> DEFINE up == CHOOSE f : UpTo(f, n)
<1>5. Path(p, x) = {up[k] : k \in 0 .. n}
  BY <1>0 DEF Path
<1>6. UpTo(up, n)
  <2> HIDE DEF UpTo
  <2> QED BY <1>4
<1> HIDE DEF up
<1>7. up[0] = x
  BY <1>6
<1>8. ASSUME NEW k \in 1 .. n PROVE up[k] = p[up[k - 1]]
  <2>1. k \in 0 .. n /\ k # 0
    OBVIOUS
  <2>2. up[k] = Of(up, k)
    BY <1>6, <2>1
  <2> QED BY <2>1, <2>2
<1> DEFINE V == {m \in Nat : m <= n => up[m] \in 1 .. n}
<1>9. V = Nat
  <2>1. 0 \in V
    BY <1>7
  <2>2. ASSUME NEW m \in V PROVE m + 1 \in V
    <3> SUFFICES ASSUME m + 1 <= n PROVE up[m + 1] \in 1 .. n
      OBVIOUS
    <3>1. m + 1 \in 1 .. n /\ (m + 1) - 1 = m /\ up[m] \in 1 .. n
      OBVIOUS
    <3>2. up[m + 1] = p[up[m]]
      BY <1>8, <3>1
    <3> QED BY <3>1, <3>2
  <2> HIDE DEF V
  <2>3. V \in SUBSET Nat
    BY DEF V
  <2> QED BY <2>1, <2>2, <2>3, NatInd
<1>10. ASSUME NEW k \in 0 .. n PROVE up[k] \in 1 .. n
  <2>1. k \in V /\ k <= n
    <3> HIDE DEF V
    <3> QED BY <1>9
  <2> QED BY <2>1
<1>11. Climbs(n, p, x, up)
  BY <1>7, <1>8, <1>10 DEF Climbs
<1> QED BY <1>5, <1>11

(* On the way up, the root stays the same, and each step is higher than    *)
(* the one before or at the root already.                                  *)
LEMMA Climbing ==
  ASSUME NEW n \in Nat, NEW p, NEW rk, NEW rt, Tree(n, p, rk, rt),
         NEW x \in 1 .. n, NEW up, Climbs(n, p, x, up), NEW k \in 0 .. n
  PROVE  /\ rt[up[k]] = rt[x] /\ rk[up[k]] \in Nat
         /\ up[k] = rt[x] \/ rk[up[k]] >= k
<1> DEFINE Good(m) == /\ rt[up[m]] = rt[x]
                      /\ up[m] = rt[x] \/ rk[up[m]] >= m
           U == {m \in Nat : m <= n => Good(m)}
<1>1. 0 \in U
  BY DEF Climbs, Tree
<1>2. ASSUME NEW m \in U PROVE m + 1 \in U
  <2> SUFFICES ASSUME m + 1 <= n PROVE Good(m + 1)
    OBVIOUS
  <2>1. m + 1 \in 1 .. n /\ (m + 1) - 1 = m /\ m \in 0 .. n /\ m \in Nat /\ Good(m)
    OBVIOUS
  <2> HIDE DEF U
  <2>2. up[m] \in 1 .. n /\ up[m + 1] = p[up[m]] /\ up[m + 1] \in 1 .. n
    <3>1. m + 1 \in 0 .. n
      BY <2>1
    <3> QED BY <2>1, <3>1 DEF Climbs
  <2>3. rt[up[m + 1]] = rt[x]
    BY <2>1, <2>2 DEF Tree
  <2>4. CASE up[m] = rt[x]
    <3>1. p[rt[x]] = rt[x]
      BY DEF Tree
    <3> QED BY <2>2, <2>3, <2>4, <3>1
  <2>5. CASE up[m] # rt[x]
    <3>1. rk[up[m]] >= m /\ rk[up[m]] \in Nat /\ rk[up[m + 1]] \in Nat
      BY <2>1, <2>2, <2>5 DEF Tree
    <3>2. p[up[m]] # up[m]
      <4>1. p[up[m]] = up[m] => rt[up[m]] = up[m]
        BY <2>2 DEF Tree
      <4> QED BY <2>1, <2>5, <4>1
    <3>3. rk[up[m]] < rk[up[m + 1]]
      BY <2>2, <3>2 DEF Tree
    <3>4. rk[up[m + 1]] >= m + 1
      BY <2>1, <3>1, <3>3
    <3> QED BY <2>3, <3>4
  <2> QED BY <2>4, <2>5
<1>3. U = Nat
  <2> HIDE DEF U
  <2>1. U \in SUBSET Nat
    BY DEF U
  <2> QED BY <1>1, <1>2, <2>1, NatInd
<1>4. Good(k)
  BY <1>3
<1>5. rk[up[k]] \in Nat
  BY DEF Tree, Climbs
<1> QED BY <1>4, <1>5

(* find finds the root.                                                    *)
LEMMA PathRoot ==
  ASSUME NEW n \in Nat, NEW p, NEW rk, NEW rt, Tree(n, p, rk, rt), NEW x \in 1 .. n
  PROVE  /\ Root(p, x) = rt[x] /\ rt[x] \in Path(p, x)
         /\ \A y \in Path(p, x) : y \in 1 .. n /\ rt[y] = rt[x]
<1>1. PICK up : Climbs(n, p, x, up) /\ Path(p, x) = {up[k] : k \in 0 .. n}
  BY PathUnfold DEF Tree
<1>2. \A y \in Path(p, x) : y \in 1 .. n /\ rt[y] = rt[x]
  BY <1>1, Climbing DEF Climbs
<1>3. rt[x] \in Path(p, x)
  <2>1. n \in 0 .. n /\ up[n] \in 1 .. n
    BY <1>1 DEF Climbs
  <2>2. rk[up[n]] < n /\ rk[up[n]] \in Nat
    BY <2>1 DEF Tree
  <2>3. up[n] = rt[x] \/ rk[up[n]] >= n
    BY <1>1, <2>1, Climbing
  <2>4. up[n] = rt[x]
    BY <2>2, <2>3
  <2> QED BY <1>1, <2>1, <2>4
<1>4. p[rt[x]] = rt[x]
  BY DEF Tree
<1>5. \A y \in Path(p, x) : p[y] = y => y = rt[x]
  BY <1>2 DEF Tree
<1>6. Root(p, x) = rt[x]
  BY <1>3, <1>4, <1>5 DEF Root
<1> QED BY <1>2, <1>3, <1>6

(* Path compression leaves the roots where they are.                       *)
LEMMA FindTree ==
  ASSUME NEW n \in Nat, NEW p, NEW rk, NEW rt, Tree(n, p, rk, rt), NEW x \in 1 .. n
  PROVE  Tree(n, find(p, x), rk, rt)
<1> DEFINE q == find(p, x)
<1>1. /\ Root(p, x) = rt[x]
      /\ \A y \in Path(p, x) : y \in 1 .. n /\ rt[y] = rt[x]
  BY PathRoot
<1>2. DOMAIN p = 1 .. n /\ rt[x] \in 1 .. n
  BY DEF Tree
<1>3. q = [y \in 1 .. n |-> IF y \in Path(p, x) THEN rt[x] ELSE p[y]]
  BY <1>1, <1>2 DEF find
<1> HIDE DEF q
<1>4. \A y \in 1 .. n : q[y] = IF y \in Path(p, x) THEN rt[y] ELSE p[y]
  BY <1>1, <1>3
<1>5. q \in [1 .. n -> 1 .. n]
  BY <1>2, <1>3 DEF Tree
<1>6. ASSUME NEW y \in 1 .. n
      PROVE  /\ q[rt[y]] = rt[y] /\ rt[q[y]] = rt[y] /\ (q[y] = y => rt[y] = y)
             /\ q[y] # y => rk[y] < rk[q[y]]
  <2>1. rt[y] \in 1 .. n /\ p[rt[y]] = rt[y] /\ rt[rt[y]] = rt[y]
    BY DEF Tree
  <2>2. CASE y \in Path(p, x)
    BY <1>4, <2>1, <2>2 DEF Tree
  <2>3. CASE y \notin Path(p, x)
    BY <1>4, <2>1, <2>3 DEF Tree
  <2> QED BY <2>2, <2>3
<1>7. Tree(n, q, rk, rt)
  BY <1>5, <1>6 DEF Tree
<1> QED BY <1>7 DEF q

(* Once at the root the walk stays there, and before it climbs.            *)
LEMMA ClimbsOn ==
  ASSUME NEW n \in Nat, NEW p, NEW rk, NEW rt, Tree(n, p, rk, rt),
         NEW x \in 1 .. n, NEW up, Climbs(n, p, x, up), NEW j \in 0 .. n, NEW k \in j .. n
  PROVE  up[k] = up[j] \/ rk[up[j]] < rk[up[k]]
<1> DEFINE Good(m) == up[j + m] = up[j] \/ rk[up[j]] < rk[up[j + m]]
           U == {m \in Nat : j + m <= n => Good(m)}
<1>1. 0 \in U
  OBVIOUS
<1>2. ASSUME NEW m \in U PROVE m + 1 \in U
  <2> SUFFICES ASSUME j + (m + 1) <= n PROVE Good(m + 1)
    OBVIOUS
  <2>1. m \in Nat /\ j + m \in 0 .. n /\ j + m + 1 \in 1 .. n /\ j + m + 1 = j + (m + 1)
        /\ (j + m + 1) - 1 = j + m
    OBVIOUS
  <2>2. Good(m)
    <3>1. j + m <= n
      BY <2>1
    <3> QED BY <3>1
  <2> HIDE DEF U
  <2> DEFINE y == up[j + m]
             z == up[j + m + 1]
  <2>3. y \in 1 .. n /\ z \in 1 .. n /\ z = p[y] /\ up[j] \in 1 .. n
    <3>1. j + m + 1 \in 0 .. n
      BY <2>1
    <3> QED BY <2>1, <3>1 DEF Climbs
  <2>4. rk[up[j]] \in Nat /\ rk[y] \in Nat /\ rk[z] \in Nat
    BY <2>3 DEF Tree
  <2>5. z = y \/ rk[y] < rk[z]
    BY <2>3 DEF Tree
  <2> HIDE DEF y, z
  <2>6. y = up[j] \/ rk[up[j]] < rk[y]
    BY <2>2 DEF y
  <2>7. z = up[j] \/ rk[up[j]] < rk[z]
    BY <2>4, <2>5, <2>6
  <2> QED BY <2>1, <2>7 DEF z
<1>3. U = Nat
  <2> HIDE DEF U
  <2>1. U \in SUBSET Nat
    BY DEF U
  <2> QED BY <1>1, <1>2, <2>1, NatInd
<1>4. k - j \in Nat /\ j + (k - j) = k /\ k <= n
  OBVIOUS
<1>5. k - j \in U
  <2> HIDE DEF U
  <2> QED BY <1>3, <1>4
<1>6. Good(k - j)
  BY <1>4, <1>5
<1> QED BY <1>4, <1>6

(* No task is deeper than the rank of its root.                            *)
LEMMA PathShort ==
  ASSUME NEW n \in Nat, NEW p, NEW rk, NEW rt, Tree(n, p, rk, rt), NEW x \in 1 .. n
  PROVE  Cardinality(Path(p, x)) <= rk[rt[x]] + 1
<1> DEFINE top == rk[rt[x]]
<1>1. PICK up : Climbs(n, p, x, up) /\ Path(p, x) = {up[k] : k \in 0 .. n}
  BY PathUnfold DEF Tree
<1>2. \A y \in Path(p, x) : y \in 1 .. n /\ rt[y] = rt[x]
  BY PathRoot
<1>3. top \in Nat
  BY DEF Tree
<1>4. ASSUME NEW y \in Path(p, x) PROVE rk[y] \in 0 .. top
  <2>1. rk[y] \in Nat /\ (y = rt[x] \/ rk[y] < top)
    BY <1>2 DEF Tree
  <2> QED BY <1>3, <2>1
<1>5. ASSUME NEW y \in Path(p, x), NEW z \in Path(p, x), rk[y] = rk[z] PROVE y = z
  <2>1. PICK j \in 0 .. n : y = up[j]
    BY <1>1
  <2>2. PICK k \in 0 .. n : z = up[k]
    BY <1>1
  <2>3. rk[y] \in Nat /\ rk[z] \in Nat
    BY <1>2 DEF Tree
  <2>4. CASE j <= k
    <3>1. k \in j .. n
      BY <2>4
    <3>2. up[k] = up[j] \/ rk[up[j]] < rk[up[k]]
      BY <1>1, <3>1, ClimbsOn
    <3> QED BY <1>5, <2>1, <2>2, <2>3, <3>2
  <2>5. CASE k <= j
    <3>1. j \in k .. n
      BY <2>5
    <3>2. up[j] = up[k] \/ rk[up[k]] < rk[up[j]]
      BY <1>1, <3>1, ClimbsOn
    <3> QED BY <1>5, <2>1, <2>2, <2>3, <3>2
  <2> QED BY <2>4, <2>5
<1>6. IsFiniteSet(Path(p, x)) /\ Cardinality(Path(p, x)) \in Nat
  <2>1. IsFiniteSet(1 .. n) /\ Path(p, x) \in SUBSET (1 .. n)
    BY <1>2, FS_Interval
  <2> QED BY <2>1, FS_Subset, FS_CardinalityType
<1>7. IsFiniteSet(0 .. top) /\ Cardinality(0 .. top) = top + 1
  <2> HIDE DEF top
  <2>1. 0 \in Int /\ top \in Int /\ ~(0 > top) /\ top - 0 + 1 = top + 1
    BY <1>3
  <2> QED BY <2>1, FS_Interval
<1> DEFINE height == [y \in Path(p, x) |-> rk[y]]
<1>8. height \in [Path(p, x) -> 0 .. top]
  BY <1>4
<1>9. ~ \E y, z \in Path(p, x) : y # z /\ height[y] = height[z]
  BY <1>5
<1> HIDE DEF height, top
<1>10. ~(Cardinality(0 .. top) < Cardinality(Path(p, x)))
  BY <1>6, <1>7, <1>8, <1>9, FS_PigeonHole
<1>11. Cardinality(Path(p, x)) <= top + 1
  BY <1>3, <1>6, <1>7, <1>10
<1> QED BY <1>11 DEF top

-----------------------------------------------------------------------------
(* Powers of two, as the recursion says.                                   *)
LEMMA Powers ==
  /\ PowerOfTwo[0] = 1
  /\ \A k \in Nat : PowerOfTwo[k + 1] = 2 * PowerOfTwo[k]
<1> DEFINE Of(f, k) == IF k = 0 THEN 1 ELSE 2 * f[k - 1]
           UpTo(f, m) == f = [k \in 0 .. m |-> Of(f, k)]
           Whole(f) == f = [k \in Nat |-> Of(f, k)]
           U == {m \in Nat : \E f : UpTo(f, m)}
<1>1. 0 \in U
  <2>1. UpTo([k \in 0 .. 0 |-> 1], 0)
    OBVIOUS
  <2> QED BY <2>1
<1>2. ASSUME NEW m \in U PROVE m + 1 \in U
  <2>1. PICK f : UpTo(f, m)
    BY <1>2
  <2> DEFINE g == [k \in 0 .. m + 1 |-> IF k = m + 1 THEN Of(f, k) ELSE f[k]]
             h == [k \in 0 .. m + 1 |-> Of(g, k)]
  <2>2. ASSUME NEW k \in 0 .. m + 1 PROVE g[k] = h[k]
    <3>0. m \in Nat
      OBVIOUS
    <3>1. g[k] = Of(f, k)
      <4>1. CASE k = m + 1
        BY <4>1
      <4>2. CASE k \in 0 .. m
        <5>1. f[k] = Of(f, k)
          BY <2>1, <4>2
        <5> QED BY <3>0, <4>2, <5>1
      <4> QED BY <3>0, <4>1, <4>2
    <3>2. k # 0 => g[k - 1] = f[k - 1]
      BY <3>0
    <3>3. h[k] = Of(g, k)
      OBVIOUS
    <3> QED BY <3>1, <3>2, <3>3
  <2>3. g = h
    BY <2>2
  <2>4. UpTo(g, m + 1)
    BY <2>3
  <2> HIDE DEF UpTo
  <2> QED BY <2>4
<1>3. U = Nat
  <2> HIDE DEF U
  <2>1. U \in SUBSET Nat
    BY DEF U
  <2> QED BY <1>1, <1>2, <2>1, NatInd
<1>4. ASSUME NEW a \in Nat, NEW b \in Nat, NEW f, UpTo(f, a), NEW g, UpTo(g, b)
      PROVE  \A k \in Nat : k <= a /\ k <= b => f[k] = g[k]
  <2> DEFINE V == {k \in Nat : k <= a /\ k <= b => f[k] = g[k]}
  <2>1. 0 \in V
    <3>1. 0 \in 0 .. a /\ 0 \in 0 .. b
      OBVIOUS
    <3>2. f[0] = Of(f, 0) /\ g[0] = Of(g, 0)
      BY <1>4, <3>1
    <3> QED BY <3>2
  <2>2. ASSUME NEW k \in V PROVE k + 1 \in V
    <3> SUFFICES ASSUME k + 1 <= a, k + 1 <= b PROVE f[k + 1] = g[k + 1]
      OBVIOUS
    <3>1. k + 1 \in 0 .. a /\ k + 1 \in 0 .. b /\ k + 1 # 0 /\ (k + 1) - 1 = k /\ k <= a /\ k <= b
      OBVIOUS
    <3>2. f[k] = g[k]
      BY <3>1
    <3>3. f[k + 1] = Of(f, k + 1) /\ g[k + 1] = Of(g, k + 1)
      BY <1>4, <3>1
    <3> QED BY <3>1, <3>2, <3>3
  <2>3. V = Nat
    <3> HIDE DEF V
    <3>1. V \in SUBSET Nat
      BY DEF V
    <3> QED BY <2>1, <2>2, <3>1, NatInd
  <2> QED BY <2>3
<1> DEFINE at(m) == CHOOSE f : UpTo(f, m)
           whole == [k \in Nat |-> at(k)[k]]
<1>5. ASSUME NEW m \in Nat PROVE UpTo(at(m), m)
  <2> HIDE DEF UpTo
  <2>1. m \in U
    BY <1>3
  <2> QED BY <2>1
<1>6. ASSUME NEW k \in Nat PROVE whole[k] = Of(whole, k)
  <2> HIDE DEF at
  <2>1. k \in 0 .. k
    OBVIOUS
  <2>2. at(k)[k] = Of(at(k), k)
    BY <1>5, <2>1
  <2>3. ASSUME k # 0 PROVE at(k)[k - 1] = at(k - 1)[k - 1]
    <3>1. k - 1 \in Nat /\ k - 1 <= k /\ k - 1 <= k - 1
      BY <2>3
    <3>2. UpTo(at(k), k) /\ UpTo(at(k - 1), k - 1)
      BY <1>5, <3>1
    <3> HIDE DEF UpTo
    <3> QED BY <1>4, <3>1, <3>2
  <2> QED BY <2>2, <2>3
<1>7. Whole(whole)
  <2> DEFINE h == [k \in Nat |-> Of(whole, k)]
  <2>1. \A k \in Nat : whole[k] = h[k]
    BY <1>6
  <2> HIDE DEF at
  <2>2. whole = h
    BY <2>1
  <2> QED BY <2>2
<1>8. PowerOfTwo = CHOOSE f : Whole(f)
  BY DEF PowerOfTwo
<1>9. Whole(PowerOfTwo)
  <2> HIDE DEF Whole, whole
  <2> QED BY <1>7, <1>8
<1>10. \A k \in Nat : PowerOfTwo[k] = Of(PowerOfTwo, k)
  BY <1>9
<1>11. PowerOfTwo[0] = 1
  BY <1>10
<1>12. ASSUME NEW k \in Nat PROVE PowerOfTwo[k + 1] = 2 * PowerOfTwo[k]
  <2>1. k + 1 \in Nat /\ k + 1 # 0 /\ (k + 1) - 1 = k
    OBVIOUS
  <2>2. PowerOfTwo[k + 1] = Of(PowerOfTwo, k + 1)
    BY <1>10, <2>1
  <2> QED BY <2>1, <2>2
<1> QED BY <1>11, <1>12

LEMMA PowersGrow ==
  ASSUME NEW k \in Nat
  PROVE  PowerOfTwo[k] \in Nat /\ PowerOfTwo[k] > k
<1> DEFINE U == {m \in Nat : PowerOfTwo[m] \in Nat /\ PowerOfTwo[m] > m}
<1>1. 0 \in U
  BY Powers
<1>2. ASSUME NEW m \in U PROVE m + 1 \in U
  <2>1. m \in Nat /\ PowerOfTwo[m] \in Nat /\ PowerOfTwo[m] > m
    OBVIOUS
  <2>2. PowerOfTwo[m + 1] = 2 * PowerOfTwo[m]
    BY Powers
  <2>3. PowerOfTwo[m + 1] \in Nat /\ PowerOfTwo[m + 1] > m + 1
    BY <2>1, <2>2
  <2> QED BY <2>1, <2>3
<1>3. U = Nat
  <2> HIDE DEF U
  <2>1. U \in SUBSET Nat
    BY DEF U
  <2> QED BY <1>1, <1>2, <2>1, NatInd
<1> QED BY <1>3

-----------------------------------------------------------------------------
(***************************************************************************)
(* Linking root a below root b, which gets rank m.                         *)
(***************************************************************************)
Under(n, rt, r) == {x \in 1 .. n : rt[x] = r}

Weighed(n, rk, rt) == \A x \in 1 .. n : PowerOfTwo[rk[rt[x]]] <= Cardinality(Under(n, rt, rt[x]))

Merged(n, rt, a, b) == [x \in 1 .. n |-> IF rt[x] = a THEN b ELSE rt[x]]

LEMMA LinkTree ==
  ASSUME NEW n \in Nat, NEW p, NEW rk, NEW rt, Tree(n, p, rk, rt),
         NEW a \in 1 .. n, NEW b \in 1 .. n, a # b, p[a] = a, p[b] = b,
         NEW m \in Nat, m > rk[a], m >= rk[b], m < n
  PROVE  Tree(n, [p EXCEPT ![a] = b], [rk EXCEPT ![b] = m], Merged(n, rt, a, b))
<1> DEFINE q == [p EXCEPT ![a] = b]
           kr == [rk EXCEPT ![b] = m]
           tr == Merged(n, rt, a, b)
<1>1. rt[a] = a /\ rt[b] = b /\ rk[a] \in Nat /\ rk[b] \in Nat
  BY DEF Tree
<1>2. q \in [1 .. n -> 1 .. n] /\ kr \in [1 .. n -> Nat] /\ tr \in [1 .. n -> 1 .. n]
  BY DEF Tree, Merged
<1>3. /\ \A x \in 1 .. n : q[x] = IF x = a THEN b ELSE p[x]
      /\ \A x \in 1 .. n : kr[x] = IF x = b THEN m ELSE rk[x]
      /\ \A x \in 1 .. n : tr[x] = IF rt[x] = a THEN b ELSE rt[x]
  BY DEF Tree, Merged
<1> HIDE DEF q, kr, tr
<1>4. ASSUME NEW x \in 1 .. n
      PROVE  /\ q[tr[x]] = tr[x] /\ tr[q[x]] = tr[x] /\ (q[x] = x => tr[x] = x)
             /\ q[x] # x => kr[x] < kr[q[x]]
             /\ tr[x] # x => kr[x] < kr[tr[x]]
             /\ kr[x] < n
  <2>1. /\ p[x] \in 1 .. n /\ rt[x] \in 1 .. n /\ rk[x] \in Nat
        /\ p[rt[x]] = rt[x] /\ rt[p[x]] = rt[x] /\ (p[x] = x => rt[x] = x)
        /\ p[x] # x => rk[x] < rk[p[x]]
        /\ rt[x] # x => rk[x] < rk[rt[x]]
        /\ rk[x] < n
    BY DEF Tree
  <2>2. rk[p[x]] \in Nat /\ rk[rt[x]] \in Nat
    BY <2>1 DEF Tree
  <2>3. q[tr[x]] = tr[x]
    BY <1>1, <1>3, <2>1
  <2>4. tr[q[x]] = tr[x]
    BY <1>1, <1>3, <2>1
  <2>5. q[x] = x => tr[x] = x
    BY <1>1, <1>3, <2>1
  <2>6. kr[x] < n
    BY <1>3, <2>1
  <2>7. ASSUME q[x] # x PROVE kr[x] < kr[q[x]]
    <3>1. CASE x = a
      BY <1>1, <1>3, <3>1
    <3>2. CASE x # a
      <4>1. q[x] = p[x] /\ x # b /\ kr[x] = rk[x] /\ rk[x] < rk[p[x]]
        BY <1>3, <2>1, <2>7, <3>2
      <4>2. kr[p[x]] >= rk[p[x]]
        BY <1>1, <1>3, <2>1, <2>2
      <4>3. kr[p[x]] \in Nat
        BY <1>2, <2>1
      <4> QED BY <2>1, <2>2, <4>1, <4>2, <4>3
    <3> QED BY <3>1, <3>2
  <2>8. ASSUME tr[x] # x PROVE kr[x] < kr[tr[x]]
    <3>1. CASE rt[x] = a
      <4>1. x # b /\ kr[x] = rk[x] /\ kr[tr[x]] = m
        BY <1>1, <1>3, <3>1
      <4>2. rk[x] <= rk[a]
        BY <1>1, <2>1, <3>1
      <4> QED BY <1>1, <2>1, <4>1, <4>2
    <3>2. CASE rt[x] # a
      <4>1. tr[x] = rt[x] /\ x # b /\ kr[x] = rk[x] /\ rk[x] < rk[rt[x]]
        BY <1>1, <1>3, <2>1, <2>8, <3>2
      <4>2. kr[rt[x]] >= rk[rt[x]]
        BY <1>1, <1>3, <2>1, <2>2
      <4>3. kr[rt[x]] \in Nat
        BY <1>2, <2>1
      <4> QED BY <2>1, <2>2, <4>1, <4>2, <4>3
    <3> QED BY <3>1, <3>2
  <2> QED BY <2>3, <2>4, <2>5, <2>6, <2>7, <2>8
<1>5. Tree(n, q, kr, tr)
  BY <1>2, <1>4 DEF Tree
<1> QED BY <1>5 DEF q, kr, tr

LEMMA UnderFinite ==
  ASSUME NEW n \in Nat, NEW rt, NEW r
  PROVE  IsFiniteSet(Under(n, rt, r)) /\ Cardinality(Under(n, rt, r)) \in Nat
<1>1. IsFiniteSet(1 .. n) /\ Under(n, rt, r) \in SUBSET (1 .. n)
  BY FS_Interval DEF Under
<1> QED BY <1>1, FS_Subset, FS_CardinalityType

LEMMA LinkWeighed ==
  ASSUME NEW n \in Nat, NEW p, NEW rk, NEW rt, Tree(n, p, rk, rt), Weighed(n, rk, rt),
         NEW a \in 1 .. n, NEW b \in 1 .. n, a # b, p[a] = a, p[b] = b,
         NEW m \in Nat,
         PowerOfTwo[m] <= Cardinality(Under(n, rt, a)) + Cardinality(Under(n, rt, b))
  PROVE  Weighed(n, [rk EXCEPT ![b] = m], Merged(n, rt, a, b)) /\ m < n
<1> DEFINE kr == [rk EXCEPT ![b] = m]
           tr == Merged(n, rt, a, b)
           A == Under(n, rt, a)
           B == Under(n, rt, b)
<1>1. rt[a] = a /\ rt[b] = b
  BY DEF Tree
<1>2. /\ \A x \in 1 .. n : kr[x] = IF x = b THEN m ELSE rk[x]
      /\ \A x \in 1 .. n : tr[x] = IF rt[x] = a THEN b ELSE rt[x]
  BY DEF Tree, Merged
<1>3. \A x \in 1 .. n : rt[x] \in 1 .. n
  BY DEF Tree
<1> HIDE DEF kr, tr
<1>4. Under(n, tr, b) = A \cup B /\ A \cap B = {}
  BY <1>1, <1>2 DEF Under
<1>5. Cardinality(A \cup B) = Cardinality(A) + Cardinality(B)
  <2>1. IsFiniteSet(A) /\ IsFiniteSet(B) /\ Cardinality(A) \in Nat /\ Cardinality(B) \in Nat
    BY UnderFinite
  <2> HIDE DEF A, B
  <2>2. Cardinality(A \cup B) = Cardinality(A) + Cardinality(B) - Cardinality(A \cap B)
    BY <2>1, FS_Union
  <2>3. Cardinality(A \cap B) = 0
    BY <1>4, FS_EmptySet
  <2> QED BY <2>1, <2>2, <2>3
<1>6. ASSUME NEW x \in 1 .. n
      PROVE  PowerOfTwo[kr[tr[x]]] <= Cardinality(Under(n, tr, tr[x]))
  <2>1. CASE tr[x] = b
    <3>1. kr[b] = m
      BY <1>2
    <3> QED BY <1>4, <1>5, <2>1, <3>1
  <2>2. CASE tr[x] # b
    <3>1. tr[x] = rt[x] /\ rt[x] # a /\ rt[x] # b /\ kr[rt[x]] = rk[rt[x]]
      BY <1>2, <1>3, <2>2
    <3>2. Under(n, tr, rt[x]) = Under(n, rt, rt[x])
      BY <1>2, <3>1 DEF Under
    <3> QED BY <3>1, <3>2 DEF Weighed
  <2> QED BY <2>1, <2>2
<1>7. m < n
  <2>1. IsFiniteSet(1 .. n) /\ Cardinality(1 .. n) = n
    <3>1. 1 \in Int /\ n \in Int
      OBVIOUS
    <3>2. IsFiniteSet(1 .. n) /\ Cardinality(1 .. n) = IF 1 > n THEN 0 ELSE n - 1 + 1
      BY <3>1, FS_Interval
    <3>3. (IF 1 > n THEN 0 ELSE n - 1 + 1) = n
      OBVIOUS
    <3> QED BY <3>2, <3>3
  <2>2. A \cup B \in SUBSET (1 .. n)
    BY DEF Under
  <2>3. Cardinality(A \cup B) <= n /\ Cardinality(A \cup B) \in Nat
    BY <2>1, <2>2, FS_Subset, FS_CardinalityType
  <2>4. PowerOfTwo[m] \in Nat /\ PowerOfTwo[m] > m
    BY PowersGrow
  <2> HIDE DEF A, B
  <2>5. PowerOfTwo[m] <= Cardinality(A \cup B)
    BY <1>5 DEF A, B
  <2> QED BY <2>3, <2>4, <2>5
<1>8. Weighed(n, kr, tr)
  BY <1>6 DEF Weighed
<1> QED BY <1>7, <1>8 DEF kr, tr

(* What union does: it merges the classes of a and b, and only those.      *)
Unites(n, rt, tr, a, b) ==
  \A x, y \in 1 .. n :
    tr[x] = tr[y] <=> \/ rt[x] = rt[y]
                      \/ rt[x] \in {rt[a], rt[b]} /\ rt[y] \in {rt[a], rt[b]}

LEMMA MergedUnites ==
  ASSUME NEW n \in Nat, NEW p, NEW rk, NEW rt, Tree(n, p, rk, rt),
         NEW a \in 1 .. n, NEW b \in 1 .. n, NEW c, NEW d, {c, d} = {rt[a], rt[b]}
  PROVE  Unites(n, rt, Merged(n, rt, c, d), a, b)
<1>1. \A x \in 1 .. n : Merged(n, rt, c, d)[x] = IF rt[x] = c THEN d ELSE rt[x]
  BY DEF Merged
<1>2. c \in {rt[a], rt[b]} /\ d \in {rt[a], rt[b]} /\ rt[a] \in {c, d} /\ rt[b] \in {c, d}
  OBVIOUS
<1>3. ASSUME NEW x \in 1 .. n, NEW y \in 1 .. n
      PROVE  Merged(n, rt, c, d)[x] = Merged(n, rt, c, d)[y] <=>
               \/ rt[x] = rt[y]
               \/ rt[x] \in {c, d} /\ rt[y] \in {c, d}
  BY <1>1
<1> QED BY <1>3 DEF Unites

Forest(n, p, rk, rt) == Tree(n, p, rk, rt) /\ Weighed(n, rk, rt)

LEMMA LinkForest ==
  ASSUME NEW n \in Nat, NEW p, NEW rk, NEW rt, Forest(n, p, rk, rt),
         NEW a \in 1 .. n, NEW b \in 1 .. n, a # b, p[a] = a, p[b] = b,
         NEW m \in Nat, m > rk[a], m >= rk[b],
         PowerOfTwo[m] <= Cardinality(Under(n, rt, a)) + Cardinality(Under(n, rt, b))
  PROVE  Forest(n, [p EXCEPT ![a] = b], [rk EXCEPT ![b] = m], Merged(n, rt, a, b))
<1>1. Tree(n, p, rk, rt) /\ Weighed(n, rk, rt)
  BY DEF Forest
<1>2. Weighed(n, [rk EXCEPT ![b] = m], Merged(n, rt, a, b)) /\ m < n
  BY <1>1, LinkWeighed
<1>3. Tree(n, [p EXCEPT ![a] = b], [rk EXCEPT ![b] = m], Merged(n, rt, a, b))
  BY <1>1, <1>2, LinkTree
<1> QED BY <1>2, <1>3 DEF Forest

LEMMA UnionUnites ==
  ASSUME NEW n \in Nat, NEW rt, Forest(n, parent, rank, rt),
         NEW a \in 1 .. n, NEW b \in 1 .. n, union(a, b)
  PROVE  \E tr : Forest(n, parent', rank', tr) /\ Unites(n, rt, tr, a, b)
<1> DEFINE p == find(find(parent, a), b)
           ra == rt[a]
           rb == rt[b]
<1>1. Tree(n, parent, rank, rt) /\ Weighed(n, rank, rt)
  BY DEF Forest
<1>2. Tree(n, find(parent, a), rank, rt)
  BY <1>1, FindTree
<1>3. Tree(n, p, rank, rt)
  BY <1>2, FindTree
<1>4. Root(parent, a) = ra /\ Root(parent, b) = rb
  BY <1>1, PathRoot
<1>5. /\ ra \in 1 .. n /\ rb \in 1 .. n /\ p[ra] = ra /\ p[rb] = rb
      /\ rank[ra] \in Nat /\ rank[rb] \in Nat /\ rank \in [1 .. n -> Nat]
      /\ rt \in [1 .. n -> 1 .. n]
  BY <1>3 DEF Tree
<1>6. /\ PowerOfTwo[rank[ra]] <= Cardinality(Under(n, rt, ra))
      /\ PowerOfTwo[rank[rb]] <= Cardinality(Under(n, rt, rb))
  BY <1>1 DEF Weighed
<1>7. /\ Cardinality(Under(n, rt, ra)) \in Nat /\ Cardinality(Under(n, rt, rb)) \in Nat
      /\ PowerOfTwo[rank[ra]] \in Nat /\ PowerOfTwo[rank[rb]] \in Nat
      /\ PowerOfTwo[rank[ra] + 1] = 2 * PowerOfTwo[rank[ra]]
  BY <1>5, UnderFinite, PowersGrow, Powers
<1> DEFINE ua == Cardinality(Under(n, rt, ra))
           ub == Cardinality(Under(n, rt, rb))
           wa == PowerOfTwo[rank[ra]]
           wb == PowerOfTwo[rank[rb]]
<1>20. /\ ua \in Nat /\ ub \in Nat /\ wa \in Nat /\ wb \in Nat /\ wa <= ua /\ wb <= ub
       /\ PowerOfTwo[rank[ra] + 1] = 2 * wa
  BY <1>6, <1>7
<1>21. wb <= ua + ub /\ wa <= ub + ua /\ (wa = wb => 2 * wa <= ub + ua)
  <2> HIDE DEF ua, ub, wa, wb
  <2> QED BY <1>20
<1> HIDE DEF ua, ub, wa, wb
<1>8. IF ra = rb THEN parent' = p /\ rank' = rank
      ELSE IF rank[ra] < rank[rb] THEN parent' = [p EXCEPT ![ra] = rb] /\ rank' = rank
      ELSE /\ parent' = [p EXCEPT ![rb] = ra]
           /\ rank' = IF rank[ra] = rank[rb] THEN [rank EXCEPT ![ra] = @ + 1] ELSE rank
  BY <1>4 DEF union
<1>9. Forest(n, p, rank, rt)
  BY <1>1, <1>3 DEF Forest
<1> HIDE DEF p, ra, rb
<1>10. CASE ra = rb
  <2>1. Merged(n, rt, ra, rb) = rt
    BY <1>5, <1>10 DEF Merged
  <2>2. Unites(n, rt, Merged(n, rt, ra, rb), a, b)
    BY <1>1, MergedUnites DEF ra, rb
  <2> QED BY <1>8, <1>9, <1>10, <2>1, <2>2
<1>11. CASE ra # rb /\ rank[ra] < rank[rb]
  <2>1. /\ PowerOfTwo[rank[rb]] <= Cardinality(Under(n, rt, ra)) + Cardinality(Under(n, rt, rb))
        /\ rank[rb] > rank[ra] /\ rank[rb] >= rank[rb]
    <3>1. PowerOfTwo[rank[rb]] <= Cardinality(Under(n, rt, ra)) + Cardinality(Under(n, rt, rb))
      BY <1>21 DEF ua, ub, wb
    <3>2. rank[rb] > rank[ra] /\ rank[rb] >= rank[rb]
      BY <1>5, <1>11
    <3> QED BY <3>1, <3>2
  <2>2. Forest(n, [p EXCEPT ![ra] = rb], [rank EXCEPT ![rb] = rank[rb]], Merged(n, rt, ra, rb))
    BY <1>5, <1>9, <1>11, <2>1, LinkForest
  <2>3. [rank EXCEPT ![rb] = rank[rb]] = rank
    BY <1>5
  <2>4. Unites(n, rt, Merged(n, rt, ra, rb), a, b)
    BY <1>1, MergedUnites DEF ra, rb
  <2> QED BY <1>8, <1>11, <2>2, <2>3, <2>4
<1>12. CASE ra # rb /\ ~(rank[ra] < rank[rb])
  <2> DEFINE m == IF rank[ra] = rank[rb] THEN rank[ra] + 1 ELSE rank[ra]
  <2>1. m \in Nat /\ m > rank[rb] /\ m >= rank[ra]
    <3>1. CASE rank[ra] = rank[rb]
      <4>1. m = rank[ra] + 1
        BY <3>1
      <4>2. rank[ra] \in Nat /\ rank[rb] \in Nat
        BY <1>5
      <4> HIDE DEF m
      <4>3. m \in Nat
        BY <4>1, <4>2
      <4>4. m > rank[rb]
        BY <3>1, <4>1, <4>2
      <4>5. m >= rank[ra]
        BY <4>1, <4>2
      <4> QED BY <4>3, <4>4, <4>5
    <3>2. CASE rank[ra] # rank[rb]
      <4>1. m = rank[ra]
        BY <3>2
      <4>2. rank[ra] \in Nat /\ rank[rb] \in Nat
        BY <1>5
      <4> HIDE DEF m
      <4>3. m > rank[rb]
        BY <1>12, <3>2, <4>1, <4>2
      <4> QED BY <4>1, <4>2, <4>3
    <3> QED BY <3>1, <3>2
  <2>6. PowerOfTwo[m] <= ub + ua
    <3>1. CASE rank[ra] = rank[rb]
      <4>1. PowerOfTwo[m] = 2 * wa /\ wa = wb
        BY <1>20, <3>1 DEF wa, wb
      <4> QED BY <1>21, <4>1
    <3>2. CASE rank[ra] # rank[rb]
      <4>1. PowerOfTwo[m] = wa
        BY <3>2 DEF wa
      <4> QED BY <1>21, <4>1
    <3> QED BY <3>1, <3>2
  <2>7. PowerOfTwo[m] <= Cardinality(Under(n, rt, rb)) + Cardinality(Under(n, rt, ra))
    BY <2>6 DEF ua, ub
  <2>2. rank' = [rank EXCEPT ![ra] = m]
    <3>1. CASE rank[ra] = rank[rb]
      BY <1>5, <1>8, <1>12, <3>1
    <3>2. CASE rank[ra] # rank[rb]
      BY <1>5, <1>8, <1>12, <3>2
    <3> QED BY <3>1, <3>2
  <2> HIDE DEF m
  <2>3. Forest(n, [p EXCEPT ![rb] = ra], [rank EXCEPT ![ra] = m], Merged(n, rt, rb, ra))
    BY <1>5, <1>9, <1>12, <2>1, <2>7, LinkForest
  <2>4. parent' = [p EXCEPT ![rb] = ra]
    BY <1>8, <1>12
  <2>5. Unites(n, rt, Merged(n, rt, rb, ra), a, b)
    <3>1. {rb, ra} = {rt[a], rt[b]}
      BY DEF ra, rb
    <3> QED BY <1>1, <3>1, MergedUnites
  <2> QED BY <2>2, <2>3, <2>4, <2>5
<1> QED BY <1>10, <1>11, <1>12

-----------------------------------------------------------------------------
(***************************************************************************)
(* Components: the classes of rt are those the pairs of E connect.         *)
(***************************************************************************)
Reaches(D, E, x, y) ==
  \A S \in SUBSET D :
    x \in S /\ (\A u \in S, v \in D : <<u, v>> \in E => v \in S) => y \in S

Components(D, E, rt) == \A x, y \in D : rt[x] = rt[y] <=> Reaches(D, E, x, y)

LEMMA ReachesOn ==
  ASSUME NEW D, NEW E, NEW x \in D, NEW y \in D, NEW z \in D,
         Reaches(D, E, x, y), Reaches(D, E, y, z)
  PROVE  Reaches(D, E, x, z)
BY DEF Reaches

LEMMA ReachesMore ==
  ASSUME NEW D, NEW E, NEW F, E \subseteq F, NEW x \in D, NEW y \in D, Reaches(D, E, x, y)
  PROVE  Reaches(D, F, x, y)
<1> SUFFICES ASSUME NEW S \in SUBSET D, x \in S,
                    \A u \in S, v \in D : <<u, v>> \in F => v \in S
             PROVE  y \in S
  BY DEF Reaches
<1>1. \A u \in S, v \in D : <<u, v>> \in E => v \in S
  OBVIOUS
<1> QED BY <1>1 DEF Reaches

LEMMA NewEdge ==
  ASSUME NEW n \in Nat, NEW E, NEW rt, NEW tr, Components(1 .. n, E, rt),
         NEW a \in 1 .. n, NEW b \in 1 .. n, Unites(n, rt, tr, a, b)
  PROVE  Components(1 .. n, E \cup {<<a, b>>, <<b, a>>}, tr)
<1> DEFINE D == 1 .. n
           F == E \cup {<<a, b>>, <<b, a>>}
<1>0. a \in D /\ b \in D
  OBVIOUS
<1>1. ASSUME NEW x \in D, NEW y \in D, rt[x] = rt[y] PROVE Reaches(D, F, x, y)
  <2>1. Reaches(D, E, x, y)
    BY <1>1 DEF Components
  <2> QED BY <2>1, ReachesMore
<1>2. Reaches(D, F, a, b) /\ Reaches(D, F, b, a)
  BY <1>0 DEF Reaches
<1>3. ASSUME NEW x \in D, NEW y \in D, tr[x] = tr[y] PROVE Reaches(D, F, x, y)
  <2>1. CASE rt[x] = rt[y]
    BY <1>1, <2>1
  <2>2. CASE rt[x] # rt[y]
    <3>1. rt[x] \in {rt[a], rt[b]} /\ rt[y] \in {rt[a], rt[b]}
      BY <1>3, <2>2 DEF Unites
    <3>2. CASE rt[x] = rt[a] /\ rt[y] = rt[b]
      <4>1. Reaches(D, F, x, a) /\ Reaches(D, F, b, y)
        BY <1>0, <1>1, <3>2
      <4>2. Reaches(D, F, x, b)
        BY <1>0, <1>2, <4>1, ReachesOn
      <4> QED BY <1>0, <4>1, <4>2, ReachesOn
    <3>3. CASE rt[x] = rt[b] /\ rt[y] = rt[a]
      <4>1. Reaches(D, F, x, b) /\ Reaches(D, F, a, y)
        BY <1>0, <1>1, <3>3
      <4>2. Reaches(D, F, x, a)
        BY <1>0, <1>2, <4>1, ReachesOn
      <4> QED BY <1>0, <4>1, <4>2, ReachesOn
    <3> QED BY <2>2, <3>1, <3>2, <3>3
  <2> QED BY <2>1, <2>2
<1>4. ASSUME NEW x \in D, NEW y \in D, Reaches(D, F, x, y) PROVE tr[x] = tr[y]
  <2> DEFINE S == {z \in D : tr[x] = tr[z]}
  <2>1. ASSUME NEW u \in S, NEW v \in D, <<u, v>> \in F PROVE v \in S
    <3>1. CASE <<u, v>> \in E
      <4>1. Reaches(D, E, u, v)
        BY <3>1 DEF Reaches
      <4>2. rt[u] = rt[v]
        BY <4>1 DEF Components
      <4> QED BY <4>2 DEF Unites
    <3>2. CASE {u, v} = {a, b}
      <4>1. tr[u] = tr[v]
        BY <1>0, <3>2 DEF Unites
      <4> QED BY <4>1
    <3> QED BY <2>1, <3>1, <3>2
  <2>2. S \in SUBSET D /\ x \in S
    OBVIOUS
  <2>3. y \in S
    <3> HIDE DEF S
    <3> QED BY <1>4, <2>1, <2>2 DEF Reaches
  <2> QED BY <2>3
<1> HIDE DEF D, F
<1>5. Components(D, F, tr)
  BY <1>3, <1>4 DEF Components
<1> QED BY <1>5 DEF D, F

-----------------------------------------------------------------------------
(***************************************************************************)
(* The inductive invariant.  No walk along parents is in it: the forest is *)
(* described by where each task's root is, and the sets it makes are the   *)
(* components of the overlapping pairs compared so far.                    *)
(***************************************************************************)
Listed == Len(tasks) \in Nat /\ DOMAIN tasks = 1 .. Len(tasks)

Paired ==
  /\ pair[1] \in Nat /\ pair[2] \in Nat /\ pair = <<pair[1], pair[2]>>
  /\ 1 <= pair[1] /\ pair[1] < pair[2]
  /\ pair[1] < Len(tasks) => pair[2] <= Len(tasks)

Edges == {e \in (DOMAIN tasks) \X (DOMAIN tasks) : Overlapping(e[1], e[2])}

Grouped ==
  \E rt : /\ Forest(Len(tasks), parent, rank, rt)
          /\ Components(1 .. Len(tasks), Edges, rt)

(* Groups are named after the comparing, each by a name of its own.        *)
Called ==
  /\ DOMAIN names \subseteq {r \in DOMAIN tasks : parent[r] = r}
  /\ DOMAIN names # {} => Compared
  /\ \A q, r \in DOMAIN names : names[q] = names[r] => q = r

GroupsInv == Listed /\ Paired /\ Grouped /\ Called

LEMMA OverlapBoth ==
  ASSUME NEW x, NEW y
  PROVE  routesOverlap(x, y) <=> routesOverlap(y, x)
BY DEF routesOverlap

LEMMA ConnectedIs ==
  ASSUME NEW x \in DOMAIN tasks, NEW y \in DOMAIN tasks
  PROVE  Connected(x, y) <=> Reaches(DOMAIN tasks, Edges, x, y)
<1>1. ASSUME NEW S \in SUBSET DOMAIN tasks, NEW u \in S, NEW v \in DOMAIN tasks
      PROVE  Overlapping(u, v) <=> <<u, v>> \in Edges
  <2>1. <<u, v>> \in (DOMAIN tasks) \X (DOMAIN tasks) /\ <<u, v>>[1] = u /\ <<u, v>>[2] = v
    <3> DEFINE D == DOMAIN tasks
    <3>1. u \in D /\ v \in D
      OBVIOUS
    <3> HIDE DEF D
    <3>2. <<u, v>> \in D \X D
      BY <3>1
    <3>3. <<u, v>>[1] = u /\ <<u, v>>[2] = v
      BY <3>1
    <3> QED BY <3>2, <3>3, Zenon DEF D
  <2>2. <<u, v>> \in Edges <=> Overlapping(<<u, v>>[1], <<u, v>>[2])
    BY <2>1, Zenon DEF Edges
  <2> QED BY <2>1, <2>2, Zenon
<1> QED BY <1>1 DEF Connected, Reaches

LEMMA EmptyReaches ==
  ASSUME NEW D, NEW x \in D, NEW y \in D, Reaches(D, {}, x, y)
  PROVE  x = y
<1>1. {x} \in SUBSET D /\ x \in {x} /\ \A u \in {x}, v \in D : <<u, v>> \in {} => v \in {x}
  OBVIOUS
<1>2. y \in {x}
  BY <1>1 DEF Reaches
<1> QED BY <1>2

LEMMA InitGroups == Init => GroupsInv
<1> SUFFICES ASSUME Init PROVE GroupsInv
  OBVIOUS
<1>1. Listed
  BY BatchesAssumption DEF Init, Listed
<1>2. Paired
  <2>1. pair[1] = 1 /\ pair[2] = 2 /\ pair = <<1, 2>>
    BY DEF Init
  <2> QED BY <1>1, <2>1 DEF Listed, Paired
<1>3. Edges = {}
  <2>1. ASSUME NEW x \in 1 .. Len(tasks), NEW y \in 1 .. Len(tasks) PROVE ~ Done(x, y)
    <3>1. pair[1] = 1 /\ pair[2] = 2
      BY DEF Init
    <3> QED BY <3>1 DEF Done
  <2>2. ASSUME NEW e \in (DOMAIN tasks) \X (DOMAIN tasks) PROVE ~ Overlapping(e[1], e[2])
    <3> DEFINE D == 1 .. Len(tasks)
    <3>4. DOMAIN tasks = D
      BY <1>1 DEF Listed
    <3> HIDE DEF D
    <3>2. e \in D \X D
      BY <3>4
    <3>3. e[1] \in D /\ e[2] \in D
      BY <3>2
    <3>1. e[1] \in 1 .. Len(tasks) /\ e[2] \in 1 .. Len(tasks)
      BY <3>3 DEF D
    <3> QED BY <2>1, <3>1 DEF Overlapping
  <2> QED BY <2>2 DEF Edges
<1> DEFINE n == Len(tasks)
           rt == [x \in 1 .. n |-> x]
<1>4. n \in Nat /\ DOMAIN tasks = 1 .. n
  BY <1>1 DEF Listed
<1>5. parent = [x \in 1 .. n |-> x] /\ rank = [x \in 1 .. n |-> 0]
  BY <1>4 DEF Init
<1> HIDE DEF n
<1>6. Tree(n, parent, rank, rt)
  BY <1>4, <1>5 DEF Tree
<1>7. Weighed(n, rank, rt)
  <2> SUFFICES ASSUME NEW x \in 1 .. n PROVE PowerOfTwo[rank[rt[x]]] <= Cardinality(Under(n, rt, rt[x]))
    BY DEF Weighed
  <2>1. Under(n, rt, rt[x]) = {x}
    BY DEF Under
  <2>2. Cardinality({x}) = 1
    BY FS_Singleton
  <2>3. rank[rt[x]] = 0
    BY <1>5
  <2>4. PowerOfTwo[rank[rt[x]]] = 1
    BY <2>3, Powers
  <2> QED BY <2>1, <2>2, <2>4
<1>8. Components(1 .. n, Edges, rt)
  <2> SUFFICES ASSUME NEW x \in 1 .. n, NEW y \in 1 .. n
               PROVE  rt[x] = rt[y] <=> Reaches(1 .. n, {}, x, y)
    BY <1>3 DEF Components
  <2>1. x = y => Reaches(1 .. n, {}, x, y)
    BY DEF Reaches
  <2> QED BY <2>1, EmptyReaches
<1>9. Forest(n, parent, rank, rt)
  BY <1>6, <1>7 DEF Forest
<1>10. Grouped
  BY <1>8, <1>9 DEF Grouped, n
<1>11. Called
  BY DEF Init, Called
<1> QED BY <1>1, <1>2, <1>10, <1>11 DEF GroupsInv

(* The next pair: one more pair is done with.                              *)
LEMMA PairDone ==
  ASSUME Listed, Paired, ~Compared, tasks' = tasks, pair' = Following(pair)
  PROVE  /\ Paired' /\ pair[1] \in DOMAIN tasks /\ pair[2] \in DOMAIN tasks
         /\ \A x, y \in DOMAIN tasks : Done(x, y)' <=> Done(x, y) \/ <<x, y>> = pair
<1> DEFINE n == Len(tasks)
           i == pair[1]
           j == pair[2]
<1>1. /\ n \in Nat /\ DOMAIN tasks = 1 .. n /\ i \in Nat /\ j \in Nat /\ pair = <<i, j>>
      /\ 1 <= i /\ i < j /\ i < n /\ j <= n
  BY DEF Listed, Paired, Compared
<1>2. pair' = IF j < n THEN <<i, j + 1>> ELSE <<i + 1, i + 2>>
  BY DEF Following
<1>3. Len(tasks)' = n
  OBVIOUS
<1>4. \A x, y : Done(x, y) <=> x < y /\ (x < i \/ (x = i /\ y < j))
  BY DEF Done
<1>5. \A x, y : Done(x, y)' <=> x < y /\ (x < pair'[1] \/ (x = pair'[1] /\ y < pair'[2]))
  BY DEF Done
<1> HIDE DEF n, i, j
<1>6. CASE j < n
  <2>1. pair' = <<i, j + 1>> /\ pair'[1] = i /\ pair'[2] = j + 1
    BY <1>2, <1>6
  <2>2. Paired'
    BY <1>1, <1>3, <1>6, <2>1 DEF Paired
  <2>3. ASSUME NEW x \in 1 .. n, NEW y \in 1 .. n
        PROVE  Done(x, y)' <=> Done(x, y) \/ <<x, y>> = <<i, j>>
    <3>1. <<x, y>> = <<i, j>> <=> x = i /\ y = j
      OBVIOUS
    <3>2. (x < y /\ (x < i \/ (x = i /\ y < j + 1))) <=> (x < y /\ (x < i \/ (x = i /\ y < j))) \/ (x = i /\ y = j)
      BY <1>1
    <3> QED BY <1>4, <1>5, <2>1, <3>1, <3>2
  <2> QED BY <1>1, <2>2, <2>3
<1>7. CASE ~(j < n)
  <2>1. pair' = <<i + 1, i + 2>> /\ pair'[1] = i + 1 /\ pair'[2] = i + 2
    BY <1>2, <1>7
  <2>2. Paired'
    BY <1>1, <1>3, <1>7, <2>1 DEF Paired
  <2>3. ASSUME NEW x \in 1 .. n, NEW y \in 1 .. n
        PROVE  Done(x, y)' <=> Done(x, y) \/ <<x, y>> = <<i, j>>
    <3>1. <<x, y>> = <<i, j>> <=> x = i /\ y = j
      OBVIOUS
    <3>2. (x < y /\ (x < i + 1 \/ (x = i + 1 /\ y < i + 2))) <=> (x < y /\ (x < i \/ (x = i /\ y < j))) \/ (x = i /\ y = j)
      BY <1>1, <1>7
    <3> QED BY <1>4, <1>5, <2>1, <3>1, <3>2
  <2> QED BY <1>1, <2>2, <2>3
<1> QED BY <1>6, <1>7

LEMMA EdgesGrow ==
  ASSUME Listed, Paired, ~Compared, tasks' = tasks, pair' = Following(pair)
  PROVE  Edges' = IF routesOverlap(pair[1], pair[2])
                  THEN Edges \cup {<<pair[1], pair[2]>>, <<pair[2], pair[1]>>}
                  ELSE Edges
<1> DEFINE D == DOMAIN tasks
           i == pair[1]
           j == pair[2]
<1>1. /\ i \in D /\ j \in D
      /\ \A x, y \in D : Done(x, y)' <=> Done(x, y) \/ <<x, y>> = pair
  BY PairDone
<1>2. pair = <<i, j>>
  BY DEF Paired
<1>3. \A x, y : routesOverlap(x, y)' <=> routesOverlap(x, y)
  BY DEF routesOverlap, extractRouteSegments
<1>4. Edges' = {e \in D \X D : Overlapping(e[1], e[2])'}
  BY DEF Edges
<1> HIDE DEF D, i, j
<1>5. ASSUME NEW x \in D, NEW y \in D
      PROVE  Overlapping(x, y)' <=> \/ Overlapping(x, y)
                                    \/ (<<x, y>> = <<i, j>> \/ <<y, x>> = <<i, j>>) /\ routesOverlap(x, y)
  <2>1. Overlapping(x, y)' <=> (Done(x, y)' \/ Done(y, x)') /\ routesOverlap(x, y)'
    BY DEF Overlapping
  <2>2. Overlapping(x, y) <=> (Done(x, y) \/ Done(y, x)) /\ routesOverlap(x, y)
    BY DEF Overlapping
  <2>3. /\ Done(x, y)' <=> Done(x, y) \/ <<x, y>> = <<i, j>>
        /\ Done(y, x)' <=> Done(y, x) \/ <<y, x>> = <<i, j>>
    BY <1>1, <1>2, Zenon
  <2> QED BY <1>3, <2>1, <2>2, <2>3, Zenon
<1>6. routesOverlap(i, j) <=> routesOverlap(j, i)
  BY OverlapBoth
<1>7. \A x, y \in D : <<x, y>> = <<i, j>> <=> x = i /\ y = j
  OBVIOUS
<1> DEFINE more == IF routesOverlap(i, j) THEN {<<i, j>>, <<j, i>>} ELSE {}
<1>8. ASSUME NEW x \in D, NEW y \in D
      PROVE  Overlapping(x, y)' <=> Overlapping(x, y) \/ <<x, y>> \in more
  <2>1. <<x, y>> \in more <=> routesOverlap(i, j) /\ ((x = i /\ y = j) \/ (x = j /\ y = i))
    OBVIOUS
  <2>2. Overlapping(x, y)' <=> \/ Overlapping(x, y)
                               \/ ((x = i /\ y = j) \/ (y = i /\ x = j)) /\ routesOverlap(x, y)
    BY <1>5, <1>7, Zenon
  <2>3. ((x = i /\ y = j) \/ (x = j /\ y = i)) => (routesOverlap(x, y) <=> routesOverlap(i, j))
    BY <1>6, Zenon
  <2> QED BY <2>1, <2>2, <2>3, Zenon
<1>9. more \subseteq D \X D
  BY <1>1
<1>10. ASSUME NEW e \in D \X D
       PROVE  Overlapping(e[1], e[2])' <=> Overlapping(e[1], e[2]) \/ e \in more
  <2>1. e[1] \in D /\ e[2] \in D /\ e = <<e[1], e[2]>>
    BY <1>1
  <2> HIDE DEF more
  <2> QED BY <1>8, <2>1, Zenon
<1> HIDE DEF more
<1>11. Edges = {e \in D \X D : Overlapping(e[1], e[2])}
  BY DEF Edges, D
<1>12. Edges' = Edges \cup more
  BY <1>4, <1>9, <1>10, <1>11
<1> QED BY <1>12 DEF more, i, j

(***************************************************************************)
(* A comparison keeps the sets the components of what is compared.         *)
(***************************************************************************)
LEMMA CompareGroups == ASSUME GroupsInv, Compare PROVE GroupsInv'
<1> DEFINE n == Len(tasks)
           i == pair[1]
           j == pair[2]
<1>1. /\ Listed /\ Paired /\ Grouped /\ Called /\ ~Compared
      /\ tasks' = tasks /\ names' = names /\ pair' = Following(pair)
  BY DEF GroupsInv, Compare
<1>2. Listed'
  BY <1>1 DEF Listed
<1>3. Paired' /\ i \in DOMAIN tasks /\ j \in DOMAIN tasks
  BY <1>1, PairDone
<1>4. Edges' = IF routesOverlap(i, j) THEN Edges \cup {<<i, j>>, <<j, i>>} ELSE Edges
  BY <1>1, EdgesGrow
<1>5. n \in Nat /\ i \in 1 .. n /\ j \in 1 .. n /\ n' = n
  BY <1>1, <1>3 DEF Listed
<1>6. Called'
  BY <1>1 DEF Called
<1>7. PICK rt : Forest(n, parent, rank, rt) /\ Components(1 .. n, Edges, rt)
  BY <1>1 DEF Grouped
<1> HIDE DEF n, i, j
<1>8. CASE routesOverlap(i, j)
  <2>1. union(i, j)
    BY <1>8 DEF Compare, i, j
  <2>2. PICK tr : Forest(n, parent', rank', tr) /\ Unites(n, rt, tr, i, j)
    BY <1>5, <1>7, <2>1, UnionUnites
  <2>3. Components(1 .. n, Edges \cup {<<i, j>>, <<j, i>>}, tr)
    BY <1>5, <1>7, <2>2, NewEdge
  <2>4. Components(1 .. n, Edges', tr)
    BY <1>4, <1>8, <2>3
  <2> QED BY <1>2, <1>3, <1>5, <1>6, <2>2, <2>4 DEF GroupsInv, Grouped, n
<1>9. CASE ~routesOverlap(i, j)
  <2>1. parent' = parent /\ rank' = rank
    BY <1>9 DEF Compare, i, j
  <2>2. Forest(n, parent', rank', rt) /\ Components(1 .. n, Edges', rt)
    BY <1>4, <1>7, <1>9, <2>1
  <2> QED BY <1>2, <1>3, <1>5, <1>6, <2>2 DEF GroupsInv, Grouped, n
<1> QED BY <1>8, <1>9

(* Fewer names than tasks: one of the suffixes is free.                    *)
LEMMA SuffixFree ==
  ASSUME NEW n \in Nat, NEW D \in SUBSET (1 .. n), NEW r \in (1 .. n) \ D, NEW f, NEW g
  PROVE  \E k \in 1 .. n : <<g, k>> \notin {f[q] : q \in D}
<1> SUFFICES ASSUME \A k \in 1 .. n : \E q \in D : <<g, k>> = f[q] PROVE FALSE
  OBVIOUS
<1> DEFINE h == [k \in 1 .. n |-> CHOOSE q \in D : <<g, k>> = f[q]]
<1>1. \A k \in 1 .. n : h[k] \in D /\ <<g, k>> = f[h[k]]
  OBVIOUS
<1>2. h \in [1 .. n -> D]
  BY <1>1
<1> HIDE DEF h
<1>3. ~ \E k, l \in 1 .. n : k # l /\ h[k] = h[l]
  <2> SUFFICES ASSUME NEW k \in 1 .. n, NEW l \in 1 .. n, h[k] = h[l] PROVE k = l
    OBVIOUS
  <2>1. <<g, k>> = <<g, l>>
    BY <1>1
  <2> QED BY <2>1
<1>4. IsFiniteSet(1 .. n) /\ Cardinality(1 .. n) = n
  <2>1. 1 \in Int /\ n \in Int
    OBVIOUS
  <2>2. IsFiniteSet(1 .. n) /\ Cardinality(1 .. n) = IF 1 > n THEN 0 ELSE n - 1 + 1
    BY <2>1, FS_Interval
  <2>3. (IF 1 > n THEN 0 ELSE n - 1 + 1) = n
    OBVIOUS
  <2> QED BY <2>2, <2>3
<1>5. IsFiniteSet(D) /\ Cardinality(D) \in Nat /\ Cardinality(D) <= n
  BY <1>4, FS_Subset, FS_CardinalityType
<1>6. Cardinality(D) # n
  <2>1. Cardinality(D) = Cardinality(1 .. n) => D = 1 .. n
    BY <1>4, FS_Subset
  <2> QED BY <1>4, <2>1
<1>7. Cardinality(D) < Cardinality(1 .. n)
  BY <1>4, <1>5, <1>6
<1>8. \E k, l \in 1 .. n : k # l /\ h[k] = h[l]
  <2> DEFINE K == 1 .. n
  <2>1. IsFiniteSet(K) /\ h \in [K -> D] /\ Cardinality(D) < Cardinality(K)
    BY <1>2, <1>4, <1>7
  <2> HIDE DEF K
  <2>2. \E k, l \in K : k # l /\ h[k] = h[l]
    BY <1>5, <2>1, FS_PigeonHole
  <2> QED BY <2>2 DEF K
<1> QED BY <1>3, <1>8

LEMMA NameGroups == ASSUME GroupsInv, NameGroup PROVE GroupsInv'
<1> DEFINE n == Len(tasks)
<1>1. /\ Listed /\ Paired /\ Grouped /\ Called /\ Compared
      /\ tasks' = tasks /\ pair' = pair /\ parent' = parent /\ rank' = rank
  BY DEF GroupsInv, NameGroup
<1>2. Listed' /\ Paired'
  BY <1>1 DEF Listed, Paired
<1>3. Edges' = Edges
  BY <1>1 DEF Edges, Overlapping, Done, routesOverlap, extractRouteSegments
<1>4. Grouped'
  BY <1>1, <1>3 DEF Grouped
<1>5. PICK r \in DOMAIN tasks \ DOMAIN names :
        /\ Root(parent, r) = r
        /\ LET free == {k \in 1 .. n : <<GroupName(r), k>> \notin {names[q] : q \in DOMAIN names}}
           IN names' = [q \in DOMAIN names \cup {r} |->
                          IF q = r THEN <<GroupName(r), CHOOSE k \in free : \A l \in free : k <= l>>
                          ELSE names[q]]
  BY DEF NameGroup
<1> DEFINE g == GroupName(r)
           free == {k \in 1 .. n : <<g, k>> \notin {names[q] : q \in DOMAIN names}}
           least == CHOOSE k \in free : \A l \in free : k <= l
<1>6. names' = [q \in DOMAIN names \cup {r} |-> IF q = r THEN <<g, least>> ELSE names[q]]
  BY <1>5
<1>7. n \in Nat /\ DOMAIN tasks = 1 .. n /\ DOMAIN names \in SUBSET (1 .. n) /\ r \in (1 .. n) \ DOMAIN names
  BY <1>1 DEF Listed, Called
<1>8. parent[r] = r
  <2>1. PICK rt : Tree(n, parent, rank, rt)
    BY <1>1 DEF Grouped, Forest
  <2> HIDE DEF n
  <2>2. Root(parent, r) = rt[r]
    BY <1>7, <2>1, PathRoot
  <2>3. parent[rt[r]] = rt[r]
    BY <1>7, <2>1 DEF Tree
  <2> QED BY <1>5, <2>2, <2>3
<1> HIDE DEF n, g
<1>9. least \in free
  <2>1. free # {}
    BY <1>7, SuffixFree
  <2>2. free \in SUBSET Nat
    BY <1>7
  <2> HIDE DEF free
  <2>3. \E k \in free : \A l \in free : k <= l
    BY <2>1, <2>2, NatLeast
  <2> QED BY <2>3
<1> HIDE DEF least
<1>10. \A q \in DOMAIN names : names[q] # <<g, least>>
  BY <1>9
<1>11. /\ DOMAIN names' = DOMAIN names \cup {r} /\ names'[r] = <<g, least>>
       /\ \A q \in DOMAIN names : names'[q] = names[q]
  BY <1>6, <1>7
<1>12. \A q, s \in DOMAIN names' : names'[q] = names'[s] => q = s
  BY <1>1, <1>10, <1>11 DEF Called
<1>13. DOMAIN names' \subseteq {q \in DOMAIN tasks' : parent'[q] = q}
  BY <1>1, <1>7, <1>8, <1>11 DEF Called
<1>14. Compared'
  BY <1>1 DEF Compared
<1>15. Called'
  BY <1>12, <1>13, <1>14 DEF Called
<1> QED BY <1>2, <1>4, <1>15 DEF GroupsInv

LEMMA GroupsSafe == Spec => []GroupsInv
<1>1. Init => GroupsInv
  BY InitGroups
<1>2. GroupsInv /\ [Next]_vars => GroupsInv'
  <2> SUFFICES ASSUME GroupsInv, [Next]_vars PROVE GroupsInv'
    OBVIOUS
  <2>1. CASE Compare
    BY <2>1, CompareGroups
  <2>2. CASE NameGroup
    BY <2>2, NameGroups
  <2>3. CASE UNCHANGED vars
    <3>1. tasks' = tasks /\ pair' = pair /\ parent' = parent /\ rank' = rank /\ names' = names
      BY <2>3 DEF vars
    <3>2. Edges' = Edges
      BY <3>1 DEF Edges, Overlapping, Done, routesOverlap, extractRouteSegments
    <3> QED BY <3>1, <3>2 DEF GroupsInv, Listed, Paired, Grouped, Called, Compared
  <2> QED BY <2>1, <2>2, <2>3 DEF Next
<1> QED BY <1>1, <1>2, PTL DEF Spec

-----------------------------------------------------------------------------
LEMMA RootsKnown ==
  ASSUME GroupsInv
  PROVE  \E rt : /\ Forest(Len(tasks), parent, rank, rt)
                 /\ \A x \in DOMAIN tasks : Root(parent, x) = rt[x]
                 /\ \A x, y \in DOMAIN tasks : rt[x] = rt[y] <=> Connected(x, y)
<1>1. Len(tasks) \in Nat /\ DOMAIN tasks = 1 .. Len(tasks)
  BY DEF GroupsInv, Listed
<1>2. PICK rt : Forest(Len(tasks), parent, rank, rt) /\ Components(1 .. Len(tasks), Edges, rt)
  BY DEF GroupsInv, Grouped
<1>3. \A x \in DOMAIN tasks : Root(parent, x) = rt[x]
  BY <1>1, <1>2, PathRoot DEF Forest
<1>4. ASSUME NEW x \in DOMAIN tasks, NEW y \in DOMAIN tasks
      PROVE  rt[x] = rt[y] <=> Connected(x, y)
  <2>1. rt[x] = rt[y] <=> Reaches(1 .. Len(tasks), Edges, x, y)
    BY <1>1, <1>2 DEF Components
  <2>2. Connected(x, y) <=> Reaches(DOMAIN tasks, Edges, x, y)
    BY ConnectedIs
  <2> QED BY <1>1, <2>1, <2>2
<1> QED BY <1>2, <1>3, <1>4

(***************************************************************************)
(* Whatever the batch and the order its overlaps turn up in, two tasks     *)
(* share a set of the union-find exactly when a chain of compared overlaps *)
(* connects them, and once the groups are named, a name exactly then.      *)
(***************************************************************************)
THEOREM GroupsRight == Spec => []GroupsAreComponents
<1>1. GroupsInv => GroupsAreComponents
  <2> SUFFICES ASSUME GroupsInv, NEW x \in DOMAIN tasks, NEW y \in DOMAIN tasks
               PROVE  /\ Root(parent, x) = Root(parent, y) <=> Connected(x, y)
                      /\ Named => (conflictGroup(x) = conflictGroup(y) <=> Connected(x, y))
    BY DEF GroupsAreComponents
  <2>1. Root(parent, x) = Root(parent, y) <=> Connected(x, y)
    <3>1. PICK rt : /\ \A z \in DOMAIN tasks : Root(parent, z) = rt[z]
                    /\ \A z, w \in DOMAIN tasks : rt[z] = rt[w] <=> Connected(z, w)
      BY RootsKnown
    <3> QED BY <3>1
  <2>2. ASSUME Named
        PROVE  conflictGroup(x) = conflictGroup(y) <=> Root(parent, x) = Root(parent, y)
    <3>1. Root(parent, x) \in DOMAIN names /\ Root(parent, y) \in DOMAIN names
      BY <2>2 DEF Named
    <3>2. \A q, r \in DOMAIN names : names[q] = names[r] => q = r
      BY DEF GroupsInv, Called
    <3> QED BY <3>1, <3>2 DEF conflictGroup
  <2> QED BY <2>1, <2>2
<1> QED BY <1>1, GroupsSafe, PTL

(***************************************************************************)
(* Path compression never spoils union by rank: a root of rank k stands    *)
(* above 2^k tasks or more, and no task is deeper than its root's rank, so *)
(* that find walks a number of steps logarithmic in the batch.             *)
(***************************************************************************)
THEOREM RanksRight == Spec => []RanksBalance
<1>1. GroupsInv => RanksBalance
  <2> SUFFICES ASSUME GroupsInv, NEW x \in DOMAIN tasks
               PROVE  /\ PowerOfTwo[rank[Root(parent, x)]] <= Cardinality(Members(Root(parent, x)))
                      /\ Cardinality(Path(parent, x)) <= rank[Root(parent, x)] + 1
    BY DEF RanksBalance
  <2> DEFINE n == Len(tasks)
  <2>1. n \in Nat /\ DOMAIN tasks = 1 .. n
    BY DEF GroupsInv, Listed
  <2>2. PICK rt : Forest(n, parent, rank, rt) /\ \A z \in DOMAIN tasks : Root(parent, z) = rt[z]
    BY RootsKnown
  <2> HIDE DEF n
  <2>3. Tree(n, parent, rank, rt) /\ Weighed(n, rank, rt) /\ x \in 1 .. n
    BY <2>1, <2>2 DEF Forest
  <2>4. Members(rt[x]) = Under(n, rt, rt[x])
    BY <2>1, <2>2 DEF Members, Under
  <2>5. PowerOfTwo[rank[rt[x]]] <= Cardinality(Members(rt[x]))
    BY <2>3, <2>4 DEF Weighed
  <2>6. Cardinality(Path(parent, x)) <= rank[rt[x]] + 1
    BY <2>1, <2>3, PathShort
  <2> QED BY <2>2, <2>5, <2>6
<1> QED BY <1>1, GroupsSafe, PTL
=============================================================================
