--------------------------- MODULE ConflictGroups ---------------------------
(***************************************************************************)
(* scripts/ai/allocate-conflict-groups.js: gives every task of a batch the *)
(* conflict group that keeps it apart from the tasks whose files it shares *)
(* a directory or file name with.  A union-find over the tasks joins those *)
(* whose routes overlap, pair by pair; each of its sets becomes a group.   *)
(*                                                                         *)
(* A path pattern is the set of its segments; the "organizational" ones    *)
(* and patterns as broad as src/** do not count.                           *)
(***************************************************************************)
EXTENDS Integers, Sequences, FiniteSets

CONSTANTS
  Batches,         \* batches to allocate: per task, its set of patterns
  SKIP_SEGMENTS,   \* segments that do not count; numbers stand for names in order
  Broad,           \* patterns that are skipped whole
  Joined(_)        \* the name made of at most two segments, joined by "-"

\* A batch is a list, each of its tasks with its files.
ASSUME BatchesAssumption == \A b \in Batches : b \in Seq({b[x] : x \in DOMAIN b})

VARIABLES
  tasks,    \* the batch
  pair,     \* the pair of tasks compared next
  parent,   \* the union-find
  rank,
  names     \* the group name of each root, once it has one

vars == <<tasks, pair, parent, rank, names>>

-----------------------------------------------------------------------------
extractRouteSegments(files) == UNION (files \ Broad) \ SKIP_SEGMENTS

routesOverlap(i, j) ==
  extractRouteSegments(tasks[i]) \cap extractRouteSegments(tasks[j]) # {}

\* find: the root above x, and what the path to it becomes.
Path(p, x) ==
  LET up[n \in 0 .. Len(p)] == IF n = 0 THEN x ELSE p[up[n - 1]]
  IN {up[n] : n \in 0 .. Len(p)}
Root(p, x) == CHOOSE r \in Path(p, x) : p[r] = r
find(p, x) == [y \in DOMAIN p |-> IF y \in Path(p, x) THEN Root(p, x) ELSE p[y]]

\* Mutant of union: the second task is moved, not its root.
unionShallow(a, b) ==
  LET ra == Root(parent, a)
  IN /\ parent' = [find(find(parent, a), b) EXCEPT ![b] = ra]
     /\ rank' = rank

\* Mutant of union: ranks are not looked at.
unionAnyhow(a, b) ==
  LET p == find(find(parent, a), b)
      ra == Root(parent, a)
      rb == Root(parent, b)
  IN IF ra = rb THEN parent' = p /\ rank' = rank
     ELSE /\ parent' = [p EXCEPT ![ra] = rb]
          /\ rank' = [rank EXCEPT ![rb] = @ + 1]

\* union: the root of lower rank goes below the other.
union(a, b) ==
  LET p == find(find(parent, a), b)
      ra == Root(parent, a)
      rb == Root(parent, b)
  IN IF ra = rb THEN parent' = p /\ rank' = rank
     ELSE IF rank[ra] < rank[rb] THEN parent' = [p EXCEPT ![ra] = rb] /\ rank' = rank
     ELSE /\ parent' = [p EXCEPT ![rb] = ra]
          /\ rank' = IF rank[ra] = rank[rb] THEN [rank EXCEPT ![ra] = @ + 1] ELSE rank

-----------------------------------------------------------------------------
Compared == pair[1] >= Len(tasks)

\* The next pair of the nested loops.
Following(p) == IF p[2] < Len(tasks) THEN <<p[1], p[2] + 1>> ELSE <<p[1] + 1, p[1] + 2>>

Compare ==
  /\ ~Compared
  /\ IF routesOverlap(pair[1], pair[2]) THEN union(pair[1], pair[2])
     ELSE UNCHANGED <<parent, rank>>
  /\ pair' = Following(pair)
  /\ UNCHANGED <<tasks, names>>

Members(r) == {x \in DOMAIN tasks : Root(parent, x) = r}
AllRoutes(r) == UNION {extractRouteSegments(tasks[x]) : x \in Members(r)}

\* A group is called by its two first segments, or generic-r, here {-r}, if it
\* has none.
GroupName(r) ==
  IF AllRoutes(r) = {} THEN {-r}
  ELSE LET first(n) == {s \in AllRoutes(r) : Cardinality({t \in AllRoutes(r) : t < s}) < n}
       IN Joined(first(2))

\* Groups get their names in the order of their first tasks; a name in use
\* gets the next free suffix, from 2 on.
NameGroup ==
  /\ Compared
  /\ \E r \in DOMAIN tasks \ DOMAIN names :
       /\ Root(parent, r) = r
       /\ \A x \in DOMAIN tasks :
            (\A y \in Members(r) : x < y) => Root(parent, x) \in DOMAIN names
       /\ LET free == {k \in 1 .. Len(tasks) : <<GroupName(r), k>> \notin {names[q] : q \in DOMAIN names}}
          IN names' = [q \in DOMAIN names \cup {r} |->
                         IF q = r THEN <<GroupName(r), CHOOSE k \in free : \A l \in free : k <= l>>
                         ELSE names[q]]
  /\ UNCHANGED <<tasks, pair, parent, rank>>

Init ==
  /\ tasks \in Batches
  /\ pair = <<1, 2>>
  /\ parent = [x \in DOMAIN tasks |-> x]
  /\ rank = [x \in DOMAIN tasks |-> 0]
  /\ names = << >>

Next == Compare \/ NameGroup

Spec == Init /\ [][Next]_vars

conflictGroup(x) == names[Root(parent, x)]
Named == \A x \in DOMAIN tasks : Root(parent, x) \in DOMAIN names

-----------------------------------------------------------------------------
\* Two tasks a chain of overlapping pairs already compared connects.
Done(x, y) == x < y /\ (x < pair[1] \/ (x = pair[1] /\ y < pair[2]))
Overlapping(x, y) == (Done(x, y) \/ Done(y, x)) /\ routesOverlap(x, y)
Connected(x, y) ==
  \A S \in SUBSET DOMAIN tasks :
    x \in S /\ (\A u \in S, v \in DOMAIN tasks : Overlapping(u, v) => v \in S) => y \in S

(***************************************************************************)
(* Two tasks are in one set exactly when overlapping files connect them:   *)
(* no conflict is lost to path compression or to the order of the pairs,   *)
(* and no task is serialized with a task it has nothing to do with.  At    *)
(* the end their group names say the same, though two sets of routes may   *)
(* read alike once joined.                                                 *)
(***************************************************************************)
GroupsAreComponents ==
  \A x, y \in DOMAIN tasks :
    /\ Root(parent, x) = Root(parent, y) <=> Connected(x, y)
    /\ Named => (conflictGroup(x) = conflictGroup(y) <=> Connected(x, y))

PowerOfTwo[n \in Nat] == IF n = 0 THEN 1 ELSE 2 * PowerOfTwo[n - 1]

(***************************************************************************)
(* Union by rank keeps its promise under path compression: a root of rank  *)
(* k stands above at least 2^k tasks, and no task is deeper than the rank  *)
(* of its root.                                                            *)
(***************************************************************************)
RanksBalance ==
  \A x \in DOMAIN tasks :
    LET r == Root(parent, x)
    IN /\ PowerOfTwo[rank[r]] <= Cardinality(Members(r))
       /\ Cardinality(Path(parent, x)) <= rank[r] + 1
=============================================================================
