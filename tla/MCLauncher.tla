----------------------------- MODULE MCLauncher -----------------------------
(* Small instances of Launcher: up to two runs and three tasks.  Where c   *)
(* is another run's task it has the group of a.                            *)
EXTENDS LauncherClaims, TLC

CONSTANTS a, b, c, r1, r2, m

ThreeTasks == {a, b, c}
OneEach == {a, c}

AllOwnedByOne == (a :> r1) @@ (b :> r1) @@ (c :> r1)
OwnedByEach == (a :> r1) @@ (c :> r2)
BothOwnedByOne == (a :> r1) @@ (c :> r1)

\* a and c contest a group, or no two tasks do.
Groups == (a :> "ga") @@ (b :> "gb") @@ (c :> "ga")
OwnGroups == (a :> "ga") @@ (b :> "gb") @@ (c :> "gc")
NoLocks == [t \in ThreeTasks |-> {}]
=============================================================================
