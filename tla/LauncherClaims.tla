--------------------------- MODULE LauncherClaims ---------------------------
(***************************************************************************)
(* What a document says of launches and the Launcher does not do: a run    *)
(* finds a behaviour of the code that breaks it.                           *)
(***************************************************************************)
EXTENDS Launcher

(***************************************************************************)
(* docs/ai-native/launch-gate.md: the checker blocks a task whose group is *)
(* an already-active worker's, which "prevents the self-cycle from         *)
(* scheduling work that collides with in-flight tasks".  No two workers at *)
(* work hold one group, whichever runs launched them.                      *)
(***************************************************************************)
InFlightProtected ==
  \A s, t \in Task :
    s # t /\ AtWork(s) /\ AtWork(t) /\ SameGroup(s, t) => conflictGroup[s] = NoGroup
=============================================================================
