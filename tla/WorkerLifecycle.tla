-------------------------- MODULE WorkerLifecycle --------------------------
(***************************************************************************)
(* What active-workers.json promises its readers: the transition table of  *)
(* scripts/ai/validate-worker-transition.js, which calls itself the source *)
(* of truth for the status field.  The file is a projection: a write may   *)
(* move any number of entries, and may also leave entries out, which is    *)
(* what New-Manifest does with every entry of the batch before.            *)
(***************************************************************************)
CONSTANT Worker

VARIABLE status

Status == {"null", "planned", "running", "completed", "failed", "stale",
           "blocked", "needs-human"}

TRANSITIONS ==
  [s \in Status |->
     CASE s = "null"    -> {"planned", "running"}
       [] s = "planned" -> {"running", "failed"}
       [] s = "running" -> {"completed", "failed", "stale", "blocked", "needs-human"}
       [] s \in {"blocked", "needs-human"} -> {"running", "failed"}
       [] OTHER -> {}]

Terminal == {s \in Status \ {"null"} : TRANSITIONS[s] = {}}

Init == status = [w \in Worker |-> "null"]

\* An entry stays, moves along the table, or is left out of the new file.
Moved(w) == status'[w] \in {status[w], "null"} \cup TRANSITIONS[status[w]]

Write ==
  /\ status' \in [Worker -> Status]
  /\ \A w \in Worker : Moved(w)

Spec == Init /\ [][Write]_status
=============================================================================
