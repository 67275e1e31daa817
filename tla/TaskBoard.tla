----------------------------- MODULE TaskBoard -----------------------------
(***************************************************************************)
(* How the scripts read an issue: scripts/ai/project-task-board.js, which  *)
(* writes task-board.json, and scripts/ai/detect-launch-candidates.js.     *)
(* An issue is its labels, the conflict group and risk its text states,    *)
(* and whether its title marks it as talk (umbrella, discussion, meta,     *)
(* rfc, proposal).  Only operators live here.                              *)
(***************************************************************************)
EXTENDS StateFiles

CONSTANTS
  Issue,      \* issue numbers
  Group,      \* conflict group names
  General,    \* "general", the group of a text that names none
  NoPR        \* linkedPR of an issue no open pull request mentions

\* An empty conflictGroup is no group's name.
ASSUME GeneralAssumption == General \in Group /\ NoGroup \notin Group

STATE_LABEL_MAP ==
  << [label |-> "agent:done",     state |-> "done"],
     [label |-> "agent:merged",   state |-> "done"],
     [label |-> "agent:archived", state |-> "archived"],
     [label |-> "agent:running",  state |-> "running"],
     [label |-> "agent:blocked",  state |-> "blocked"],
     [label |-> "agent:queued",   state |-> "ready"],
     [label |-> "agent:todo",     state |-> "todo"],
     [label |-> "agent:triage",   state |-> "triage"] >>

NON_TASK_LABELS == {"discussion", "human-required", "umbrella"}

EXCLUDE_LABELS ==
  NON_TASK_LABELS \cup {"agent:done", "agent:running", "agent:blocked",
                        "agent:merged", "wontfix", "duplicate", "invalid"}

isNonTask(issue) == issue.labels \cap NON_TASK_LABELS # {} \/ issue.talk

\* Mutant of mapState: the labels are tried from the last down.
mapStateLast(labels) ==
  LET hits == {k \in DOMAIN STATE_LABEL_MAP : STATE_LABEL_MAP[k].label \in labels}
  IN IF hits = {} THEN "open"
     ELSE STATE_LABEL_MAP[CHOOSE k \in hits : \A j \in hits : j <= k].state

\* The first entry of the map whose label the issue has.
mapState(labels) ==
  LET hits == {k \in DOMAIN STATE_LABEL_MAP : STATE_LABEL_MAP[k].label \in labels}
  IN IF hits = {} THEN "open"
     ELSE STATE_LABEL_MAP[CHOOSE k \in hits : \A j \in hits : k <= j].state

\* An open pull request whose title or body mentions the issue; prs gives
\* the issues each one mentions.  The first listed is taken: any may be.
Mentions(prs, n) == {pr \in DOMAIN prs : n \in prs[pr]}
findLinkedPR(prs, n) ==
  IF Mentions(prs, n) = {} THEN NoPR ELSE CHOOSE pr \in Mentions(prs, n) : TRUE

\* One row of the board.  It carries no risk.
projectTask(issue, n, prs) ==
  [issue |-> n,
   state |-> IF isNonTask(issue) THEN "discussion/open" ELSE mapState(issue.labels),
   conflictGroup |-> issue.group,
   linkedPR |-> IF isNonTask(issue) THEN NoPR ELSE findLinkedPR(prs, n)]

\* The board lists the tasks first, then the discussions, in issue order.
buildProjection(issues, prs) ==
  LET rows(talk) == Kept([k \in 1 .. Len(issues) |-> k],
                         {k \in 1 .. Len(issues) : isNonTask(issues[k]) = talk})
      order == rows(FALSE) \o rows(TRUE)
  IN [k \in 1 .. Len(issues) |-> projectTask(issues[order[k]], order[k], prs)]

\* detectCandidates: which issues may be launched.
isCandidate(issue, n, prs) ==
  /\ issue.labels \cap EXCLUDE_LABELS = {}
  /\ ~issue.talk
  /\ Mentions(prs, n) = {}
=============================================================================
