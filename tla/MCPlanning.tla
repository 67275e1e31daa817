----------------------------- MODULE MCPlanning -----------------------------
(* Small instances of Planning: three issues, with a group in common or not. *)
EXTENDS Planning

ThreeIssues == 1 .. 3

OneIssue(labels, group, risk) ==
  [labels |-> labels, group |-> group, talk |-> FALSE, risk |-> risk]

Queued == {"agent:queued"}
Running == {"agent:queued", "agent:running"}
NotWanted == {"agent:queued", "wontfix"}
LabelSets == {Queued, Running}

TwoShare ==
  << OneIssue(Queued, "auth", "low"), OneIssue(NotWanted, "auth", "high"),
     OneIssue({"agent:todo"}, "general", "low") >>
OwnGroups ==
  << OneIssue(Queued, "docs", "low"), OneIssue({"agent:todo", "discussion"}, "general", "low"),
     OneIssue(Queued, "auth", "low") >>

Provider(status, cur, max) == [id |-> "a", status |-> status, cur |-> cur, max |-> max]

Facts(pool, locks, signals, main) ==
  [pool |-> pool, locks |-> locks, signals |-> signals, main |-> main,
   target |-> 2, slots |-> 3]

NoLimit == [id |-> "b", status |-> "available", cur |-> 1]
Roomy == <<Provider("available", 0, 2), NoLimit>>
Tight == <<Provider("exhausted", 0, 2), Provider("available", 0, 1)>>
HeldAuth == {[status |-> "held", conflictGroup |-> "auth"],
             [status |-> "released", conflictGroup |-> "general"]}
Green == [state |-> "green"]

Situations ==
  {[issues |-> TwoShare, facts |-> Facts(Roomy, {}, {}, Green)],
   [issues |-> OwnGroups, facts |-> Facts(Tight, HeldAuth, {"medium"}, Green)]}
=============================================================================
