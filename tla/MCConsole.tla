----------------------------- MODULE MCConsole -----------------------------
(* A small instance of Console: a card of any of the three actions, and *)
(* another client that launches batches.                                *)
EXTENDS Console

OneTask(n, group, roots, risk, locks) ==
  [targetIssue |-> n, conflictGroup |-> group, mainHealthPolicy |-> "standard",
   roots |-> roots, risk |-> risk, taskType |-> "execution", sharedLocks |-> locks]

Launching(tasks) == [action |-> "launch-batch", tasks |-> tasks]
Planning(issues) == [action |-> "plan.next.batch", allowlist |-> issues, reason |-> "next batch"]
Merging(prs) == [action |-> "merge-prs", prNumbers |-> prs]

\* The rows of the launch card's form have no files.
Rows == << OneTask(1, "auth", {}, "high", <<"db">>), OneTask(2, "ops", {}, "low", << >>) >>

\* Two tasks of a group with another between them; two of which one is docs.
Clashing ==
  << OneTask(1, "auth", {"src"}, "high", <<"db">>), OneTask(2, "docs", {"docs"}, "low", << >>),
     OneTask(3, "auth", {"scripts"}, "low", << >>) >>
Mixed ==
  << OneTask(1, "auth", {"scripts"}, "low", <<"db">>), OneTask(2, "auth", {"docs"}, "low", << >>) >>

Forms == {Launching(Rows), Planning({1, 2}), Planning(1 .. 5), Merging({})}
OneBatch == {Launching(Clashing)}
Batches == OneBatch \cup {Launching(Mixed)}

QueueEntry(n, group) == [issue |-> n, state |-> "queued", conflictGroup |-> group]
Provider(id, status, cur, max) == [id |-> id, status |-> status, cur |-> cur, max |-> max]
NoLimit(id, cur) == [id |-> id, status |-> "available", cur |-> cur]
Files(main, pool, running) ==
  [main |-> main, pool |-> pool, running |-> {[conflictGroup |-> g] : g \in running},
   queue |-> <<QueueEntry(1, "auth"), QueueEntry(2, "docs"), QueueEntry(3, "auth"),
               QueueEntry(4, NoGroup), QueueEntry(5, NoGroup)>>]

Green == Files([state |-> "green"],
               <<Provider("a", "available", 1, 2), Provider("b", "available", 0, 1),
                 Provider("c", "available", 2, 3)>>, {})
Busy == Files([state |-> "yellow"],
              <<NoLimit("a", 2), Provider("b", "exhausted", 0, 3)>>, {"docs", NoGroup})

Situations == {Green, Busy}
=============================================================================
