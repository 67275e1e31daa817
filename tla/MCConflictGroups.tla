-------------------------- MODULE MCConflictGroups --------------------------
(* Small instances of ConflictGroups: segments 1 and 2 read "1-2" joined,  *)
(* like the single segment 12; 90 is "docs".                               *)
EXTENDS ConflictGroups, TLC

Two == {1, 2}
Join(S) == IF S = Two THEN {12} ELSE S

Skipped == {90}
BroadPatterns == {{90, 91}}
FileSets == {{}, {{1, 90}}, {{2}, {3}}, {{1, 2}}, {{12}}, {{3}}, {{90, 91}}}
SmallBatches == UNION {[1 .. n -> FileSets] : n \in 1 .. 4}
=============================================================================
