---------------------------- MODULE MCEscalation ----------------------------
(* A small instance of Escalation: two calls at once, a window of one tick *)
(* on a clock of two, so that failures fall out of it.                     *)
EXTENDS Escalation, TLC

CONSTANTS c1, c2, i1, i2

Callers == {c1, c2}
Issues == {i1, i2}

Symmetry == Permutations(Callers) \cup Permutations(Issues)
=============================================================================
