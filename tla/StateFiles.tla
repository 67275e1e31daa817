----------------------------- MODULE StateFiles -----------------------------
(***************************************************************************)
(* What the scripts and the console read off the files of .github/ai-state *)
(* in the same way.  A file is a record, the empty one when it is missing; *)
(* a pool is the sequence of providers of provider-pool.json.              *)
(***************************************************************************)
EXTENDS Integers, Sequences, FiniteSets, SequencesExt

CONSTANT NoGroup   \* a conflictGroup that is empty

AtLeast(low, n) == IF n < low THEN low ELSE n
AtMost(high, n) == IF n > high THEN high ELSE n
Least(S) == CHOOSE n \in S : \A k \in S : n <= k

\* A list, whatever is in it.
IsList(s) == s \in Seq(ToSet(s))

\* What a loop that keeps some elements of s, those at positions keep, leaves.
Kept(s, keep) ==
  LET kept[n \in 0 .. Len(s)] ==
        IF n = 0 THEN << >>
        ELSE IF n \in keep THEN Append(kept[n - 1], s[n]) ELSE kept[n - 1]
  IN kept[Len(s)]

Has(file, field) == field \in DOMAIN file

\* A provider may have no limit: its entry then has no max.
Available(p) == p.status = "available"
Endless(p) == Available(p) /\ ~Has(p, "max")

\* Mutant of Headroom: one slot is kept spare.
HeadroomSpare(p) ==
  IF Available(p) /\ Has(p, "max") THEN AtLeast(0, p.max - p.cur - 1) ELSE 0

\* What the entry says a provider can still take; no limit stands for none.
Headroom(p) ==
  IF Available(p) /\ Has(p, "max") THEN AtLeast(0, p.max - p.cur) ELSE 0
TotalHeadroom(pool) == FoldLeft(LAMBDA sum, p : sum + Headroom(p), 0, pool)

\* Where no limit stands for infinity: the capacity of the pool is below n.
CapacityBelow(pool, n) ==
  (\A k \in DOMAIN pool : ~Endless(pool[k])) /\ TotalHeadroom(pool) < n
extractProviderSlots(pool) ==
  Cardinality({k \in DOMAIN pool : Endless(pool[k]) \/ Headroom(pool[k]) > 0})
=============================================================================
