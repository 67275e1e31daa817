--------------------------- MODULE MCProviderPool ---------------------------
(* Small instances of ProviderPool.  The processes are interchangeable.    *)
EXTENDS ProviderPool, TLC

CONSTANTS u, v, p1, p2

Interchangeable == Permutations(Proc)
=============================================================================
