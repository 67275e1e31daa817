--------------------------- MODULE MCWaveBuilder ---------------------------
(* Build-Waves on all batches of up to MaxPlans tasks drawn, with          *)
(* repetition, from tasks that meet every kind of clash.                   *)
EXTENDS WaveBuilder, TLC

CONSTANTS plain, samegrp, locka, lockab, risky, human

MCTask == {plain, samegrp, locka, lockab, risky, human}

\* plain and samegrp share a group, locka and lockab a lock, risky and human
\* the high-risk mark; human also shares lock "b" with lockab.
MCGroup == (plain :> "g1") @@ (samegrp :> "g1") @@ (locka :> "g2")
             @@ (lockab :> "g3") @@ (risky :> "g4") @@ (human :> "g5")

MCLocks == (plain :> {}) @@ (samegrp :> {}) @@ (locka :> {"a"})
             @@ (lockab :> {"a", "b"}) @@ (risky :> {}) @@ (human :> {"b"})

MCHighRisk == {risky, human}
=============================================================================
