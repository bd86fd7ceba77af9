----------------------------- MODULE MC_DemoEngine -----------------------------
(* Small instances of DemoEngine for TLC. *)
EXTENDS DemoEngine, TLC

\* Threads and schemas are interchangeable.
MC_Symmetry == Permutations(Threads) \cup Permutations(Schemas)
=============================================================================
