-------------------------- MODULE MC_PromotionEngine --------------------------
(* Small instances of PromotionEngine for TLC. *)
EXTENDS PromotionEngine, TLC

CONSTANTS d1, d2, j1, j2

MC_OneDataset == [v \in Versions |-> d1]
MC_ListedOne == [d \in {d1} |-> Versions]

\* Two datasets "docs" (d1) and "docs__2024" (d2): the collections of d2 also
\* begin with "docs__", and sort before those of d1.
MC_NestedDatasets == [v \in Versions |-> IF v = 1 THEN d2 ELSE d1]
MC_ListedNested == [d \in {d1, d2} |-> IF d = d1 THEN Versions ELSE {1}]

\* Job slots are interchangeable.
MC_JobSymmetry == Permutations(Jobs)
===============================================================================
