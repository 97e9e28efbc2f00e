---------------------------- MODULE MCEditVersions ----------------------------
(* Model checking of the writers of a record: two pages, of one session or *)
(* of two, and a request that takes no version.                            *)
EXTENDS EditVersions, TLC

CONSTANTS p1, p2, s1, s2, b1
MCPages == {p1, p2}
MCSessions == {s1, s2}
MCBatches == {b1}
Symmetry == Permutations(Pages) \cup Permutations(Sessions)
===============================================================================
