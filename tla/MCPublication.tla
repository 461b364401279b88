--------------------------- MODULE MCPublication ---------------------------
(* Two records with one projection each, published at two destinations.    *)
EXTENDS Publication, TLC
CONSTANTS r1, r2, v1, d1, d2
MCRecordIds == {r1, r2}
MCProjections == {v1}
MCDestinations == {d1, d2}
Symmetry == Permutations(MCRecordIds) \cup Permutations(MCDestinations)
=============================================================================
