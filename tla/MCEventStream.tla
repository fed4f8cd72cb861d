--------------------------- MODULE MCEventStream ---------------------------
(* Two writers, a link that fails early, a month that turns meanwhile.       *)
EXTENDS EventStream, TLC

CONSTANTS w1, w2

MCBackoff == <<1, 2>>
Symmetry == Permutations(Writers)
=============================================================================
