--------------------------- MODULE MCRideProgress ---------------------------
(* Small instances of RideProgress for TLC. *)
EXTENDS RideProgress, TLC

CONSTANTS b1, e1, e2, w1, w2, k1

Symmetry == Permutations(Evaluators)
=============================================================================
