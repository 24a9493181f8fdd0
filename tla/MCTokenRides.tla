---------------------------- MODULE MCTokenRides ----------------------------
(* Small instances of TokenRides for TLC. *)
EXTENDS TokenRides

CONSTANTS b1, b2, k1, k2

=============================================================================
