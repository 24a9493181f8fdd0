--------------------------- MODULE MCTripRequests ---------------------------
(* Small instances of TripRequests for TLC. *)
EXTENDS TripRequests

CONSTANTS d1, d2, o1, o2, t1, t2, k1, k2

=============================================================================
