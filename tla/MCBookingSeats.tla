--------------------------- MODULE MCBookingSeats ---------------------------
(* Small instances of BookingSeats for TLC. *)
EXTENDS BookingSeats, TLC

CONSTANTS b1, b2, b3, k1, k2, k3

Symmetry == Permutations(Calls) \cup Permutations(Bookings)
=============================================================================
