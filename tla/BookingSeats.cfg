\* Two bookings for one or two seats, two calls in flight.
SPECIFICATION Spec
CONSTANTS
  b1 = b1
  b2 = b2
  b3 = b3
  k1 = k1
  k2 = k2
  k3 = k3
  Bookings = {b1, b2}
  Calls = {k1, k2}
  Total = 1
  MaxTotal = 2
SYMMETRY Symmetry
CHECK_DEADLOCK FALSE
INVARIANTS TypeOK DeadlocksOnOneBooking
PROPERTIES AcceptedWithinSeats
