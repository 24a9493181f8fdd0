\* One ride in tokens that is paid before the arrival.
SPECIFICATION FairSpec
CONSTANTS
  b1 = b1
  b2 = b2
  k1 = k1
  k2 = k2
  Bookings = {b1}
  Calls = {k1}
  Modes = {"points"}
  Fare = 2
  Reduced = 1
  Purchase = 2
  MaxBalance = 2
CHECK_DEADLOCK FALSE
PROPERTIES EarningCompleted
