\* One ride, every way to pay; one request, the provider and the repair.
SPECIFICATION FairSpec
CONSTANTS
  b1 = b1
  b2 = b2
  k1 = k1
  k2 = k2
  Bookings = {b1}
  Calls = {k1}
  Modes = {"cash", "points", "electronic"}
  Fare = 2
  Reduced = 1
  Purchase = 2
  MaxBalance = 2
CHECK_DEADLOCK FALSE
INVARIANTS TypeOK ReturnedWithinDebit EarningBacked PaidHasDebit
PROPERTIES RepairTakesNothing DebitCompleted
