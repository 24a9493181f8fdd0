\* One purchase: the driver's requests, one after the other, against a check at a time.
SPECIFICATION FairSpec
CONSTANTS
  b1 = b1
  c1 = c1
  Buyers = {b1}
  Checkers = {c1}
  Bound = 1
  Routes <- Both
  Period = 1
  Trial = 1
  Horizon = 1
CHECK_DEADLOCK FALSE
INVARIANTS TypeOK PaidBeforeActive BonusEarnedOnce
 
