\* One purchase, one call at a time, and the clock passes its end.
SPECIFICATION Spec
CONSTANTS
  b1 = b1
  c1 = c1
  Buyers = {b1}
  Checkers = {b1}
  Bound = 1
  Routes <- Both
  Period = 1
  Trial = 1
  Horizon = 1
CHECK_DEADLOCK FALSE
INVARIANTS OnePeriod
