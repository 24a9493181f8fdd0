\* One booking settled by declarations alone, two processes following up.
SPECIFICATION FairSpec
CONSTANTS
  b1 = b1
  e1 = e1
  e2 = e2
  w1 = w1
  w2 = w2
  k1 = k1
  Bookings = {b1}
  Evaluators = {}
  Workers = {w1, w2}
  Calls = {}
CHECK_DEADLOCK FALSE
INVARIANTS EffectsCovered
 
