\* Two payouts of one driver, two requests that send them, a status check.
SPECIFICATION Spec
CONSTANTS
  d1 = d1
  r1 = r1
  r2 = r2
  c1 = c1
  c2 = c2
  k1 = k1
  Drivers = {d1}
  Requests <- TwoRequests
  Callers = {c1, c2}
  Checkers = {k1}
  Routes <- FlexPayOnly
  MayReverse = TRUE
  Owner <- OneDriverOwns
  Amounts = {1}
  MaxEarned = 1
SYMMETRY Symmetry
CHECK_DEADLOCK FALSE
INVARIANTS TypeOK PaidWithinEarnings ReviewsEnd
PROPERTIES RefinesContract 
