\* One booking, two processes evaluating, one driver request at a time.
SPECIFICATION Spec
CONSTANTS
  b1 = b1
  e1 = e1
  e2 = e2
  w1 = w1
  w2 = w2
  k1 = k1
  Bookings = {b1}
  Evaluators = {e1, e2}
  Workers = {}
  Calls = {k1}
SYMMETRY Symmetry
CHECK_DEADLOCK FALSE
INVARIANTS TypeOK  AbsenceUncontested 
 
