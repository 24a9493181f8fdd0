\* One request, two drivers, one call at a time against the cron, and one rescheduling.
SPECIFICATION FairSpec
CONSTANTS
  d1 = d1
  d2 = d2
  o1 = o1
  o2 = o2
  t1 = t1
  t2 = t2
  k1 = k1
  k2 = k2
  Drivers = {d1, d2}
  Offers = {o1, o2}
  Trips = {t1}
  Calls = {k1}
  ShortGrace = 1
  LongGrace = 2
  FirstDate = 0
  LastDate = 1
CHECK_DEADLOCK FALSE
INVARIANTS TypeOK ToldWhenOverdue
PROPERTIES ExpiryLoses 
