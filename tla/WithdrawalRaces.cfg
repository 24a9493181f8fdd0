\* One withdrawal, every provider order, two concurrent status checks, the cron and the clock.
SPECIFICATION FairSpec
CONSTANTS
  u1 = u1
  r1 = r1
  c1 = c1
  c2 = c2
  Users = {u1}
  Requests <- OneRequest
  Checkers = {c1, c2}
  Routes <- AllRoutes
  MayReverse = TRUE
  Owner <- OneUserOwns
  Amounts = {2}
  Opening <- MixedOnly
  MaxBalance = 3
CHECK_DEADLOCK FALSE
INVARIANTS TypeOK OneTransfer RefundOnce Conservation
PROPERTIES RefinesContract EventuallySettled  ReviewFreezes
