\* One invitee, two inviters, two requests about the profile, one reward and two withdrawals.
SPECIFICATION ReferralsSpec
CONSTANTS
  u1 = u1
  p1 = p1
  p2 = p2
  k1 = k1
  k2 = k2
  s1 = s1
  r1 = r1
  r2 = r2
  Members = {u1, p1, p2}
  Invitees = {u1}
  Calls = {k1, k2}
  Sources = {s1}
  Payer <- PaidByFirst
  Share = 1
  Bonus = 1
  CashOuts = {r1, r2}
  Earner <- OwnedByFirst
  CashOutAmounts = {1}
SYMMETRY Symmetry
CHECK_DEADLOCK FALSE
INVARIANTS ReferralsTypeOK BucketsBalance 
