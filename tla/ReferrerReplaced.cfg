\* One invitee who follows two invitations and opens the referral screen.
SPECIFICATION ReferralsSpec
CONSTANTS
  u1 = u1
  p1 = p1
  p2 = p2
  k1 = k1
  k2 = k2
  s1 = s1
  r1 = r1
  r2 = r2
  Members = {u1, p1, p2}
  Invitees = {u1}
  Calls = {k1, k2}
  Sources = {}
  Payer <- PaidByFirst
  Share = 1
  Bonus = 1
  CashOuts = {}
  Earner <- OwnedByFirst
  CashOutAmounts = {1, 2}
CHECK_DEADLOCK FALSE
PROPERTIES ReferrerKept
