CONSTANTS
  h1 = h1  h2 = h2  s1 = s1  p1 = p1  p2 = p2  a1 = a1  a2 = a2  o1 = o1  o2 = o2  w1 = w1
  Method = "PAY_AT_HANDOVER"
  Webhooks = {h1}
  PrepaidWebhooks = {h1, h2}
  Polls = {s1}
  Payers = {p1}
  PrepaidPayers = {p1, p2}
  Admins = {a1}
  Operators = {o1, o2}
  Workers = {w1}
  MaxCrashes = 1
  PayRequests = {1, 2, 3}
  MaxLapses = 1
SPECIFICATION MCSpec
INVARIANTS MoneyAgrees CreditsReturned
PROPERTIES PaidIsConfirmed ConfirmedNeverReverts AttemptPaidIsConfirmed
CHECK_DEADLOCK FALSE
