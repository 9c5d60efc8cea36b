CONSTANTS
  r1 = r1  r2 = r2  q1 = q1  a1 = a1  a2 = a2  j1 = j1
  Records = {}
  Requests = {q1}
  Amount <- Halves
  Captured = 2
  Admins = {a1, a2}
  Desks <- DesksOfRuns
  Jobs = {}
  Replies = {"ok"}
  MaxTries = 2
  MaxCrashes = 0
  MaxDbErrors = 0
  None = None
SPECIFICATION Spec
INVARIANTS OneRefundPerKey
CHECK_DEADLOCK FALSE
