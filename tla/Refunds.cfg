CONSTANTS
  r1 = r1  r2 = r2  q1 = q1  a1 = a1  a2 = a2  j1 = j1
  Records = {r1}
  Requests = {q1}
  Amount <- Halves
  Captured = 2
  Admins = {a1, a2}
  Desks <- DesksOfRuns
  Jobs = {j1}
  Replies = {"ok", "rejected", "lost_done", "lost_late", "lost_never"}
  MaxTries = 2
  MaxCrashes = 1
  MaxDbErrors = 1
  None = None
SPECIFICATION FairSpec
INVARIANTS RefundedIsReal OneRefundUnlessError ReservationCovers
PROPERTIES ParkedIsRecorded
CHECK_DEADLOCK FALSE
