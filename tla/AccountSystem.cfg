SPECIFICATION MCSpec
CONSTANTS
  Requests = {1, 2, 3, 4}
  Workers = {w1, w2}
  MaxCrashes = 1
  MaySlow = FALSE
INVARIANTS CancelledIsKept
PROPERTIES RenewedOnceWhileOpen AcceptKeepsOut ErasureEnds
CHECK_DEADLOCK FALSE
