SPECIFICATION DispatchSpec
CONSTANTS
  Groups = {g1}
  Reports = {"DELIVERY_FAILED"}
  Insists = TRUE
  Desk = {s1}
  Hooks = {d1, d2}
  PodLimit = 1
  MaxRepeats = 1
  MaxCrashes = 1
  Counter = {p1, p2}
  Customers = {c1}
INVARIANTS RefusalPerFailure LetGoOnce
PROPERTIES EventsSettle
CHECK_DEADLOCK FALSE
