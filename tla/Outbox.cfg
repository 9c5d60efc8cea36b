CONSTANTS
  e1 = e1  e2 = e2  w1 = w1  w2 = w2  a1 = a1
  Events = {e1, e2}
  Workers = {w1, w2}
  Admins = {a1}
  MaxAttempts = 2
  MaxDeaths = 1
  MaxStalls = 1
  MaxReplays = 1
  NoWorker = NoWorker
  NoEvent = NoEvent
SPECIFICATION FairSpec
INVARIANT ReplayableUnlessCrashed
PROPERTIES DeliverySpec EventuallySettled
CHECK_DEADLOCK FALSE
