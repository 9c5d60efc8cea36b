SPECIFICATION MCSpec
CONSTANTS
  Requests = {1, 2, 3, 4, 5}
  Cats = {1, 2, 3}
  Subs = {1, 2}
  Images = {1, 2}
  Managers = {m1, m2}
  Prices = {1, 2}
  Cost = 1
INVARIANTS OnSaleIsConfirmed TwoLevelsUnlessRaced
PROPERTIES WrittenAsRead ExpiredComesDown
CHECK_DEADLOCK FALSE
