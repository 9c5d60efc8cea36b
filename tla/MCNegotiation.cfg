SPECIFICATION MCSpec
CONSTANTS
  Selling = 8
  Minimum = 1
  MaxDiscount = 4
  MaxOffers = 2
  Prices = {2, 3, 5, 6}
  Keys = {k1, k2}
  k1 = k1  k2 = k2
  Starters = {s1}
  Runs = {r1, r2}
  Customers = {a1}
  Confirmers = {c1, c2}
  MaxCrashes = 1
  None = None
SYMMETRY Names
INVARIANTS PriceIsKept
PROPERTIES ConfirmedStays
CHECK_DEADLOCK FALSE
