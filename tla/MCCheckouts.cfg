CONSTANTS
  u = u  v = v  own = own  assisted = assisted  other = other  None = None
  Customers = {u, v}
  Carts = {own, assisted, other}
  Assisted = {assisted}
  Quotes = {q}
  Previews = {p1, p2}
  Keys = {k1, k2}
  Requests = {r1, r2}
  Owner <- CartOwner
  QuotedTo <- QuoteOfFirst
  QuoteQty = 1
  Grant <- OneEach
  Cap = 2
  Coin = 1
  TotalLimit = 1
  PerUserLimit = 1
  Uses = {"credit", "payment"}
  MaxQty = 1
  MaxVersion = 2
  MaxLapses = 0
  MaxLost = 1
SPECIFICATION MCSpec
INVARIANTS OneOrderPerCheckout TakenOrGivenBack CouponWithinLimit
SYMMETRY Names
CHECK_DEADLOCK FALSE
