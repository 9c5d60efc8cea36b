CONSTANTS
  a1 = a1  a2 = a2  a3 = a3  a4 = a4  None = None
  Attempts = {a2, a3, a4}
  Hash <- OneDiffers
  MaxOutlived = 2  MaxCrashes = 2  MaxExpiries = 2
  Nodes = {"a", "b"}
  Lookups = {1, 2}  At <- OnePerNode  MaxChanges = 1  MaxLost = 1  MayMemo = TRUE
  StaffRequests = {1}  Administrators = {1, 2}  MaxEdits = 2  MaxBoots = 1
  Roles = {"DISPATCH_HUB_OFFICER", "DISPATCH_HUB_MANAGER"}  Watched <- TwoPermissions
  States = {"s1", "s2"}  Cities = {"c1", "c2", "c3"}  Hubs = {"h1", "h2", "h3"}
  Markets = {"m1", "m2"}  Addresses = {"a1", "a2"}  Placings = {1, 2, 3}
  Places = {"p1", "p2"}  Rules = {1, 2}  Sources = {1, 2, 3}  Repricings = {1, 2}
  Visits = {1, 2, 3, 4}  MaxMishaps = 1
  Shelf = {1, 2, 3}  Worths = {1, 2}  PageSize = 1  MaxRevisions = 2
  DeskRequests = {1, 2, 3, 4}  Items = {1, 2, 3}  Price <- Rising  Fee = 5  MaxRetries = 1
  CartRequests = {1, 2, 3}  CartNodes = {"a", "b"}  Products = {1, 2}  Carts = {1, 2, 3}
  Agreed = 1  QuoteQty = 2  Batch = 2  MaxQty = 3  MaxMoves = 1
  People = {1, 2, 3, 4}  Partners = {3, 4}  Staffing = {1, 2, 3}  Tasks = {1}
  NoticeRequests = {1, 2, 3, 4}  Keys = {"order", "pay", "cart", "arrivals", "news"}
  Engagement = {"cart", "arrivals"}  Groups = {"reminders", "discovery"}  GroupOf <- AboutGroup
  Tokens = {"t1", "t2", "web"}  Browsers = {"web"}  Sessions = {"s1", "s2", "s3"}  Customer <- OneOther
  Cap = 1  MaxLostNotes = 1
SPECIFICATION CustodySpec
INVARIANT CustodyIsNotStranded
CHECK_DEADLOCK FALSE
