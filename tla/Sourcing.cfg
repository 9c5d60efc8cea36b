CONSTANTS
  i1 = i1  i2 = i2  p1 = p1  p2 = p2  a1 = a1  s1 = s1
  None = None
  Items = {i1, i2}
  Packages = {p1, p2}
  Associates = {a1}
  Staff = {s1}
  MaxVersion = 8
  MaxChecks = 4
  MaxDetours = 1
SPECIFICATION SourcingSpec
SYMMETRY Symmetry
INVARIANT ReadyForHub
CHECK_DEADLOCK FALSE
