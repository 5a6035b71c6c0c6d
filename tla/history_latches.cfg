SPECIFICATION Spec
CONSTANTS
  None = None
  Ids = {i1, i2, i3}
  Sessions = {s1, s2}
  Limits <- SmallLimits
  DefaultLimit = 2
SYMMETRY Interchangeable
CHECK_DEADLOCK FALSE
INVARIANT StoreNeverLatches
