SPECIFICATION Spec
CONSTANTS
  a1 = a1
  a2 = a2
  None = None
  Accounts = {a1, a2}
  Callers = {c1, c2, c3}
  Requests <- PlainRequests
  Cancellable = {c1, c2, c3}
  Admins = {m1}
  StoreChoices <- MCStores
  Settings <- OneSetting
SYMMETRY CallerSymmetry
INVARIANTS
  WaitersExact
  CountsBackedByLeases
  QueueMatchesStore
