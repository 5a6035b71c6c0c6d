SPECIFICATION StableFairSpec
CONSTANTS
  a1 = a1
  a2 = a2
  None = None
  Accounts = {a1, a2}
  Callers = {c1, c2, c3}
  Requests <- MCRequests
  Cancellable = {}
  Admins = {m1}
  StoreChoices <- BothAccounts
  Settings <- TwoSettings
PROPERTIES
  WaiterIsWoken
