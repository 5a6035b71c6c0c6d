SPECIFICATION FairSpec
CONSTANTS
  a1 = a1
  a2 = a2
  None = None
  Accounts = {a1, a2}
  Callers = {c1, c2}
  Targets <- AnyOrFirst
  MaxPer = 1
  MaxQueues = {0, 2}
  Global = 0
  MaxAttempts = 2
CHECK_DEADLOCK FALSE
INVARIANTS
  NoSlotLost
PROPERTIES
  RequestsFinish
