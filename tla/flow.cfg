SPECIFICATION Spec
CONSTANTS
  a1 = a1
  a2 = a2
  c1 = c1
  c2 = c2
  c3 = c3
  None = None
  Accounts = {a1, a2}
  Callers = {c1, c2, c3}
  Apis <- MCApis
  Bodies <- MCBodies
  MaxPers = {1}
  Modes = {"single", "all"}
  MaxAttempts = 2
  MaxInline = 2
SYMMETRY AccountSymmetry
CHECK_DEADLOCK FALSE
INVARIANTS
  SlotsAccounted
  
  HistorySettled
PROPERTIES
  SparesOthers
