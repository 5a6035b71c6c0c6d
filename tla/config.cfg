SPECIFICATION Spec
CONSTANTS
  Accounts = {"a1", "a2"}
  Proxies = {"p1"}
  Keys = {"k1", "k2"}
  Names = {"n"}
  Passwords = {"pw1"}
  Limits = {1}
  ImportedProxies = {}
  Imports <- OneImport
  Setups <- FiveSetups
  Actors = {i1, i2}
  MaxOps = 3
  MaxRestarts = 1
  MaxTime = 2
  None = None
  Broken = Broken
SYMMETRY ActorSymmetry
INVARIANTS
  SavedSurvives
  KeysAsAsked
  NothingDangles
  
  SyncedMeansPushed
CHECK_DEADLOCK FALSE
