SPECIFICATION Spec
CONSTANTS
  None = None
  Torn = Torn
  r1 = r1
  r2 = r2
  Conversations <- MCConversations
  Entries = 2
  ThinkingTtl = 3
  LastStore = 5
  MaxStores = 4
  Owners <- MCOwners
  TTLs <- MCTTLs
  Default = 2
  LastGet = 4
  MaxResponses = 3
  Ranges <- MCRanges
  Retention = 4
  LastRecord = 8
  MaxRecords = 5
  Requests = {r1, r2}
  Sampled = r1
  Captures = 3
  MaxRounds = 2
  LastRound = 1
  MaxPersists = 3
  MaxPieces = 3
  MaxCalls = 2
  Paths = {"p"}
  MaxPings = 1
INVARIANTS
  RestoredAsStored
  FoundByItsOwner
  EachCountedOnce
  ChainsAreSuffixes
  SampleHasOwn
  AnsweredOnDisk
  ItemsWellFormed
  BlocksWellFormed
  CallsOnce
  TextOnce
  LinesTranslated
CHECK_DEADLOCK FALSE
