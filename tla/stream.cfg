SPECIFICATION FairSpec
CONSTANTS
  MaxLines = 2
  MaxRounds = 1
  Buffer = 1
  MaxSilent = 2
  MaxIdle = 1
  Tools = TRUE
CHECK_DEADLOCK FALSE
INVARIANTS
  OneDone
  HistoryTellsOutcome
  FinishReasonTellsCalls
PROPERTIES
  EverythingEnds
