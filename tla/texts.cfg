SPECIFICATION BothSpec
CONSTANTS
  MaxTokens = 4
  MaxFragments = 2
  MaxRounds = 1
  MinSnapshot = 2
  Urls <- ThreeUrls
INVARIANTS
  
  
  TextAsWhole
  CallsAsWhole
CHECK_DEADLOCK FALSE
