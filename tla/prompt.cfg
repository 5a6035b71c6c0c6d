SPECIFICATION Spec
CONSTANTS
  Chats <- MCChats
  Inputs <- MCInputs
  ToolSets <- MCToolSets
  ToolChoices <- MCToolChoices
  Triggers = {1, 2}
INVARIANTS
  SaidReachesModel
CHECK_DEADLOCK FALSE
