SPECIFICATION AllSpec
CONSTANTS
  MaxQueries = 3
  MaxCalls = 2
  RecursionLimits = {4, 5, 6}
  MaxCompactions = 1
  Models <- SomeModels
  Uploads <- SomeFiles
  KindOf <- KindOfName
  MaxFiles = 2
  MaxPrompts = 2
  MaxQuestions = 2
  MaxGone = 1
CHECK_DEADLOCK FALSE
INVARIANTS PromptPaired HistoryKept PromptShows
PROPERTIES RepairKeeps
