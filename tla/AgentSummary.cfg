SPECIFICATION Spec
CONSTANTS
  MaxRuns = 5
  MaxTurns = 1
  MaxCalls = 1
  Tools = {"unknown", "gated"}
  MaxToolConcurrency = 1
  MaxHistoryMessages = 4
  KeepRecentFullTurns = 1
  MaxSummaryBullets = 12
  SummaryRoom = 5
  LLMSummary = FALSE
INVARIANT NewestFactSurvives
CHECK_DEADLOCK FALSE
