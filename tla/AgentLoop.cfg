SPECIFICATION FairSpec
CONSTANTS
  MaxRuns = 3
  MaxTurns = 2
  MaxCalls = 2
  Tools = {"unknown", "gated"}
  MaxToolConcurrency = 1
  MaxHistoryMessages = 5
  KeepRecentFullTurns = 1
  MaxSummaryBullets = 3
  SummaryRoom = 2
  LLMSummary = TRUE
INVARIANT ProtocolKept
INVARIANT HistoryIsRecent
PROPERTY NewestTurnWhole
PROPERTY RunReturns
CHECK_DEADLOCK FALSE
