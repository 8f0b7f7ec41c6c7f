SPECIFICATION FairServerSpec
CONSTANTS
  Runs = {r1, r2}
  Sessions = {s1}
  MaxRecords = 1
  Clients = {}
  HasTimeout = TRUE
  NoRun = NoRun
  NoSession = NoSession
INVARIANT RecordMatchesHistory
INVARIANT CountersAddUp
INVARIANT ChannelTellsOnce
INVARIANT WaitingClientReadsInOrder
PROPERTY HistoryOnlyGrows
PROPERTY RunEnds
CHECK_DEADLOCK FALSE
