SPECIFICATION FairSpec
CONSTANTS
  ToolCalls = {c1, c2}
  Hello = Hello
  List = List
  NoCall = NoCall
  Broken = Broken
  Room = 0
  BadFrames = TRUE
INVARIANT AnswerIsOwn
INVARIANT PendingIsLive
PROPERTY CallReturns
 
PROPERTY StartupFailureKills
CHECK_DEADLOCK FALSE
