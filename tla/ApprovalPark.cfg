SPECIFICATION FairSpec
CONSTANTS
  Asks = {a1, a2}
  Clients = {c1, c2}
  NoAsk = NoAsk
INVARIANT AllowIsDecided
INVARIANT SendNeverBlocks
INVARIANT NoEntryLeft
INVARIANT DecisionStands
PROPERTY AskEnds
CHECK_DEADLOCK FALSE
