SPECIFICATION Spec
CONSTANTS
  MaxRetries = 0
  Tokens = 2
  Pieces <- MCPieces
  Texts = 3
  Batch = 2
INVARIANT RetriesThenFallback
INVARIANT TokensOnce
INVARIANT Reassembled
CHECK_DEADLOCK FALSE
