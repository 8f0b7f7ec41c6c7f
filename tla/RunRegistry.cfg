SPECIFICATION Spec
CONSTANTS
  Runs = {r1, r2, r3}
  Sessions = {s1, s2}
  MaxRecords = 1
  Clients = {c1}
  HasTimeout = TRUE
  NoRun = NoRun
  NoSession = NoSession
SYMMETRY Symmetry
INVARIANT InFlightExact
INVARIANT RunningNeverEvicted
INVARIANT EvictionKeepsNewest
PROPERTY WaiterSeesOutcome
PROPERTY CancelWins
PROPERTY MutexSpec
CHECK_DEADLOCK FALSE
