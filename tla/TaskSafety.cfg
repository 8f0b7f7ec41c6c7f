SPECIFICATION Spec
CONSTANTS
  Tasks = {t1, t2, t3}
  Workers = {w1, w2}
  QueueSize = 1
  MaxRestarts = 2
  StoreMayFail = FALSE
  ListMayFail = TRUE
  NoTask = NoTask
SYMMETRY Symmetry
INVARIANT ExecuteAtMostOnce
INVARIANT ToldNeverRuns
INVARIANT AcceptedNotLost
PROPERTY FinalStatus
CHECK_DEADLOCK FALSE
