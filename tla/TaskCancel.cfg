SPECIFICATION Spec
CONSTANTS
  Tasks = {t1, t2}
  Workers = {w1, w2}
  QueueSize = 1
  MaxRestarts = 2
  StoreMayFail = FALSE
  ListMayFail = TRUE
  NoTask = NoTask
CHECK_DEADLOCK FALSE
INVARIANT AskedIsCancelled
