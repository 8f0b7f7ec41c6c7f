SPECIFICATION FairSpec
CONSTANTS
  Tasks = {t1, t2}
  Workers = {w1, w2}
  QueueSize = 1
  MaxRestarts = 0
  StoreMayFail = TRUE
  ListMayFail = TRUE
  NoTask = NoTask
CHECK_DEADLOCK FALSE
INVARIANT RunningIsCancellable
INVARIANT AskedNeverFails
PROPERTY AcceptedFinishes
PROPERTY StopReturns
