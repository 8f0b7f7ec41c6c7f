SPECIFICATION FairSpec
CONSTANTS
  Tasks = {t1, t2}
  Workers = {w1, w2}
  QueueSize = 1
  MaxRestarts = 1
  StoreMayFail = FALSE
  ListMayFail = FALSE
  NoTask = NoTask
CHECK_DEADLOCK FALSE
PROPERTY AcceptedFinishes
