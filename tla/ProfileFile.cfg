SPECIFICATION Spec
CONSTANTS
  Goroutines = {g1, g2, t1}
  Tasks = {t1}
  v1 = v1
  v2 = v2
  v3 = v3
  Values = {v1, v2, v3}
  None = None
  Garbled = Garbled
  Patches <- MCPatches
  MaxLikes = 2
  MaxNotes = 2
  MaxUpdates = 3
INVARIANT FileIsNewest
PROPERTY LoadSeesWholeSave
PROPERTY OnlyStaleForgets
CHECK_DEADLOCK FALSE
