---------------------------- MODULE MCTaskManager ----------------------------
(* Small instances of TaskManager.  Tasks and workers are interchangeable.  *)
EXTENDS TaskManager, TLC

Symmetry == Permutations(Tasks) \cup Permutations(Workers)
=============================================================================
