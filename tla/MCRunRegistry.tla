---------------------------- MODULE MCRunRegistry ----------------------------
(* Small instances of RunRegistry.  Runs and sessions are interchangeable.  *)
EXTENDS RunRegistry, TLC

Symmetry == Permutations(Runs) \cup Permutations(Sessions)
=============================================================================
