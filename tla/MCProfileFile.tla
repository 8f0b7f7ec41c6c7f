---------------------------- MODULE MCProfileFile ----------------------------
(* Small instances of ProfileFile: a tool call with a name and a note, and  *)
(* single notes.                                                            *)
EXTENDS ProfileFile, TLC
CONSTANTS v1, v2, v3

MCPatches ==
  {[name |-> v1, likes |-> <<v1>>, notes |-> <<v1>>]}
    \cup {[name |-> None, likes |-> <<>>, notes |-> <<v>>] : v \in {v2, v3}}
=============================================================================
