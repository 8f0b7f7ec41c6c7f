--------------------------- MODULE MCServerChannel ---------------------------
(* Small instances of ServerChannel. *)
EXTENDS ServerChannel, TLC
=============================================================================
