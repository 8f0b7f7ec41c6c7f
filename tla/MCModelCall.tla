----------------------------- MODULE MCModelCall -----------------------------
(* Small instances of ModelCall: an answer with two parallel tool calls of  *)
(* two pieces each, their indices with a gap.                               *)
EXTENDS ModelCall, TLC

MCPieces == 0 :> 2 @@ 2 :> 2
=============================================================================
