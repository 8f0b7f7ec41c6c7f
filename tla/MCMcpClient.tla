----------------------------- MODULE MCMcpClient -----------------------------
(* Small instances of McpClient. *)
EXTENDS McpClient, TLC
=============================================================================
