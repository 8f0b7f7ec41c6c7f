---------------------------- MODULE MCApprovalPark ----------------------------
(* A small instance of ApprovalPark; liveness is checked, so no symmetry.   *)
EXTENDS ApprovalPark
=============================================================================
