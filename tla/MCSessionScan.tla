---------------------------- MODULE MCSessionScan ----------------------------
(* Instances of SessionScan for TLC. *)
EXTENDS SessionScan
=============================================================================
