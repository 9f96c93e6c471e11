---------------------------- MODULE MCSwitchLock ----------------------------
(* Instances of SwitchLock for TLC. *)
EXTENDS SwitchLock

CONSTANTS p1, p2, local

OneHost == [p \in Procs |-> local]
=============================================================================
