------------------------ MODULE MCRefreshCoordinator ------------------------
(* An instance of RefreshCoordinator for TLC. *)
EXTENDS RefreshCoordinator

CONSTANTS a1, a2, f1, f2, c1

TwoAccounts == <<a1, a2>>
=============================================================================
