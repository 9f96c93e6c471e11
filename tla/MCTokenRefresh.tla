--------------------------- MODULE MCTokenRefresh ---------------------------
(* Instances of TokenRefresh for TLC. *)
EXTENDS TokenRefresh, TLC

CONSTANTS t1, t2, i1, i2, n1, n2

\* The tasks run the same code, and so are the accounts alike.
Symmetry == Permutations({t1, t2}) \cup Permutations({i1, i2})
=============================================================================
