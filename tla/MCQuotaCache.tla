---------------------------- MODULE MCQuotaCache ----------------------------
(* Instances of QuotaCache for TLC. *)
EXTENDS QuotaCache, TLC

CONSTANTS t1, t2, t3, a1, a2

Symmetry == Permutations({t1, t2, t3}) \cup Permutations({a1, a2})
=============================================================================
