--------------------------- MODULE MCCloudEntries ---------------------------
(* Instances of CloudEntries for TLC. *)
EXTENDS CloudEntries, TLC

CONSTANTS d1, d2, t1, t2, n1, n2, p1, p2

Symmetry == Permutations({d1, d2}) \cup Permutations({t1, t2})
            \cup Permutations({n1, n2}) \cup Permutations({p1, p2})
=============================================================================
