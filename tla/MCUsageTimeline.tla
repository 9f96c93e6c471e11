--------------------------- MODULE MCUsageTimeline ---------------------------
(* Instances of UsageTimeline for TLC. *)
EXTENDS UsageTimeline, TLC
Symmetry == Permutations(Windows) \cup Permutations(People) \cup Permutations(Names)
=============================================================================
