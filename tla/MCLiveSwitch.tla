---------------------------- MODULE MCLiveSwitch ----------------------------
(* Instances of LiveSwitch for TLC. *)
EXTENDS LiveSwitch, TLC

CONSTANTS a1, a2, q1, q2

\* The accounts are interchangeable, and so are the providers.
Symmetry == Permutations({a1, a2}) \cup Permutations({q1, q2})
=============================================================================
