-------------------------- MODULE MCDashboardRollup --------------------------
(***************************************************************************)
(* Small instances of DashboardRollup.                                     *)
(***************************************************************************)
EXTENDS DashboardRollup, TLC

CONSTANTS s1, s2, w1, w2

\* Saves and workers are interchangeable.
MCSymmetry == Permutations({s1, s2}) \cup Permutations({w1, w2})
==============================================================================
