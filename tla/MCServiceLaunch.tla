--------------------------- MODULE MCServiceLaunch ---------------------------
(***************************************************************************)
(* Instance of ServiceLaunch for TLC: two ports for three instances, and   *)
(* two launchers that start again when they have ended.                    *)
(***************************************************************************)
EXTENDS ServiceLaunch, TLC

CONSTANTS a, b, c, l1, l2

Symmetry == Permutations({a, b, c}) \cup Permutations({l1, l2})
=============================================================================
