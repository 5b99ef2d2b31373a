---------------------------- MODULE MCEventViews ----------------------------
(* Two runs, projects and values; the constants are in the cfgs.            *)
EXTENDS EventViews, TLC
CONSTANTS r1, r2, s1, s2, v1, v2

MCSymmetry == Permutations({r1, r2}) \cup Permutations({s1, s2})
=============================================================================
