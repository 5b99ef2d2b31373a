--------------------------- MODULE MCOwnerConsole ---------------------------
(* Two pages and two slugs, which are alike; the bounds are in the cfgs.    *)
EXTENDS OwnerConsole
CONSTANTS p1, p2, s1, s2

MCSymmetry == Permutations({p1, p2}) \cup Permutations({s1, s2})
=============================================================================
