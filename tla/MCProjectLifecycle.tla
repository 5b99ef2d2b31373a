------------------------- MODULE MCProjectLifecycle -------------------------
(* A small workspace for TLC: one project, whose two phases succeed each    *)
(* other in turn.                                                          *)
EXTENDS ProjectLifecycle, TLC

CONSTANTS p1, ph1, ph2

MCPriority == [p \in Projects |-> 1]

MCOther == [f \in Phases |-> Phases \ {f}]
=============================================================================
