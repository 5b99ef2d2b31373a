---------------------------- MODULE MCSessionLock ----------------------------
(* Small instances of SessionLock for TLC.                                  *)
EXTENDS SessionLock, TLC

CONSTANTS w1, m1, x1

(* Which firing is of which kind, for every session a cfg puts in Sessions. *)
MCKind == [s \in Sessions |->
             CASE s = m1 -> "manager" [] s = x1 -> "manual" [] OTHER -> "worker"]
=============================================================================
