----------------------------- MODULE MCOversight -----------------------------
(* One project from its proposal on; the bounds are in the cfg.             *)
EXTENDS Oversight
CONSTANTS s1
=============================================================================
