----------------------------- MODULE MCStepFeed -----------------------------
(* Small bridges: w1 and w2 are connections of monitor pages, s1 one of the  *)
(* sessions page; two runs of the engine and a command typed by the owner.  *)
EXTENDS StepFeed, TLC

CONSTANTS w1, w2, s1, r1, r2, k1, k2

MCTwoRuns == {<<r1, "T0">>, <<r1, "T6">>, <<r2, "T0">>}

MCLastSteps == {<<r1, "T9">>, <<Cli, "T1">>}

MCNoKeys == <<>>

MCKeys == <<k1, k2, k1>>

MCSymmetry == Permutations({w1, w2})
=============================================================================
