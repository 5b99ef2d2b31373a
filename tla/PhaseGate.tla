------------------------------ MODULE PhaseGate ------------------------------
(***************************************************************************)
(* What the phase lifecycle promises to the owner of a project, with no     *)
(* files, bundles, sessions or crashes in sight: a project works on one     *)
(* phase at a time; a finished phase waits; and it gives way to the next    *)
(* phase only once that has been authorised, by the owner's approval or by  *)
(* a standing pre-approval, after it was finished.  Nothing is promised of  *)
(* the authorisation of a project once it is spoiled.                       *)
(*                                                                         *)
(* ProjectLifecycle implements this.                                        *)
(***************************************************************************)
CONSTANTS Projects, Phases

VARIABLES
    phase,   \* the phase each project is in
    gate,    \* "working", "waiting" or "authorised"
    spoiled  \* the projects whose authorisation may be an old one

GateTypeOK ==
    /\ phase \in [Projects -> Phases]
    /\ gate \in [Projects -> {"working", "waiting", "authorised"}]
    /\ spoiled \subseteq Projects

GateInit == GateTypeOK /\ (\A p \in Projects : gate[p] = "working") /\ spoiled = {}

Pass(p, from, to) ==
    /\ gate[p] = from
    /\ gate' = [gate EXCEPT ![p] = to]

Finish(p)    == Pass(p, "working", "waiting") /\ UNCHANGED phase
Authorise(p) == Pass(p, "waiting", "authorised") /\ UNCHANGED phase

AdvanceTo(p, next) ==
    /\ \/ Pass(p, "authorised", "working")
       \/ p \in spoiled /\ Pass(p, "waiting", "working")
    /\ phase' = [phase EXCEPT ![p] = next]

(* The owner's write may be an approval and spoil other projects at once.   *)
GateNext ==
    /\ spoiled \subseteq spoiled'
    /\ \/ UNCHANGED <<phase, gate>>
       \/ \E p \in Projects :
             \/ Finish(p) \/ Authorise(p)
             \/ \E next \in Phases \ {phase[p]} : AdvanceTo(p, next)

GateSpec == GateInit /\ [][GateNext]_<<phase, gate, spoiled>>
=============================================================================
