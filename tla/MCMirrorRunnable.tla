-------------------------- MODULE MCMirrorRunnable --------------------------
(* Instances of MirrorRunnable for TLC. *)
EXTENDS MirrorRunnable

CONSTANTS r1, r2

TwoTriggers == {r1, r2}
OneForced == {r1}

(* Agents are there and nothing fails: what remains is the order of steps. *)
MCUndisturbed == MirrorInit /\ agentsUp /\ mishaps = MaxMishaps
MCUndisturbedSpec == MCUndisturbed /\ [][MirrorNext]_mirrorVars
=============================================================================
