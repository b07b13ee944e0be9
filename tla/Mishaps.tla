------------------------------- MODULE Mishaps -------------------------------
(***************************************************************************)
(* The bound on what goes wrong in a component.  A mishap is a step that   *)
(* the world takes against it: a crash, a failed or late call, something   *)
(* that goes away.  Each module says which of its steps are mishaps; no    *)
(* other step depends on their number.                                     *)
(***************************************************************************)
EXTENDS Naturals

CONSTANT MaxMishaps   \* bound: how many mishaps happen

VARIABLE mishaps      \* how many have happened

Mishap == mishaps < MaxMishaps /\ mishaps' = mishaps + 1
=============================================================================
