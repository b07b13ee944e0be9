----------------------------- MODULE ResolveOnce -----------------------------
(***************************************************************************)
(* What Resolve promises: one step that turns a set of observations into   *)
(* the decision the policy of Reconcile prescribes, whatever order the     *)
(* observations arrive in.                                                 *)
(***************************************************************************)
CONSTANTS Found(_), Resolve(_, _)   \* the policy of Reconcile
CONSTANT NoDecision            \* Resolve has not returned yet
CONSTANT NotFound              \* Decision{Found: false}

VARIABLES obs, deviceCount, decision

vars == <<obs, deviceCount, decision>>

Init == decision = NoDecision

Decide ==
    /\ decision = NoDecision
    /\ decision' = IF Found(obs) THEN Resolve(obs, deviceCount) ELSE NotFound
    /\ UNCHANGED <<obs, deviceCount>>

Spec == Init /\ [][Decide]_vars
=============================================================================
