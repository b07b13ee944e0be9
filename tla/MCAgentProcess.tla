--------------------------- MODULE MCAgentProcess ---------------------------
(* Model values for AgentProcess. *)
EXTENDS AgentProcess

CONSTANTS r1, r2, w1, v1, pin1, pin2

TwoReads == {r1, r2}
OneWrite == {w1}
OneValue == {v1}
TwoPins == {pin1, pin2}

(* The names of the PINs do not matter, and without a library auto-        *)
(* provisioning is never looked at.                                        *)
MCInit ==
  /\ AgentInit
  /\ pinSecret = pin1
  /\ config.library \/ ~config.auto
MCAgentSpec == MCInit /\ [][AgentNext]_vars /\ AgentFairness

=============================================================================
