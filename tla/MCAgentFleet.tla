---------------------------- MODULE MCAgentFleet ----------------------------
(* Instances of AgentFleet for TLC. *)
EXTENDS AgentFleet

CONSTANTS n1, n2, s1, s2, p1

TwoNodes == {n1, n2}
TwoSerials == {s1, s2}
OneSerial == {s1}
OnePath == {p1}

(* The nodes are alike and so are the devices: of the initial states that  *)
(* differ only in names, one is enough.                                    *)
Representative ==
  /\ bus[s1].node # n2
  /\ bus[s2].node # n1
  /\ bus[s1] = Unplugged => bus[s2] = Unplugged

(* All mishaps befall an installation that works, at most one befalls one  *)
(* that is being set up.                                                   *)
MCInit ==
  /\ FleetStart
  /\ Representative
  /\ mishaps = (IF pool.phase = "Ready" THEN 0 ELSE MaxMishaps - 1)

MCFleetSpec == MCInit /\ [][FleetNext]_allVars /\ Fairness

(* An installation that works, with its mishaps to come. *)
MCSettled == Settled /\ mishaps = 0

MCSettledSpec == MCSettled /\ [][FleetNext]_allVars /\ Fairness
=============================================================================
