-------------------------- MODULE MCManagerClients --------------------------
(* Instances of ManagerClients for TLC. *)
EXTENDS ManagerClients

CONSTANTS s1, s2, ip1, ip2, ip3, p1, p2, m1

TwoDevices == {s1, s2}
OneDevice == {s1}
TwoIPs == {ip1, ip2}
ThreeIPs == {ip1, ip2, ip3}
OneProxy == {p1}
TwoProxies == {p1, p2}
OneOther == {m1}

(* The IPs are alike: of the placements that differ only in names one is   *)
(* enough.                                                                 *)
MCInit == ClientsInit /\ podIP[s1] = ip1 /\ (s2 \in Devices => podIP[s2] = ip2)
MCClientsSpec == MCInit /\ [][ClientsNext]_clientVars /\ ClientsFairness
=============================================================================
