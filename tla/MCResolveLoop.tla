---------------------------- MODULE MCResolveLoop ----------------------------
(* Three devices, two contents, two versions and two timestamps.  A device  *)
(* is down (no observation), abstains, holds a copy or holds a tombstone.   *)
EXTENDS ResolveLoop

CONSTANTS a, b

MCIds == 1..3
MCChecksums == {a, b}
MCVersions == 0..1
MCTimes == 0..1
MCDeviceCounts == 1..4

Copies(d) ==
    {[id |-> d, present |-> TRUE, tombstone |-> FALSE, checksum |-> c,
      version |-> v, ts |-> t] : c \in {a, b}, v \in 0..1, t \in 0..1}

\* The API stamps a tombstone with version 0.
Tombstones(d) ==
    {[id |-> d, present |-> FALSE, tombstone |-> TRUE, checksum |-> NoChecksum,
      version |-> 0, ts |-> t] : t \in 0..1}

Views(d) == Copies(d) \cup Tombstones(d) \cup {Abstention(d)}

ViewSets ==
    {x \cup y \cup z : x \in {{}} \cup {{o} : o \in Views(1)},
                       y \in {{}} \cup {{o} : o \in Views(2)},
                       z \in {{}} \cup {{o} : o \in Views(3)}}

MCInit == InitWith(ViewSets)

MCSpec == MCInit /\ [][Next]_vars
=============================================================================
