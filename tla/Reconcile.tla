------------------------------ MODULE Reconcile ------------------------------
(***************************************************************************)
(* The shared policy that decides which copy of a secret wins when HSM     *)
(* devices disagree (internal/reconcile/resolve.go), as operators on a set *)
(* of observations.  A serial number is a natural number: the code only    *)
(* compares serials for equality and order.  A checksum stands for the     *)
(* content it is computed from.                                            *)
(***************************************************************************)
EXTENDS Integers, FiniteSets

CONSTANT TombstoneChecksum     \* the sentinel a tombstone votes for
CONSTANT NoChecksum            \* "": the checksum of a device without a copy

\* The strategies a decision reports.
Strategies == {"none", "lww", "majority", "majority-fallback-lww"}

\* One device's view of one secret path.
DeviceObservation(Ids, Checksums, Versions, Times) ==
    [id : Ids, present : BOOLEAN, tombstone : BOOLEAN,
     checksum : Checksums, version : Versions, ts : Times]

\* The observation of a device that lacks the secret.
Abstention(d) ==
    [id |-> d, present |-> FALSE, tombstone |-> FALSE,
     checksum |-> NoChecksum, version |-> 0, ts |-> 0]

\* The callers key their observations by serial number.
DistinctIds(S) == \A o, p \in S : o.id = p.id => o = p

HasOpinion(o) == o.present \/ o.tombstone

EffectiveChecksum(o) == IF o.tombstone THEN TombstoneChecksum ELSE o.checksum

Voters(obs) == {o \in obs : HasOpinion(o)}

Supporters(voters, c) == {o \in voters : EffectiveChecksum(o) = c}

Candidates(voters) == {EffectiveChecksum(o) : o \in voters}

\* More than half of the expected devices, not of the responders.
StrictMajority(votes, deviceCount) == votes > deviceCount \div 2

MajorityChecksums(voters, deviceCount) ==
    {c \in Candidates(voters) :
        StrictMajority(Cardinality(Supporters(voters, c)), deviceCount)}

\* o beats p: highest version, then latest timestamp, then lowest serial.
Newer(o, p) ==
    \/ o.version > p.version
    \/ o.version = p.version /\ o.ts > p.ts
    \/ o.version = p.version /\ o.ts = p.ts /\ o.id < p.id

LastWriteWins(voters) == CHOOSE o \in voters : \A p \in voters : ~Newer(p, o)

\* Mutant of Strategy: three devices do not vote.
StrategyAboveThree(voters, deviceCount) ==
    CASE voters = {} -> "none"
      [] voters # {} /\ deviceCount <= 3 -> "lww"
      [] voters # {} /\ deviceCount > 3 ->
            IF MajorityChecksums(voters, deviceCount) # {}
            THEN "majority" ELSE "majority-fallback-lww"

Strategy(voters, deviceCount) ==
    CASE voters = {} -> "none"
      [] voters # {} /\ deviceCount < 3 -> "lww"
      [] voters # {} /\ deviceCount >= 3 ->
            IF MajorityChecksums(voters, deviceCount) # {}
            THEN "majority" ELSE "majority-fallback-lww"

WinningChecksum(voters, deviceCount) ==
    IF Strategy(voters, deviceCount) = "majority"
    THEN CHOOSE c \in MajorityChecksums(voters, deviceCount) : TRUE
    ELSE EffectiveChecksum(LastWriteWins(voters))

\* The lowest serial among the devices that hold the winning content.
LowestDeviceWithChecksum(voters, c) ==
    CHOOSE d \in {o.id : o \in Supporters(voters, c)} :
        \A o \in Supporters(voters, c) : d <= o.id

Outliers(voters, c) == {o.id : o \in voters \ Supporters(voters, c)}

\* Resolve for the case that some device holds a copy (Found).
Resolve(obs, deviceCount) ==
    LET voters == Voters(obs)
        c      == WinningChecksum(voters, deviceCount)
    IN  [checksum |-> c,
         device   |-> LowestDeviceWithChecksum(voters, c),
         strategy |-> Strategy(voters, deviceCount),
         outliers |-> Outliers(voters, c)]

Found(obs) == Voters(obs) # {}

Deleted(decision) == decision.checksum = TombstoneChecksum

Diverged(decision) == decision.outliers # {}
=============================================================================
