----------------------------- MODULE ResolveLoop -----------------------------
(***************************************************************************)
(* Resolve as the code computes it: loops that visit one observation per   *)
(* step (internal/reconcile/resolve.go).  The callers fill the slice from  *)
(* maps and channels, so the order of a visit is arbitrary.                *)
(***************************************************************************)
EXTENDS Reconcile

CONSTANTS
    Ids,            \* serial numbers
    Checksums,      \* contents a copy may have
    Versions,       \* values of sync.version
    Times,          \* values of sync.timestamp
    DeviceCounts,   \* values of the deviceCount argument
    NoDecision, NotFound

ASSUME ResolveAssumption ==
    /\ Ids \subseteq Nat /\ IsFiniteSet(Ids)
    /\ Versions \subseteq Int
    /\ Times \subseteq Int
    /\ DeviceCounts \subseteq Nat
    /\ TombstoneChecksum \notin Checksums

VARIABLES
    obs,            \* argument: the observations
    deviceCount,    \* argument
    pc,             \* the loop being run
    rest,           \* observations the loop has still to visit
    voters,         \* observations with an opinion
    counts,         \* votes per effective checksum
    best,           \* newest voter visited so far, {} or a singleton
    winning,        \* winningChecksum, {} or a singleton
    device,         \* lowest serial with the winning checksum, {} or a singleton
    outliers,       \* serials that voted differently
    strategy

vars == <<obs, deviceCount, pc, rest, voters, counts, best, winning, device,
          outliers, strategy>>

Contents == Checksums \cup {TombstoneChecksum}

\* What a caller can pass for one device: a copy, a tombstone or an abstention.
Observations ==
    {o \in DeviceObservation(Ids, Checksums \cup {NoChecksum}, Versions, Times) :
        /\ ~(o.present /\ o.tombstone)
        /\ o.present => o.checksum \in Checksums}

InitWith(S) ==
    /\ obs \in S
    /\ deviceCount \in DeviceCounts
    /\ Cardinality(obs) <= deviceCount   \* no caller passes fewer
    /\ pc = "collect"
    /\ rest = obs
    /\ voters = {}
    /\ counts = [c \in Contents |-> 0]
    /\ best = {}
    /\ winning = {}
    /\ device = {}
    /\ outliers = {}
    /\ strategy = "none"

Init == InitWith({S \in SUBSET Observations : DistinctIds(S)})

\* Mutant of CollectVote: devices without a copy vote too.
CollectEveryone(o) ==
    /\ pc = "collect" /\ o \in rest
    /\ rest' = rest \ {o}
    /\ voters' = voters \cup {o}
    /\ counts' = [counts EXCEPT ![EffectiveChecksum(o)] = @ + 1]
    /\ UNCHANGED <<obs, deviceCount, pc, best, winning, device, outliers, strategy>>

\* Filter the observation and count its vote.
CollectVote(o) ==
    /\ pc = "collect" /\ o \in rest
    /\ rest' = rest \ {o}
    /\ IF HasOpinion(o)
       THEN /\ voters' = voters \cup {o}
            /\ counts' = [counts EXCEPT ![EffectiveChecksum(o)] = @ + 1]
       ELSE UNCHANGED <<voters, counts>>
    /\ UNCHANGED <<obs, deviceCount, pc, best, winning, device, outliers, strategy>>

NoVoters ==
    /\ pc = "collect" /\ rest = {} /\ voters = {}
    /\ pc' = "done"
    /\ UNCHANGED <<obs, deviceCount, rest, voters, counts, best, winning, device,
                   outliers, strategy>>

\* Mutant of TakeMajority: half of the devices is enough.
TakeHalf(c) ==
    /\ pc = "collect" /\ rest = {} /\ voters # {}
    /\ deviceCount >= 3
    /\ counts[c] >= deviceCount \div 2
    /\ winning' = {c}
    /\ strategy' = "majority"
    /\ pc' = "scan"
    /\ rest' = voters
    /\ UNCHANGED <<obs, deviceCount, voters, counts, best, device, outliers>>

TakeMajority(c) ==
    /\ pc = "collect" /\ rest = {} /\ voters # {}
    /\ deviceCount >= 3
    /\ counts[c] > deviceCount \div 2
    /\ winning' = {c}
    /\ strategy' = "majority"
    /\ pc' = "scan"
    /\ rest' = voters
    /\ UNCHANGED <<obs, deviceCount, voters, counts, best, device, outliers>>

FallBack ==
    /\ pc = "collect" /\ rest = {} /\ voters # {}
    /\ deviceCount >= 3 => \A c \in Contents : ~(counts[c] > deviceCount \div 2)
    /\ strategy' = IF deviceCount >= 3 THEN "majority-fallback-lww" ELSE "lww"
    /\ pc' = "lww"
    /\ rest' = voters
    /\ UNCHANGED <<obs, deviceCount, voters, counts, best, winning, device, outliers>>

\* Mutant of KeepNewest: ties are left to the order of the visits.
KeepHighestVersion(o) ==
    /\ pc = "lww" /\ o \in rest
    /\ rest' = rest \ {o}
    /\ best' = IF \A b \in best : o.version > b.version THEN {o} ELSE best
    /\ UNCHANGED <<obs, deviceCount, pc, voters, counts, winning, device, outliers,
                   strategy>>

\* One iteration of lastWriteWins.
KeepNewest(o) ==
    /\ pc = "lww" /\ o \in rest
    /\ rest' = rest \ {o}
    /\ best' = IF \A b \in best : Newer(o, b) THEN {o} ELSE best
    /\ UNCHANGED <<obs, deviceCount, pc, voters, counts, winning, device, outliers,
                   strategy>>

TakeNewest ==
    /\ pc = "lww" /\ rest = {}
    /\ winning' = {EffectiveChecksum(o) : o \in best}
    /\ pc' = "scan"
    /\ rest' = voters
    /\ UNCHANGED <<obs, deviceCount, voters, counts, best, device, outliers, strategy>>

\* One iteration of lowestDeviceWithChecksum and of the outlier loop.
Compare(o) ==
    /\ pc = "scan" /\ o \in rest
    /\ rest' = rest \ {o}
    /\ IF EffectiveChecksum(o) \in winning
       THEN /\ device' = IF \A d \in device : o.id < d THEN {o.id} ELSE device
            /\ UNCHANGED outliers
       ELSE /\ outliers' = outliers \cup {o.id}
            /\ UNCHANGED device
    /\ UNCHANGED <<obs, deviceCount, pc, voters, counts, best, winning, strategy>>

Return ==
    /\ pc = "scan" /\ rest = {}
    /\ pc' = "done"
    /\ UNCHANGED <<obs, deviceCount, rest, voters, counts, best, winning, device,
                   outliers, strategy>>

Next ==
    \/ \E o \in rest : CollectVote(o) \/ KeepNewest(o) \/ Compare(o)
    \/ \E c \in Contents : TakeMajority(c)
    \/ NoVoters \/ FallBack \/ TakeNewest \/ Return

Spec == Init /\ [][Next]_vars

-----------------------------------------------------------------------------
(* The three variables that hold {} or one element are Go variables that   *)
(* are unset before their loop has run.                                    *)
Optional(S) == {T \in SUBSET S : \A x, y \in T : x = y}

\* Every variable keeps its type, and the loops only visit arguments.
TypeOK ==
    /\ obs \subseteq Observations
    /\ deviceCount \in DeviceCounts
    /\ pc \in {"collect", "lww", "scan", "done"}
    /\ rest \subseteq (IF pc = "collect" THEN obs ELSE voters)
    /\ voters \subseteq Voters(obs)
    /\ counts \in [Contents -> Nat]
    /\ best \in Optional(voters)
    /\ winning \in Optional(Contents)
    /\ device \in Optional(Ids)
    /\ outliers \subseteq Ids
    /\ strategy \in Strategies

CollectInvariant ==
    /\ voters = Voters(obs \ rest)
    /\ \A c \in Contents : counts[c] = Cardinality(Supporters(voters, c))
    /\ best = {} /\ winning = {} /\ device = {} /\ outliers = {}
    /\ strategy = "none"

NewestInvariant ==
    /\ voters # {}
    /\ strategy = Strategy(voters, deviceCount) /\ strategy # "majority"
    /\ rest # voters => best # {}
    /\ \A b \in best : /\ b \notin rest
                       /\ \A o \in voters \ rest : ~Newer(o, b)
    /\ device = {} /\ outliers = {}

ScanInvariant ==
    LET c     == WinningChecksum(voters, deviceCount)
        seen  == voters \ rest
        agree == Supporters(seen, c)
    IN  /\ voters # {}
        /\ strategy = Strategy(voters, deviceCount)
        /\ winning = {c}
        /\ outliers = {o.id : o \in seen \ agree}
        /\ agree # {} => device # {}
        /\ \A d \in device : /\ \E o \in agree : o.id = d
                             /\ \A o \in agree : d <= o.id

DoneInvariant ==
    LET c == WinningChecksum(voters, deviceCount)
    IN  /\ strategy = Strategy(voters, deviceCount)
        /\ winning = {c}
        /\ outliers = Outliers(voters, c)
        /\ device = {LowestDeviceWithChecksum(voters, c)}

\* What each loop has established about the observations it has visited, in
\* whatever order it visited them: the vote counts are the numbers of
\* supporters, best beats every visited voter, device is the lowest visited
\* supporter of the winner, outliers are the visited dissenters, and in the end
\* all of them are what the policy prescribes.
LoopInvariant ==
    /\ DistinctIds(obs) /\ Cardinality(obs) <= deviceCount
    /\ pc = "collect" => CollectInvariant
    /\ pc # "collect" => voters = Voters(obs)
    /\ pc = "lww" => NewestInvariant
    /\ pc = "scan" => ScanInvariant
    /\ pc = "done" /\ voters # {} => DoneInvariant

\* The decision the loops have computed so far.
Decision ==
    IF pc # "done" THEN NoDecision
    ELSE IF voters = {} THEN NotFound
    ELSE [checksum |-> CHOOSE c \in winning : TRUE,
          device   |-> CHOOSE d \in device : TRUE,
          strategy |-> strategy,
          outliers |-> outliers]

Once == INSTANCE ResolveOnce WITH decision <- Decision

\* Resolve returns what the policy prescribes for the set of observations: the
\* order in which the callers' maps and channels deliver them never shows.
ResolvesAsPrescribed == Once!Spec
=============================================================================
