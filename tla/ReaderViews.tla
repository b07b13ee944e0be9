----------------------------- MODULE ReaderViews -----------------------------
(***************************************************************************)
(* Who sees what of a secret whose copies diverge: the proxy's ReadSecret  *)
(* and GetChecksum, the HSMSecret controller and the mirror each gather    *)
(* their own observations, count the devices in their own way and call     *)
(* Resolve; the proxy's ReadMetadata takes the newest metadata object and  *)
(* its ListSecrets the union of what the devices list, without Resolve.    *)
(* The copies do not change meanwhile, so that a difference between two    *)
(* views is never due to a concurrent write.                               *)
(***************************************************************************)
EXTENDS Observers

CONSTANTS
    Devices,      \* serial numbers listed by the pool
    Copies,       \* copies [data, meta] a device may hold
    Nothing       \* "not found"

\* Contents are neither answers nor tombstones.
ASSUME ViewsAssumption ==
    /\ Devices \subseteq Nat /\ IsFiniteSet(Devices)
    /\ \A c \in Copies :
          /\ c.data \notin {Nothing, TombstoneChecksum}
          /\ c.meta # NoMeta => c.meta \in [version : Nat, ts : Nat, deleted : BOOLEAN]

VARIABLES
    copy,         \* what each device holds
    up,           \* the device's agent answers
    now,          \* the manager's clock
    view          \* what each part has answered so far: a checksum, a
                  \* metadata object, whether the path is listed

viewVars == <<copy, up, now, view>>

Parts == {"proxy", "checksum", "metadata", "list", "controller", "mirror"}

Unresolved == [p \in Parts |-> {}]

Answering == {d \in Devices : up[d]}

Holding == {d \in Answering : copy[d].data # NoData}

Verdict(obs, deviceCount) ==
    IF ~Found(obs) THEN Nothing
    ELSE LET decision == Resolve(obs, deviceCount)
         IN  IF Deleted(decision) THEN Nothing ELSE decision.checksum

Observed(d) == ReaderObservation(d, copy[d].data, copy[d].meta)

\* ReadSecret and findMostRecentSecretResult: the clients that could be created
\* are counted, and only devices that return data vote.
ProxyVerdict == Verdict({Observed(d) : d \in Holding}, Cardinality(Answering))

\* GetChecksum and findConsensusChecksum.
ChecksumVerdict ==
    Verdict({ChecksumObservation(d, copy[d].data) : d \in Holding},
            Cardinality(Answering))

WithMetadata == {d \in Answering : copy[d].meta # NoMeta}

\* Mutant of MostRecentMetadata: the oldest timestamp wins.
LeastRecentMetadata ==
    {copy[d].meta : d \in {e \in WithMetadata :
        \A f \in WithMetadata : MetadataTimestamp(copy[e].meta)
                                   <= MetadataTimestamp(copy[f].meta)}}

\* findMostRecentMetadataResult: the first of the newest, in the order in which
\* the devices answered; a tombstone is metadata like any other.
MostRecentMetadata ==
    {copy[d].meta : d \in {e \in WithMetadata :
        \A f \in WithMetadata : MetadataTimestamp(copy[f].meta)
                                   <= MetadataTimestamp(copy[e].meta)}}

\* ReadMetadata.
MetadataVerdicts == IF WithMetadata = {} THEN {Nothing} ELSE MostRecentMetadata

\* ListSecrets: a device lists a path that has data objects.
ListVerdict == Holding # {}

\* Mutant of ControllerVerdict: the first device that answers is believed.
FirstDeviceVerdict ==
    IF Holding = {} THEN Nothing
    ELSE copy[CHOOSE d \in Holding : \A e \in Holding : d <= e].data

\* gatherSecretObservations and Reconcile: every listed device is counted.
ControllerVerdict ==
    Verdict({Observed(d) : d \in Holding}
              \cup {Abstention(d) : d \in Answering \ Holding},
            Cardinality(Devices))

\* buildSecretInventory and createMirrorPlanForSecret: the responding devices
\* are counted, and a copy without metadata is as old as the read.
MirrorVerdict ==
    Verdict({MirrorObservation(d, copy[d].data, MetadataVersion(copy[d].meta),
                IF copy[d].meta = NoMeta THEN now ELSE copy[d].meta.ts) : d \in Holding}
              \cup {Abstention(d) : d \in Answering \ Holding},
            Cardinality(Answering))

ViewsInit ==
    /\ copy \in [Devices -> Copies]
    /\ up \in [Devices -> BOOLEAN]
    /\ now = 1
    /\ view = Unresolved

Look(p, verdict) ==
    /\ view[p] = {}
    /\ Answering # {}
    /\ view' = [view EXCEPT ![p] = {verdict}]
    /\ UNCHANGED <<copy, up, now>>

ViewsNext ==
    \/ Look("proxy", ProxyVerdict)
    \/ Look("checksum", ChecksumVerdict)
    \/ \E m \in MetadataVerdicts : Look("metadata", m)
    \/ Look("list", ListVerdict)
    \/ Look("controller", ControllerVerdict)
    \/ Look("mirror", MirrorVerdict)

ViewsSpec == ViewsInit /\ [][ViewsNext]_viewVars

-----------------------------------------------------------------------------
Same(p, q) == view[p] # {} /\ view[q] # {} => view[p] = view[q]

\* What the proxy answers, what the controller puts into the Kubernetes Secret
\* and what the mirror spreads are the same content, although each counts the
\* devices differently: in pools of up to three devices, whichever agents are
\* down, as long as every copy carries metadata.
SmallPoolsSeeOneCopy ==
    Cardinality(Devices) <= 3 =>
        /\ Same("proxy", "controller")
        /\ Same("proxy", "mirror")

\* No deletion is under way, and where the copies differ the later version has
\* the later timestamp.
InOrder ==
    /\ \A d \in WithMetadata : ~MetadataDeleted(copy[d].meta)
    /\ \A d, e \in WithMetadata :
          copy[d].meta.version < copy[e].meta.version
             <=> copy[d].meta.ts < copy[e].meta.ts

\* What the proxy says of one secret fits together, although its handlers read
\* the devices separately and only ReadSecret votes: a path that is served is
\* listed, and the metadata served is that of a copy with the data served.
\* With more than two devices answering, the majority can outvote the newest
\* copy in ReadSecret and not in ReadMetadata.
ProxyAnswersFit ==
    /\ view["proxy"] # {} /\ view["proxy"] # {Nothing} => view["list"] # {FALSE}
    /\ /\ InOrder /\ Cardinality(Answering) <= 2
       /\ view["proxy"] # {} /\ view["metadata"] # {}
       => IF view["proxy"] = {Nothing} THEN view["metadata"] = {Nothing}
          ELSE \E d \in Holding : /\ view["proxy"] = {copy[d].data}
                                  /\ view["metadata"] = {copy[d].meta}

\* Does not hold: createMirrorPlanForSecret resolves "so the mirror agrees with
\* what the readers resolve", for a pool of any size.  It counts the devices
\* that respond, the readers those that are listed.
MirrorAgreesWithReaders == Same("controller", "mirror")
=============================================================================
