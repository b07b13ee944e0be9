----------------------------- MODULE SecretSync -----------------------------
(***************************************************************************)
(* One secret path replicated over the HSM devices of a pool: the REST     *)
(* proxy that fans writes and deletions out to the device agents           *)
(* (internal/api/proxy_client.go), the mirror manager that copies between  *)
(* devices (internal/mirror/manager.go), and the PKCS#11 client they both  *)
(* reach through the agents (internal/hsm/pkcs11_client.go).  Every RPC to *)
(* a device is one step, so requests and sweeps interleave between any two *)
(* RPCs.  A device keeps the data objects and the metadata object of the   *)
(* path; a write replaces both and may fail half way.                      *)
(***************************************************************************)
EXTENDS Observers

CONSTANTS
    Devices,      \* serial numbers of the pool's devices
    Values,       \* non-empty secret contents; a checksum stands for a content
    Requests,     \* API requests, each served once
    Sweeps,       \* mirror sweeps that may run at the same time
    DropKey,      \* content that is left when one key is removed
    MaxClock,     \* bound on the manager's clock
    MaxFaults     \* bound on outages and failed writes

ASSUME SyncAssumption ==
    /\ Devices \subseteq Nat /\ IsFiniteSet(Devices)
    /\ NoData \notin Values /\ TombstoneChecksum \notin Values
    /\ NoChecksum = NoData
    /\ DropKey \in [Values -> Values \cup {NoData}]
    /\ MaxClock \in Nat /\ MaxFaults \in Nat

VARIABLES
    data,         \* data objects of the path on each device
    meta,         \* metadata object of the path on each device
    up,           \* the device's agent answers
    req,          \* API requests
    sweep,        \* mirror sweeps
    now,          \* the manager's clock, in the seconds of RFC3339
    faults        \* outages and failed writes so far

vars == <<data, meta, up, req, sweep, now, faults>>

Contents == Values \cup {NoData}

Metadata == [version : Nat, ts : Nat, deleted : BOOLEAN]

Stamp(v, t) == [version |-> v, ts |-> t, deleted |-> FALSE]

Larger(x, y) == IF x >= y THEN x ELSE y

Remaining(v) == IF v = NoData THEN NoData ELSE DropKey[v]

-----------------------------------------------------------------------------
(* The device: WriteSecret destroys the old objects, creates the data      *)
(* objects and then the metadata object, and returns at the first error.   *)

\* What a write of v and m that reports an error can leave on device d.
HalfWritten(d, v, m) ==
    {<<data[d], meta[d]>>, <<NoData, meta[d]>>, <<data[d], NoMeta>>,
     <<Remaining(data[d]), meta[d]>>, <<NoData, NoMeta>>,
     <<Remaining(v), NoMeta>>, <<v, NoMeta>>, <<v, m>>}

WriteSecret(d, v, m, err) ==
    \/ /\ ~up[d] /\ err
       /\ UNCHANGED <<data, meta, faults>>
    \/ /\ up[d] /\ ~err
       /\ data' = [data EXCEPT ![d] = v]
       /\ meta' = [meta EXCEPT ![d] = m]
       /\ UNCHANGED faults
    \/ /\ up[d] /\ err
       /\ faults < MaxFaults
       /\ faults' = faults + 1
       /\ \E c \in HalfWritten(d, v, m) :
             /\ data' = [data EXCEPT ![d] = c[1]]
             /\ meta' = [meta EXCEPT ![d] = c[2]]

-----------------------------------------------------------------------------
(* The REST proxy.                                                         *)

NewRequest == [pc |-> "idle", kind |-> "none", value |-> NoData, clients |-> {},
               todo |-> {}, version |-> 0, ts |-> 0, ok |-> FALSE]

\* Mutant of Begin: the search for the highest version starts at -1.
BeginBelowZero(r, kind, pc, v, t) ==
    LET clients == {d \in Devices : up[d]}
    IN  /\ req[r].pc = "idle"
        /\ clients # {}
        /\ req' = [req EXCEPT ![r] =
              [pc |-> pc, kind |-> kind, value |-> v, clients |-> clients,
               todo |-> clients, version |-> -1, ts |-> t, ok |-> FALSE]]
        /\ UNCHANGED <<data, meta, up, sweep, now, faults>>

\* getAllAvailableGRPCClients: the devices that answer; none is an error 503.
Begin(r, kind, pc, v, t) ==
    LET clients == {d \in Devices : up[d]}
    IN  /\ req[r].pc = "idle"
        /\ clients # {}
        /\ req' = [req EXCEPT ![r] =
              [pc |-> pc, kind |-> kind, value |-> v, clients |-> clients,
               todo |-> clients, version |-> 0, ts |-> t, ok |-> FALSE]]
        /\ UNCHANGED <<data, meta, up, sweep, now, faults>>

BeginWrite(r) == \E v \in Values : Begin(r, "write", "version", v, 0)

\* The tombstone's timestamp is taken before the fan-out.
BeginDelete(r) == Begin(r, "delete", "erase", NoData, now)

BeginDeleteKey(r) == Begin(r, "key", "drop", NoData, 0)

\* nextVersion reads one device's metadata; a read error counts as version 0.
ReadVersion(r, d) ==
    /\ req[r].pc = "version" /\ d \in req[r].todo
    /\ req' = [req EXCEPT
          ![r].todo = @ \ {d},
          ![r].version = IF up[d] THEN Larger(@, MetadataVersion(meta[d])) ELSE @]
    /\ UNCHANGED <<data, meta, up, sweep, now, faults>>

\* nextVersion returns and WriteSecret stamps the metadata.
IssueVersion(r) ==
    /\ req[r].pc = "version" /\ req[r].todo = {}
    /\ req' = [req EXCEPT ![r].pc = "write", ![r].todo = req[r].clients,
                          ![r].version = @ + 1, ![r].ts = now]
    /\ UNCHANGED <<data, meta, up, sweep, now, faults>>

\* writeToAllDevices: one goroutine per device.
WriteDevice(r, d) ==
    /\ req[r].pc = "write" /\ d \in req[r].todo
    /\ \E err \in BOOLEAN :
          /\ WriteSecret(d, req[r].value, Stamp(req[r].version, req[r].ts), err)
          /\ req' = [req EXCEPT ![r].todo = @ \ {d}, ![r].ok = @ \/ ~err]
    /\ UNCHANGED <<up, sweep, now>>

\* tombstoneDeleteFromAllDevices: delete the objects, whatever the outcome.
\* clients keeps the devices that still need their tombstone.
EraseDevice(r, d) ==
    /\ req[r].pc = "erase" /\ d \in req[r].todo
    /\ \E err \in BOOLEAN : WriteSecret(d, NoData, NoMeta, err)
    /\ req' = [req EXCEPT ![r].todo = @ \ {d}]
    /\ UNCHANGED <<up, sweep, now>>

\* ... then write no data with tombstone metadata.
TombstoneDevice(r, d) ==
    /\ req[r].pc = "erase" /\ d \in req[r].clients \ req[r].todo
    /\ \E err \in BOOLEAN :
          /\ WriteSecret(d, NoData,
                [version |-> 0, ts |-> req[r].ts, deleted |-> TRUE], err)
          /\ req' = [req EXCEPT ![r].clients = @ \ {d}, ![r].ok = @ \/ ~err]
    /\ UNCHANGED <<up, sweep, now>>

\* deleteKeyFromAllDevices: destroy the data object of one key; it is an error
\* when the device has no such object.
DropDeviceKey(r, d) ==
    LET hasKey == up[d] /\ Remaining(data[d]) # data[d]
    IN  /\ req[r].pc = "drop" /\ d \in req[r].todo
        /\ \/ /\ hasKey
              /\ data' = [data EXCEPT ![d] = Remaining(@)]
              /\ req' = [req EXCEPT ![r].todo = @ \ {d}, ![r].ok = TRUE]
              /\ UNCHANGED faults
           \/ /\ ~hasKey
              /\ req' = [req EXCEPT ![r].todo = @ \ {d}]
              /\ UNCHANGED <<data, faults>>
           \/ /\ hasKey /\ faults < MaxFaults
              /\ faults' = faults + 1
              /\ \E v \in {data[d], Remaining(data[d])} :
                    data' = [data EXCEPT ![d] = v]
              /\ req' = [req EXCEPT ![r].todo = @ \ {d}]
        /\ UNCHANGED <<meta, up, sweep, now>>

\* The response: success when at least one device succeeded (field ok).
Respond(r) ==
    /\ \/ req[r].pc \in {"write", "drop"} /\ req[r].todo = {}
       \/ req[r].pc = "erase" /\ req[r].clients = {}
    /\ req' = [req EXCEPT ![r].pc = "done", ![r].clients = {}]
    /\ UNCHANGED <<data, meta, up, sweep, now, faults>>

-----------------------------------------------------------------------------
(* The mirror manager.                                                     *)

\* A device's entry in the inventory of a sweep.
Unread == [status |-> "unread", content |-> NoData, version |-> 0, ts |-> 0,
           hasMeta |-> FALSE]

SecretState ==
    [status : {"unread", "error", "absent", "present"}, content : Contents,
     version : Nat, ts : Nat, hasMeta : BOOLEAN]

NewSweep == [pc |-> "idle", todo |-> {}, cur |-> {}, held |-> NoData, own |-> NoData,
             inv |-> [d \in Devices |-> Unread], type |-> "skip", source |-> {},
             version |-> 0, ts |-> 0, ok |-> TRUE]

\* The sweep returns; nothing it has read is kept.
EndSweep(s) == sweep' = [sweep EXCEPT ![s] = NewSweep]

\* MirrorAllSecrets and discoverAllSecrets: at least two devices, and some
\* device that answers lists the path.
BeginSweep(s) ==
    /\ sweep[s].pc = "idle"
    /\ Cardinality(Devices) > 1
    /\ \E d \in Devices : up[d] /\ data[d] # NoData
    /\ sweep' = [sweep EXCEPT ![s].pc = "inventory", ![s].todo = Devices]
    /\ UNCHANGED <<data, meta, up, req, now, faults>>

\* buildSecretInventory reads the data of device d.  An agent that is found
\* disconnected is an error; a read that fails after that counts as an absence.
InventoryData(s, d) ==
    /\ sweep[s].pc = "inventory" /\ d \in sweep[s].todo
    /\ IF up[d] /\ data[d] # NoData
       THEN sweep' = [sweep EXCEPT ![s].pc = "metadata", ![s].cur = {d},
                        ![s].inv[d] = [status |-> "present", content |-> data[d],
                                       version |-> 0, ts |-> now, hasMeta |-> FALSE]]
       ELSE \E st \in IF up[d] THEN {"absent"} ELSE {"error", "absent"} :
              sweep' = [sweep EXCEPT ![s].todo = @ \ {d},
                          ![s].inv[d] = [Unread EXCEPT !.status = st]]
    /\ UNCHANGED <<data, meta, up, req, now, faults>>

\* ... then its metadata; without it the version is 0 and the timestamp the
\* time of the read.
InventoryMetadata(s, d) ==
    /\ sweep[s].pc = "metadata" /\ d \in sweep[s].cur
    /\ sweep' = [sweep EXCEPT ![s].pc = "inventory", ![s].todo = @ \ {d},
          ![s].cur = {},
          ![s].inv[d] = IF up[d] /\ meta[d] # NoMeta
                        THEN [@ EXCEPT !.version = meta[d].version,
                                       !.ts = meta[d].ts, !.hasMeta = TRUE]
                        ELSE @]
    /\ UNCHANGED <<data, meta, up, req, now, faults>>

InventoryObservation(d, st) ==
    IF st.status = "present" THEN MirrorObservation(d, st.content, st.version, st.ts)
                             ELSE Abstention(d)

InStatus(inv, status) == {d \in Devices : inv[d].status = status}

\* Mutant of MirrorPlan: devices that disagree are not corrected.
PlanWithoutOutliers(inv) ==
    LET responding == Devices \ InStatus(inv, "error")
        needSecret == InStatus(inv, "absent")
        needMeta   == {d \in InStatus(inv, "present") : ~inv[d].hasMeta}
        decision   == Resolve({InventoryObservation(d, inv[d]) : d \in responding},
                              Cardinality(responding))
    IN  [source  |-> decision.device,
         targets |-> (needSecret \cup needMeta) \ {decision.device},
         type    |-> IF needSecret # {} THEN "create"
                     ELSE IF needMeta # {} THEN "restore" ELSE "update"]

\* createMirrorPlanForSecret, for an inventory in which some device has the
\* secret.  Without targets the plan is a skip.
MirrorPlan(inv) ==
    LET responding == Devices \ InStatus(inv, "error")
        needSecret == InStatus(inv, "absent")
        needMeta   == {d \in InStatus(inv, "present") : ~inv[d].hasMeta}
        decision   == Resolve({InventoryObservation(d, inv[d]) : d \in responding},
                              Cardinality(responding))
    IN  [source  |-> decision.device,
         targets |-> (needSecret \cup needMeta \cup decision.outliers)
                        \ {decision.device},
         type    |-> IF needSecret # {} THEN "create"
                     ELSE IF needMeta # {} THEN "restore" ELSE "update"]

MakePlan(s) ==
    LET plan == MirrorPlan(sweep[s].inv)
    IN  /\ sweep[s].pc = "inventory" /\ sweep[s].todo = {}
        /\ IF InStatus(sweep[s].inv, "present") # {} /\ plan.targets # {}
           THEN sweep' = [sweep EXCEPT ![s] =
                   [NewSweep EXCEPT !.pc = "source", !.todo = plan.targets,
                                    !.type = plan.type, !.source = {plan.source}]]
           ELSE EndSweep(s)
        /\ UNCHANGED <<data, meta, up, req, now, faults>>

\* Mutant of ReadSource: a source that lost its copy is copied all the same.
ReadSourceUnchecked(s, d) ==
    /\ sweep[s].pc = "source" /\ d \in sweep[s].source
    /\ IF up[d]
       THEN sweep' = [sweep EXCEPT ![s].pc = "version", ![s].held = data[d]]
       ELSE EndSweep(s)
    /\ UNCHANGED <<data, meta, up, req, now, faults>>

\* executeMirrorPlan reads the source's data again ...
ReadSource(s, d) ==
    /\ sweep[s].pc = "source" /\ d \in sweep[s].source
    /\ IF up[d] /\ data[d] # NoData
       THEN sweep' = [sweep EXCEPT ![s].pc = "version", ![s].held = data[d]]
       ELSE EndSweep(s)
    /\ UNCHANGED <<data, meta, up, req, now, faults>>

\* Mutant of ReadSourceVersion: the mirror bumps the version.
ReadSourceBumping(s, d) ==
    LET m == IF up[d] THEN meta[d] ELSE NoMeta
    IN  /\ sweep[s].pc = "version" /\ d \in sweep[s].source
        /\ sweep' = [sweep EXCEPT
              ![s].pc = IF sweep[s].type = "restore" /\ m = NoMeta
                        THEN "restore" ELSE "targets",
              ![s].version = MetadataVersion(m) + 1, ![s].ts = now]
        /\ UNCHANGED <<data, meta, up, req, now, faults>>

\* ... and its metadata, and takes over the source's version, at least 1.
ReadSourceVersion(s, d) ==
    LET m == IF up[d] THEN meta[d] ELSE NoMeta
    IN  /\ sweep[s].pc = "version" /\ d \in sweep[s].source
        /\ sweep' = [sweep EXCEPT
              ![s].pc = IF sweep[s].type = "restore" /\ m = NoMeta
                        THEN "restore" ELSE "targets",
              ![s].version = Larger(1, MetadataVersion(m)), ![s].ts = now]
        /\ UNCHANGED <<data, meta, up, req, now, faults>>

SweepStamp(s) == Stamp(sweep[s].version, sweep[s].ts)

\* Metadata is restored on the source first; a failure abandons the plan.
RestoreSource(s, d) ==
    /\ sweep[s].pc = "restore" /\ d \in sweep[s].source
    /\ \E err \in BOOLEAN :
          /\ WriteSecret(d, sweep[s].held, SweepStamp(s), err)
          /\ IF err THEN EndSweep(s)
                    ELSE sweep' = [sweep EXCEPT ![s].pc = "targets"]
    /\ UNCHANGED <<up, req, now>>

\* Create and update write the source's content to a target.
SyncTarget(s, d) ==
    /\ sweep[s].pc = "targets" /\ sweep[s].type # "restore" /\ d \in sweep[s].todo
    /\ \E err \in BOOLEAN :
          /\ WriteSecret(d, sweep[s].held, SweepStamp(s), err)
          /\ sweep' = [sweep EXCEPT ![s].todo = @ \ {d}, ![s].ok = @ /\ ~err]
    /\ UNCHANGED <<up, req, now>>

\* writeMetadataOnly reads the target's own data ...
ReadTarget(s, d) ==
    /\ sweep[s].pc = "targets" /\ sweep[s].type = "restore" /\ d \in sweep[s].todo
    /\ IF up[d] /\ data[d] # NoData
       THEN sweep' = [sweep EXCEPT ![s].pc = "stamp", ![s].cur = {d},
                                   ![s].own = data[d]]
       ELSE sweep' = [sweep EXCEPT ![s].todo = @ \ {d}, ![s].ok = FALSE]
    /\ UNCHANGED <<data, meta, up, req, now, faults>>

\* Mutant of StampTarget: the metadata is written without the data.
StampEmpty(s, d) ==
    /\ sweep[s].pc = "stamp" /\ d \in sweep[s].cur
    /\ \E err \in BOOLEAN :
          /\ WriteSecret(d, NoData, SweepStamp(s), err)
          /\ sweep' = [sweep EXCEPT ![s].pc = "targets", ![s].cur = {},
                                    ![s].own = NoData,
                                    ![s].todo = @ \ {d}, ![s].ok = @ /\ ~err]
    /\ UNCHANGED <<up, req, now>>

\* ... and writes it back with the new metadata.
StampTarget(s, d) ==
    /\ sweep[s].pc = "stamp" /\ d \in sweep[s].cur
    /\ \E err \in BOOLEAN :
          /\ WriteSecret(d, sweep[s].own, SweepStamp(s), err)
          /\ sweep' = [sweep EXCEPT ![s].pc = "targets", ![s].cur = {},
                                    ![s].own = NoData,
                                    ![s].todo = @ \ {d}, ![s].ok = @ /\ ~err]
    /\ UNCHANGED <<up, req, now>>

\* The plan succeeds when no target failed (field ok).
FinishSweep(s) ==
    /\ sweep[s].pc = "targets" /\ sweep[s].todo = {}
    /\ EndSweep(s)
    /\ UNCHANGED <<data, meta, up, req, now, faults>>

-----------------------------------------------------------------------------
(* The environment: agents stop and restart, time passes.                  *)

AgentDown(d) ==
    /\ up[d] /\ faults < MaxFaults
    /\ up' = [up EXCEPT ![d] = FALSE]
    /\ faults' = faults + 1
    /\ UNCHANGED <<data, meta, req, sweep, now>>

AgentUp(d) ==
    /\ ~up[d]
    /\ up' = [up EXCEPT ![d] = TRUE]
    /\ UNCHANGED <<data, meta, req, sweep, now, faults>>

Tick ==
    /\ now < MaxClock
    /\ now' = now + 1
    /\ UNCHANGED <<data, meta, up, req, sweep, faults>>

Init ==
    /\ data = [d \in Devices |-> NoData]
    /\ meta = [d \in Devices |-> NoMeta]
    /\ up = [d \in Devices |-> TRUE]
    /\ req = [r \in Requests |-> NewRequest]
    /\ sweep = [s \in Sweeps |-> NewSweep]
    /\ now = 0
    /\ faults = 0

RequestBegins(r) == BeginWrite(r) \/ BeginDelete(r) \/ BeginDeleteKey(r)

RequestStep(r) ==
    \/ IssueVersion(r) \/ Respond(r)
    \/ \E d \in Devices : \/ ReadVersion(r, d) \/ WriteDevice(r, d)
                          \/ EraseDevice(r, d) \/ TombstoneDevice(r, d)
                          \/ DropDeviceKey(r, d)

SweepStep(s) ==
    \/ BeginSweep(s) \/ MakePlan(s) \/ FinishSweep(s)
    \/ \E d \in Devices : \/ InventoryData(s, d) \/ InventoryMetadata(s, d)
                          \/ ReadSource(s, d) \/ ReadSourceVersion(s, d)
                          \/ RestoreSource(s, d) \/ SyncTarget(s, d)
                          \/ ReadTarget(s, d) \/ StampTarget(s, d)

Next ==
    \/ \E r \in Requests : RequestBegins(r) \/ RequestStep(r)
    \/ \E s \in Sweeps : SweepStep(s)
    \/ \E d \in Devices : AgentDown(d) \/ AgentUp(d)
    \/ Tick

Spec == Init /\ [][Next]_vars

\* Requests are served, agents restart, and the mirror runnable keeps sweeping:
\* triggers and a periodic ticker start a sweep, and a sweep runs to its end.
Fairness ==
    /\ \A r \in Requests : WF_vars(RequestStep(r))
    /\ \A s \in Sweeps : WF_vars(SweepStep(s))
    /\ \A d \in Devices : WF_vars(AgentUp(d))

FairSpec == Spec /\ Fairness

-----------------------------------------------------------------------------
RequestType ==
    [pc : {"idle", "version", "write", "erase", "drop", "done"},
     kind : {"none", "write", "delete", "key"}, value : Contents,
     clients : SUBSET Devices, todo : SUBSET Devices, version : Nat, ts : Nat,
     ok : BOOLEAN]

SweepType ==
    [pc : {"idle", "inventory", "metadata", "source", "version", "restore",
           "targets", "stamp"},
     todo : SUBSET Devices, cur : SUBSET Devices, held : Contents, own : Contents,
     inv : [Devices -> SecretState], type : {"skip", "create", "restore", "update"},
     source : SUBSET Devices, version : Nat, ts : Nat, ok : BOOLEAN]

\* Every variable keeps its type: in particular a plan's source and targets are
\* devices of the pool, so executeMirrorPlan's lookups never fail.
TypeOK ==
    /\ data \in [Devices -> Contents]
    /\ meta \in [Devices -> Metadata \cup {NoMeta}]
    /\ up \in [Devices -> BOOLEAN]
    /\ req \in [Requests -> RequestType]
    /\ sweep \in [Sweeps -> SweepType]
    /\ now \in Nat
    /\ faults \in Nat

\* A request between its start and its response.
Active(r) == req[r].pc \notin {"idle", "done"}

\* The versions nextVersion has handed to a write.
Minted ==
    {req[r].version : r \in {q \in Requests : /\ req[q].kind = "write"
                                              /\ req[q].pc \in {"write", "done"}}}

\* Only the API's write path mints versions (executeMirrorPlan): whatever copies
\* the mirror makes, and however requests, sweeps and failures interleave, a
\* version on a device was minted by a write, or is a tombstone's 0, or the 1
\* with which the mirror bootstraps a copy that had no metadata.
ReplicationMintsNoVersion ==
    \A d \in Devices :
        meta[d] # NoMeta => meta[d].version \in Minted \cup {0, 1}

\* Contents closed under removing keys that contain everything submitted.
ClosedContents ==
    {P \in SUBSET Values :
        /\ \A v \in P : DropKey[v] \in P \cup {NoData}
        /\ \A r \in Requests : req[r].kind = "write" => req[r].value \in P}

Known == {v \in Values : \A P \in ClosedContents : v \in P}

Contract ==
    INSTANCE SecretContract WITH copy <- data, known <- Known,
        deleting <- \E r \in Requests : req[r].pc \in {"erase", "drop"}

\* The proxy and the mirror keep the contract: no device ever holds content no
\* client submitted, and no step of a write or a sweep makes a copy disappear
\* unless a device write fails.
KeepsContract == Contract!Spec

-----------------------------------------------------------------------------
\* Everything a sweep has read and may still write somewhere.
Remembered(s) ==
    {sweep[s].held, sweep[s].own} \cup {sweep[s].inv[d].content : d \in Devices}

\* All devices hold v, no request is under way, and no sweep still carries
\* content it read before.
Settled(v) ==
    /\ \A d \in Devices : data[d] = v
    /\ \A r \in Requests : ~Active(r)
    /\ \A s \in Sweeps : Remembered(s) \subseteq {v, NoData}

\* An agreed secret is a fixed point of mirroring: once all devices hold the
\* same content, sweeps (several at a time, with agents down, whatever versions
\* and metadata the copies carry) leave every copy in place until a new request
\* starts or a device write fails.
AgreementIsStable ==
    [][ \A v \in Values :
          Settled(v) /\ req' = req /\ faults' = faults => Settled(v)' ]_vars

\* At most one sweep is under way.
OneSweep == \A s, t \in Sweeps : s = t \/ sweep[s].pc = "idle" \/ sweep[t].pc = "idle"

\* Q is more than half of at least three devices and holds v, all agents answer,
\* no request is under way, and the sweep, if there is one, has seen nothing of
\* an earlier state: what it read as v is v, and it copies from v.
QuorumHolds(Q, v) ==
    /\ Cardinality(Devices) >= 3
    /\ StrictMajority(Cardinality(Q), Cardinality(Devices))
    /\ \A d \in Devices : up[d]
    /\ \A d \in Q : data[d] = v
    /\ \A r \in Requests : ~Active(r)
    /\ OneSweep
    /\ \A s \in Sweeps :
          /\ sweep[s].pc \in {"inventory", "metadata"} => \A d \in Devices :
                /\ sweep[s].inv[d].status # "error"
                /\ d \in Q /\ sweep[s].inv[d].status # "unread" =>
                      sweep[s].inv[d].status = "present" /\ sweep[s].inv[d].content = v
                /\ sweep[s].inv[d].content = v => data[d] = v
          /\ \A d \in sweep[s].source : data[d] = v
          /\ sweep[s].pc \in {"version", "restore", "targets", "stamp"} =>
                sweep[s].held = v
          /\ sweep[s].pc = "stamp" => \A d \in sweep[s].cur : sweep[s].own = data[d]

\* Majority wins: content that more than half of three or more devices hold is
\* not displaced by mirroring, whatever versions, timestamps or metadata the
\* copies carry, until a request starts, an agent stops, a device write fails or
\* a second sweep overlaps.
MajorityIsStable ==
    [][ \A Q \in SUBSET Devices, v \in Values :
          QuorumHolds(Q, v) /\ OneSweep' /\ UNCHANGED <<req, faults, up>>
             => QuorumHolds(Q, v)' ]_vars

\* Rewriting the source to restore its metadata destroys its objects first.  If
\* every target still has its copy when that happens, the secret survives on some
\* device even when the rewrite fails half way.
LastCopySurvives ==
    [][ \A s \in Sweeps, d \in Devices :
          RestoreSource(s, d) /\ (\A t \in sweep[s].todo : data[t] # NoData)
             => \E e \in Devices : data'[e] # NoData ]_vars

\* When requests, outages and write failures have stopped, sweeps bring all
\* devices to the same content, and it stays.
Convergence == <>[](\A d, e \in Devices : data[d] = data[e])

-----------------------------------------------------------------------------
(* Do not hold: what comments in the code say, and the code does not do.   *)

\* tombstoneDeleteFromAllDevices "leaves tombstone metadata to prevent
\* resurrection": data comes back to a tombstoned device only through a write.
TombstonePreventsResurrection ==
    [][ \A d \in Devices :
          /\ MetadataDeleted(meta[d]) /\ data[d] = NoData
          /\ \A r \in Requests : ~Active(r)
          => data'[d] = NoData ]_vars

\* WriteSecret: the version "makes 'newest' correct regardless of wall-clock
\* skew or multiple writer replicas": the versions of two acknowledged writes
\* of different content tell which is newer.
VersionsOrderWrites ==
    \A q, r \in Requests :
        /\ req[q].kind = "write" /\ req[q].pc = "done" /\ req[q].ok
        /\ req[r].kind = "write" /\ req[r].pc = "done" /\ req[r].ok
        /\ req[q].value # req[r].value
        => req[q].version # req[r].version

\* createMirrorPlanForSecret: "a device that disagrees with the winner must be
\* corrected".  When a sweep has served all targets of its plan without an error
\* and no request runs, every target has the source's content.
SuccessCorrectsTargets ==
    \A s \in Sweeps :
        /\ sweep[s].pc = "targets" /\ sweep[s].todo = {} /\ sweep[s].ok
        /\ sweep[s].type = "restore"
        /\ \A r \in Requests : ~Active(r)
        => \A d \in Devices : up[d] => data[d] = sweep[s].held
=============================================================================
