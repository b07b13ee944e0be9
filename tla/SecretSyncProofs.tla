-------------------------- MODULE SecretSyncProofs --------------------------
(***************************************************************************)
(* Safety of replication for pools of any size, any number of concurrent   *)
(* requests and sweeps, and any contents, outages and failed writes.       *)
(***************************************************************************)
EXTENDS SecretSync, ReconcileTheorems

Metas == Metadata \cup {NoMeta}

LEMMA StampType ==
    ASSUME NEW v \in Nat, NEW t \in Nat
    PROVE  Stamp(v, t) \in Metadata
BY DEF Stamp, Metadata

LEMMA MetadataVersionType ==
    ASSUME NEW m \in Metas
    PROVE  MetadataVersion(m) \in Nat
BY DEF Metas, Metadata, MetadataVersion

LEMMA RemainingType ==
    ASSUME NEW v \in Contents
    PROVE  Remaining(v) \in Contents
BY SyncAssumption DEF Remaining, Contents

\* What WriteSecret does to the devices: only d changes, and without an error or
\* while the fault count stands still the objects are replaced together or not
\* at all.
LEMMA WriteEffect ==
    ASSUME TypeOK, NEW d \in Devices, NEW v \in Contents, NEW m \in Metas,
           NEW err \in BOOLEAN, WriteSecret(d, v, m, err)
    PROVE  /\ data' \in [Devices -> Contents]
           /\ meta' \in [Devices -> Metas]
           /\ faults' \in {faults, faults + 1}
           /\ \A e \in Devices \ {d} : data'[e] = data[e] /\ meta'[e] = meta[e]
           /\ data'[d] \in {data[d], NoData, Remaining(data[d]), Remaining(v), v}
           /\ meta'[d] \in {meta[d], NoMeta, m}
           /\ faults' = faults => \/ data' = data /\ meta' = meta /\ err
                                  \/ data'[d] = v /\ meta'[d] = m /\ ~err
<1> USE DEF TypeOK
<1>1. CASE ~up[d] /\ err /\ UNCHANGED <<data, meta, faults>>
  BY <1>1 DEF Metas
<1>2. CASE /\ up[d] /\ ~err
           /\ data' = [data EXCEPT ![d] = v]
           /\ meta' = [meta EXCEPT ![d] = m]
           /\ UNCHANGED faults
  BY <1>2 DEF Metas
<1>3. CASE /\ up[d] /\ err
           /\ faults < MaxFaults
           /\ faults' = faults + 1
           /\ \E c \in HalfWritten(d, v, m) :
                 /\ data' = [data EXCEPT ![d] = c[1]]
                 /\ meta' = [meta EXCEPT ![d] = c[2]]
  <2>1. PICK c \in HalfWritten(d, v, m) : /\ data' = [data EXCEPT ![d] = c[1]]
                                          /\ meta' = [meta EXCEPT ![d] = c[2]]
    BY <1>3
  <2>2. /\ c[1] \in {data[d], NoData, Remaining(data[d]), Remaining(v), v}
        /\ c[2] \in {meta[d], NoMeta, m}
    BY DEF HalfWritten
  <2>3. c[1] \in Contents /\ c[2] \in Metas
    <3>1. data[d] \in Contents /\ meta[d] \in Metas /\ NoData \in Contents /\ NoMeta \in Metas
      BY DEF Metas, Contents
    <3>2. Remaining(data[d]) \in Contents /\ Remaining(v) \in Contents
      BY <3>1, RemainingType
    <3> QED BY <2>2, <3>1, <3>2
  <2> QED BY <1>3, <2>1, <2>2, <2>3 DEF Metas
<1> QED BY <1>1, <1>2, <1>3 DEF WriteSecret

\* The observations createMirrorPlanForSecret passes to Resolve.
PlanObs(inv) ==
    {InventoryObservation(d, inv[d]) : d \in Devices \ InStatus(inv, "error")}

LEMMA ObservationFields ==
    ASSUME NEW inv \in [Devices -> SecretState], NEW d \in Devices
    PROVE  LET o == InventoryObservation(d, inv[d])
           IN  /\ o.id = d /\ o.version \in Nat /\ o.ts \in Nat
               /\ HasOpinion(o) <=> inv[d].status = "present"
               /\ HasOpinion(o) => EffectiveChecksum(o) = inv[d].content
<1>1. inv[d] \in SecretState
  OBVIOUS
<1>2. CASE inv[d].status = "present"
  BY <1>1, <1>2 DEF InventoryObservation, MirrorObservation, HasOpinion,
                    EffectiveChecksum, SecretState
<1>3. CASE inv[d].status # "present"
  BY <1>1, <1>3 DEF InventoryObservation, Abstention, HasOpinion
<1> QED BY <1>2, <1>3

LEMMA PlanObsFinite ==
    ASSUME NEW inv \in [Devices -> SecretState]
    PROVE  /\ IsFiniteSet(PlanObs(inv)) /\ Comparable(PlanObs(inv))
           /\ IsFiniteSet(Devices \ InStatus(inv, "error"))
           /\ Cardinality(Devices \ InStatus(inv, "error")) \in Nat
           /\ Cardinality(Voters(PlanObs(inv)))
                 <= Cardinality(Devices \ InStatus(inv, "error"))
<1> DEFINE D == Devices \ InStatus(inv, "error")
           S == PlanObs(inv)
           V == Voters(S)
           f == [o \in S |-> o.id]
           g == [o \in V |-> o.id]
<1>1. \A o \in S : \E d \in D : o = InventoryObservation(d, inv[d])
  BY DEF PlanObs
<1>2. \A o \in S : /\ o.id \in D /\ o = InventoryObservation(o.id, inv[o.id])
                   /\ o.version \in Nat /\ o.ts \in Nat
  BY <1>1, ObservationFields
<1>3. IsFiniteSet(D)
  BY SyncAssumption, FS_Subset
<1>4. f \in Injection(S, D)
  <2> HIDE DEF S, D
  <2>1. f \in [S -> D]
    BY <1>2
  <2>2. \A o, p \in S : f[o] = f[p] => o = p
    BY <1>2
  <2> QED BY <2>1, <2>2 DEF Injection, IsInjective
<1>5. V \subseteq S
  BY DEF Voters
<1>6. g \in Injection(V, D)
  <2> HIDE DEF V, S, D
  <2>1. g \in [V -> D]
    BY <1>2, <1>5
  <2>2. \A o, p \in V : g[o] = g[p] => o = p
    BY <1>2, <1>5
  <2> QED BY <2>1, <2>2 DEF Injection, IsInjective
<1>7. IsFiniteSet(S)
  <2> HIDE DEF f, S, D
  <2> QED BY <1>3, <1>4, FS_Injection
<1>8. Cardinality(V) <= Cardinality(D)
  <2> HIDE DEF g, V, D
  <2> QED BY <1>3, <1>6, FS_Injection
<1>9. Comparable(S)
  <2>1. \A o \in S : o.id \in Int
    <3>1. Devices \subseteq Nat
      BY SyncAssumption
    <3>2. \A o \in S : o.id \in Devices
      BY <1>2
    <3> HIDE DEF S
    <3>3. \A o \in S : o.id \in Nat
      BY <3>1, <3>2
    <3> QED BY <3>3
  <2> QED BY <1>2, <2>1 DEF Comparable
<1>10. Cardinality(D) \in Nat
  BY <1>3, FS_CardinalityType
<1> QED BY <1>3, <1>7, <1>8, <1>9, <1>10

\* A plan copies from a device that has the secret to other devices of the pool.
LEMMA PlanFacts ==
    ASSUME NEW inv \in [Devices -> SecretState], InStatus(inv, "present") # {}
    PROVE  LET plan == MirrorPlan(inv)
               n == Cardinality(Devices \ InStatus(inv, "error"))
           IN  /\ plan.source \in InStatus(inv, "present")
               /\ plan.source \in Devices
               /\ inv[plan.source].content = Resolve(PlanObs(inv), n).checksum
               /\ plan.targets \in SUBSET Devices
               /\ plan.source \notin plan.targets
               /\ plan.type \in {"create", "restore", "update"}
<1> DEFINE n == Cardinality(Devices \ InStatus(inv, "error"))
           S == PlanObs(inv)
           R == Resolve(S, n)
           plan == MirrorPlan(inv)
<1>1. IsFiniteSet(S) /\ Comparable(S) /\ n \in Nat
  BY PlanObsFinite
<1>2. PICK p \in Devices : inv[p].status = "present"
  BY DEF InStatus
<1>3. InventoryObservation(p, inv[p]) \in S
  BY <1>2 DEF PlanObs, InStatus
<1>4. Found(S)
  BY <1>2, <1>3, ObservationFields DEF Found, Voters
<1>5. PICK o \in Voters(S) : o.id = R.device /\ EffectiveChecksum(o) = R.checksum
  <2> HIDE DEF n, S
  <2> QED BY <1>1, <1>4, ResolvePicksAHolder
<1>6. PICK d \in Devices : o = InventoryObservation(d, inv[d]) /\ HasOpinion(o)
  BY DEF Voters, PlanObs
<1>7. d = R.device /\ inv[d].status = "present" /\ inv[d].content = R.checksum
  BY <1>5, <1>6, ObservationFields
<1>8. R.outliers \subseteq Devices
  <2>1. \A q \in S : q.id \in Devices
    BY ObservationFields DEF PlanObs
  <2> HIDE DEF S
  <2> QED BY <2>1 DEF Resolve, Outliers, Voters
<1>9. /\ plan.source = R.device
      /\ plan.targets = (InStatus(inv, "absent")
             \cup {e \in InStatus(inv, "present") : ~inv[e].hasMeta}
             \cup R.outliers) \ {R.device}
      /\ plan.type \in {"create", "restore", "update"}
  BY DEF MirrorPlan, PlanObs
<1> HIDE DEF R, plan, n
<1> QED BY <1>7, <1>8, <1>9 DEF InStatus, R, plan, n

LEMMA InitTypeOK == Init => TypeOK
<1> SUFFICES ASSUME Init PROVE TypeOK
  OBVIOUS
<1>1. NewRequest \in RequestType
  BY DEF NewRequest, RequestType, Contents
<1>2. NewSweep \in SweepType
  BY DEF NewSweep, SweepType, Contents, Unread, SecretState
<1> QED BY <1>1, <1>2 DEF Init, TypeOK, Contents

\* A step of a request keeps the types.
LEMMA RequestTypeOK ==
    ASSUME TypeOK, NEW r \in Requests, RequestBegins(r) \/ RequestStep(r)
    PROVE  TypeOK'
<1> USE DEF TypeOK
<1>0. /\ req[r] \in RequestType /\ NoData \in Contents /\ NoMeta \in Metas
      /\ \A d \in Devices : meta[d] \in Metas /\ data[d] \in Contents
  BY DEF Contents, Metas
<1>1. ASSUME NEW kind \in {"write", "delete", "key"},
             NEW pc \in {"version", "erase", "drop"}, NEW v \in Contents,
             NEW t \in Nat, Begin(r, kind, pc, v, t)
      PROVE  TypeOK'
  BY <1>1 DEF Begin, RequestType
<1>2. CASE RequestBegins(r)
  <2>1. CASE BeginWrite(r)
    BY <1>1, <2>1 DEF BeginWrite, Contents
  <2>2. CASE BeginDelete(r)
    BY <1>0, <1>1, <2>2 DEF BeginDelete
  <2>3. CASE BeginDeleteKey(r)
    BY <1>0, <1>1, <2>3 DEF BeginDeleteKey
  <2> QED BY <1>2, <2>1, <2>2, <2>3 DEF RequestBegins
<1>3. CASE IssueVersion(r)
  BY <1>0, <1>3 DEF IssueVersion, RequestType
<1>4. CASE Respond(r)
  BY <1>0, <1>4 DEF Respond, RequestType
<1>5. ASSUME NEW d \in Devices, ReadVersion(r, d) PROVE TypeOK'
  <2>1. MetadataVersion(meta[d]) \in Nat
    BY <1>0, MetadataVersionType
  <2> QED BY <1>0, <1>5, <2>1 DEF ReadVersion, RequestType, Larger
<1>6. ASSUME NEW d \in Devices, WriteDevice(r, d) PROVE TypeOK'
  <2>1. Stamp(req[r].version, req[r].ts) \in Metas /\ req[r].value \in Contents
    BY <1>0, StampType, SMTT(30) DEF RequestType, Metas
  <2>2. PICK err \in BOOLEAN :
          /\ WriteSecret(d, req[r].value, Stamp(req[r].version, req[r].ts), err)
          /\ req' = [req EXCEPT ![r].todo = @ \ {d}, ![r].ok = @ \/ ~err]
    BY <1>6 DEF WriteDevice
  <2>3. req' \in [Requests -> RequestType]
    BY <1>0, <2>2, ZenonT(30) DEF RequestType
  <2> HIDE DEF TypeOK
  <2>4. data' \in [Devices -> Contents] /\ meta' \in [Devices -> Metas]
        /\ faults' \in {faults, faults + 1}
    BY <2>1, <2>2, WriteEffect
  <2> QED BY <1>6, <2>3, <2>4 DEF WriteDevice, TypeOK, Metas
<1>7. ASSUME NEW d \in Devices, EraseDevice(r, d) PROVE TypeOK'
  <2>1. PICK err \in BOOLEAN : WriteSecret(d, NoData, NoMeta, err)
    BY <1>7 DEF EraseDevice
  <2>2. req' \in [Requests -> RequestType]
    BY <1>0, <1>7 DEF EraseDevice, RequestType
  <2> HIDE DEF TypeOK
  <2>3. data' \in [Devices -> Contents] /\ meta' \in [Devices -> Metas]
        /\ faults' \in {faults, faults + 1}
    BY <1>0, <2>1, WriteEffect
  <2> QED BY <1>7, <2>2, <2>3 DEF EraseDevice, TypeOK, Metas
<1>8. ASSUME NEW d \in Devices, TombstoneDevice(r, d) PROVE TypeOK'
  <2> DEFINE m == [version |-> 0, ts |-> req[r].ts, deleted |-> TRUE]
  <2>1. m \in Metas
    BY <1>0, SMTT(30) DEF RequestType, Metas, Metadata
  <2>2. PICK err \in BOOLEAN :
          /\ WriteSecret(d, NoData, m, err)
          /\ req' = [req EXCEPT ![r].clients = @ \ {d}, ![r].ok = @ \/ ~err]
    BY <1>8 DEF TombstoneDevice
  <2>3. req' \in [Requests -> RequestType]
    BY <1>0, <2>2 DEF RequestType
  <2> HIDE DEF TypeOK, m
  <2>4. data' \in [Devices -> Contents] /\ meta' \in [Devices -> Metas]
        /\ faults' \in {faults, faults + 1}
    BY <1>0, <2>1, <2>2, WriteEffect
  <2> QED BY <1>8, <2>3, <2>4 DEF TombstoneDevice, TypeOK, Metas
<1>9. ASSUME NEW d \in Devices, DropDeviceKey(r, d) PROVE TypeOK'
  <2>1. Remaining(data[d]) \in Contents
    BY <1>0, RemainingType
  <2>2. data' \in [Devices -> Contents] /\ faults' \in Nat
    BY <1>0, <1>9, <2>1 DEF DropDeviceKey
  <2>3. req' \in [Requests -> RequestType]
    BY <1>0, <1>9, SMTT(30) DEF DropDeviceKey, RequestType
  <2> QED BY <1>9, <2>2, <2>3 DEF DropDeviceKey
<1> QED BY <1>2, <1>3, <1>4, <1>5, <1>6, <1>7, <1>8, <1>9 DEF RequestStep

LEMMA NewSweepType == NewSweep \in SweepType
BY DEF NewSweep, SweepType, Contents, Unread, SecretState

\* A step of a sweep that writes to device d keeps the types.
LEMMA SweepWriteTypeOK ==
    ASSUME TypeOK, NEW s \in Sweeps, NEW d \in Devices, NEW v \in Contents,
           NEW err \in BOOLEAN, WriteSecret(d, v, SweepStamp(s), err),
           sweep' \in [Sweeps -> SweepType], UNCHANGED <<up, req, now>>
    PROVE  TypeOK'
<1>1. SweepStamp(s) \in Metas
  BY StampType DEF SweepStamp, TypeOK, SweepType, Metas
<1>2. data' \in [Devices -> Contents] /\ meta' \in [Devices -> Metas]
      /\ faults' \in {faults, faults + 1}
  BY <1>1, WriteEffect
<1> QED BY <1>2 DEF TypeOK, Metas

LEMMA SweepTypeOK ==
    ASSUME TypeOK, NEW s \in Sweeps, SweepStep(s)
    PROVE  TypeOK'
<1>0. /\ sweep[s] \in SweepType /\ NoData \in Contents /\ sweep \in [Sweeps -> SweepType]
      /\ \A d \in Devices : meta[d] \in Metas /\ data[d] \in Contents
      /\ now \in Nat /\ NewSweep \in SweepType
  BY NewSweepType DEF TypeOK, Contents, Metas
<1>1. ASSUME sweep' \in [Sweeps -> SweepType], UNCHANGED <<data, meta, up, req, now, faults>>
      PROVE  TypeOK'
  BY <1>1 DEF TypeOK
<1>2. EndSweep(s) => sweep' \in [Sweeps -> SweepType]
  BY <1>0 DEF EndSweep
<1>3. CASE BeginSweep(s)
  <2>1. sweep' \in [Sweeps -> SweepType]
    BY <1>0, <1>3 DEF BeginSweep, SweepType
  <2> QED BY <1>1, <1>3, <2>1 DEF BeginSweep
<1>4. CASE MakePlan(s)
  <2> DEFINE plan == MirrorPlan(sweep[s].inv)
  <2>1. CASE InStatus(sweep[s].inv, "present") # {} /\ plan.targets # {}
    <3>1. plan.source \in Devices /\ plan.targets \in SUBSET Devices
          /\ plan.type \in {"create", "restore", "update"}
      BY <1>0, <2>1, PlanFacts DEF SweepType
    <3>2. sweep' = [sweep EXCEPT ![s] =
                     [NewSweep EXCEPT !.pc = "source", !.todo = plan.targets,
                                      !.type = plan.type, !.source = {plan.source}]]
      BY <1>4, <2>1 DEF MakePlan
    <3> HIDE DEF plan
    <3>3. [NewSweep EXCEPT !.pc = "source", !.todo = plan.targets,
                           !.type = plan.type, !.source = {plan.source}] \in SweepType
      BY <1>0, <3>1 DEF SweepType
    <3>4. sweep' \in [Sweeps -> SweepType]
      BY <1>0, <3>2, <3>3
    <3> QED BY <1>1, <1>4, <3>4 DEF MakePlan
  <2>2. CASE ~(InStatus(sweep[s].inv, "present") # {} /\ plan.targets # {})
    BY <1>1, <1>2, <1>4, <2>2 DEF MakePlan
  <2> QED BY <2>1, <2>2
<1>5. CASE FinishSweep(s)
  BY <1>1, <1>2, <1>5 DEF FinishSweep
<1>6. ASSUME NEW d \in Devices, InventoryData(s, d) PROVE TypeOK'
  <2>1. CASE up[d] /\ data[d] # NoData
    <3> DEFINE e == [status |-> "present", content |-> data[d],
                     version |-> 0, ts |-> now, hasMeta |-> FALSE]
    <3>1. e \in SecretState
      BY <1>0 DEF SecretState
    <3> DEFINE x == [sweep[s] EXCEPT !.pc = "metadata", !.cur = {d}, !.inv[d] = e]
    <3>2. sweep' = [sweep EXCEPT ![s] = x]
      BY <1>0, <1>6, <2>1 DEF InventoryData
    <3> HIDE DEF e
    <3>x. x \in SweepType
      BY <1>0, <3>1 DEF SweepType
    <3> HIDE DEF x
    <3>3. sweep' \in [Sweeps -> SweepType]
      BY <1>0, <3>2, <3>x
    <3> QED BY <1>1, <1>6, <3>3 DEF InventoryData
  <2>2. CASE ~(up[d] /\ data[d] # NoData)
    <3>s. PICK st \in {"error", "absent"} :
             sweep' = [sweep EXCEPT ![s].todo = @ \ {d},
                         ![s].inv[d] = [Unread EXCEPT !.status = st]]
      BY <1>6, <2>2 DEF InventoryData
    <3> DEFINE e == [Unread EXCEPT !.status = st]
               x == [sweep[s] EXCEPT !.todo = @ \ {d}, !.inv[d] = e]
    <3>a. sweep' = [sweep EXCEPT ![s] = x]
      BY <1>0, <3>s
    <3>b. e \in SecretState
      BY <1>0 DEF Unread, SecretState
    <3> HIDE DEF e
    <3>c. x \in SweepType
      BY <1>0, <3>b DEF SweepType
    <3> HIDE DEF x
    <3>1. sweep' \in [Sweeps -> SweepType]
      BY <1>0, <3>a, <3>c
    <3> QED BY <1>1, <1>6, <3>1 DEF InventoryData
  <2> QED BY <2>1, <2>2
<1>7. ASSUME NEW d \in Devices, InventoryMetadata(s, d) PROVE TypeOK'
  <2> DEFINE e == IF up[d] /\ meta[d] # NoMeta
                  THEN [sweep[s].inv[d] EXCEPT !.version = meta[d].version,
                                 !.ts = meta[d].ts, !.hasMeta = TRUE]
                  ELSE sweep[s].inv[d]
  <2>1. e \in SecretState
    <3>1. sweep[s].inv[d] \in SecretState
      BY <1>0 DEF SweepType
    <3>2. meta[d] # NoMeta => meta[d].version \in Nat /\ meta[d].ts \in Nat
      BY <1>0 DEF Metas, Metadata
    <3> QED BY <3>1, <3>2 DEF SecretState
  <2>2. sweep' = [sweep EXCEPT ![s].pc = "inventory", ![s].todo = @ \ {d},
                               ![s].cur = {}, ![s].inv[d] = e]
    BY <1>0, <1>7 DEF InventoryMetadata
  <2> HIDE DEF e
  <2> DEFINE x == [sweep[s] EXCEPT !.pc = "inventory", !.todo = @ \ {d},
                                   !.cur = {}, !.inv[d] = e]
  <2>3. sweep' = [sweep EXCEPT ![s] = x]
    BY <1>0, <2>2, ZenonT(30)
  <2>4. x \in SweepType
    BY <1>0, <2>1 DEF SweepType
  <2> HIDE DEF x
  <2>5. sweep' \in [Sweeps -> SweepType]
    BY <1>0, <2>3, <2>4
  <2> QED BY <1>1, <1>7, <2>5 DEF InventoryMetadata
<1>8. ASSUME NEW d \in Devices, ReadSource(s, d) PROVE TypeOK'
  <2>1. sweep' \in [Sweeps -> SweepType]
    <3>1. CASE up[d] /\ data[d] # NoData
      <4> DEFINE x == [sweep[s] EXCEPT !.pc = "version", !.held = data[d]]
      <4>1. sweep' = [sweep EXCEPT ![s] = x]
        BY <1>0, <1>8, <3>1 DEF ReadSource
      <4>2. x \in SweepType
        BY <1>0 DEF SweepType
      <4> HIDE DEF x
      <4> QED BY <1>0, <4>1, <4>2
    <3> QED BY <1>2, <1>8, <3>1 DEF ReadSource
  <2> QED BY <1>1, <1>8, <2>1 DEF ReadSource
<1>9. ASSUME NEW d \in Devices, ReadSourceVersion(s, d) PROVE TypeOK'
  <2>1. MetadataVersion(IF up[d] THEN meta[d] ELSE NoMeta) \in Nat
    BY <1>0, MetadataVersionType DEF Metas
  <2>2. Larger(1, MetadataVersion(IF up[d] THEN meta[d] ELSE NoMeta)) \in Nat
    BY <2>1 DEF Larger
  <2>3. sweep' \in [Sweeps -> SweepType]
    BY <1>0, <1>9, <2>2, ZenonT(30) DEF ReadSourceVersion, SweepType
  <2> QED BY <1>1, <1>9, <2>3 DEF ReadSourceVersion
<1>10. ASSUME NEW d \in Devices, RestoreSource(s, d) PROVE TypeOK'
  <2>1. PICK err \in BOOLEAN :
          /\ WriteSecret(d, sweep[s].held, SweepStamp(s), err)
          /\ IF err THEN EndSweep(s)
                    ELSE sweep' = [sweep EXCEPT ![s].pc = "targets"]
    BY <1>10 DEF RestoreSource
  <2>2. sweep' \in [Sweeps -> SweepType] /\ sweep[s].held \in Contents
    <3> DEFINE x == [sweep[s] EXCEPT !.pc = "targets"]
    <3>1. CASE ~err
      <4>1. sweep' = [sweep EXCEPT ![s] = x]
        BY <1>0, <2>1, <3>1
      <4>2. x \in SweepType /\ sweep[s].held \in Contents
        BY <1>0, SMTT(30) DEF SweepType
      <4> HIDE DEF x
      <4> QED BY <1>0, <4>1, <4>2
    <3>2. CASE err
      BY <1>0, <1>2, <2>1, <3>2 DEF SweepType
    <3> QED BY <3>1, <3>2
  <2> QED BY <1>10, <2>1, <2>2, SweepWriteTypeOK DEF RestoreSource
<1>11. ASSUME NEW d \in Devices, SyncTarget(s, d) PROVE TypeOK'
  <2>1. PICK err \in BOOLEAN :
          /\ WriteSecret(d, sweep[s].held, SweepStamp(s), err)
          /\ sweep' = [sweep EXCEPT ![s].todo = @ \ {d}, ![s].ok = @ /\ ~err]
    BY <1>11 DEF SyncTarget
  <2>2. sweep' \in [Sweeps -> SweepType] /\ sweep[s].held \in Contents
    BY <1>0, <2>1 DEF SweepType
  <2> QED BY <1>11, <2>1, <2>2, SweepWriteTypeOK DEF SyncTarget
<1>12. ASSUME NEW d \in Devices, ReadTarget(s, d) PROVE TypeOK'
  <2>1. sweep' \in [Sweeps -> SweepType]
    <3> DEFINE x == IF up[d] /\ data[d] # NoData
                    THEN [sweep[s] EXCEPT !.pc = "stamp", !.cur = {d}, !.own = data[d]]
                    ELSE [sweep[s] EXCEPT !.todo = @ \ {d}, !.ok = FALSE]
    <3>1. sweep' = [sweep EXCEPT ![s] = x]
      BY <1>0, <1>12 DEF ReadTarget
    <3>2. x \in SweepType
      BY <1>0 DEF SweepType
    <3> HIDE DEF x
    <3> QED BY <1>0, <3>1, <3>2
  <2> QED BY <1>1, <1>12, <2>1 DEF ReadTarget
<1>13. ASSUME NEW d \in Devices, StampTarget(s, d) PROVE TypeOK'
  <2>1. PICK err \in BOOLEAN :
          /\ WriteSecret(d, sweep[s].own, SweepStamp(s), err)
          /\ sweep' = [sweep EXCEPT ![s].pc = "targets", ![s].cur = {},
                                    ![s].own = NoData,
                                    ![s].todo = @ \ {d}, ![s].ok = @ /\ ~err]
    BY <1>13 DEF StampTarget
  <2> DEFINE x == [sweep[s] EXCEPT !.pc = "targets", !.cur = {}, !.own = NoData,
                                   !.todo = @ \ {d}, !.ok = @ /\ ~err]
  <2>a. sweep' = [sweep EXCEPT ![s] = x]
    BY <1>0, <2>1
  <2>b. x \in SweepType /\ sweep[s].own \in Contents
    BY <1>0 DEF SweepType
  <2> HIDE DEF x
  <2>2. sweep' \in [Sweeps -> SweepType] /\ sweep[s].own \in Contents
    BY <1>0, <2>a, <2>b
  <2> QED BY <1>13, <2>1, <2>2, SweepWriteTypeOK DEF StampTarget
<1> QED BY <1>3, <1>4, <1>5, <1>6, <1>7, <1>8, <1>9, <1>10, <1>11, <1>12, <1>13
        DEF SweepStep

LEMMA NextTypeOK == TypeOK /\ [Next]_vars => TypeOK'
<1> SUFFICES ASSUME TypeOK, [Next]_vars PROVE TypeOK'
  OBVIOUS
<1>1. ASSUME NEW d \in Devices, AgentDown(d) \/ AgentUp(d) PROVE TypeOK'
  <2>1. CASE AgentDown(d)
    BY <2>1 DEF TypeOK, AgentDown
  <2>2. CASE AgentUp(d)
    BY <2>2 DEF TypeOK, AgentUp
  <2> QED BY <1>1, <2>1, <2>2
<1>2. CASE Tick
  BY <1>2 DEF TypeOK, Tick
<1>3. CASE UNCHANGED vars
  BY <1>3 DEF TypeOK, vars
<1> QED BY <1>1, <1>2, <1>3, RequestTypeOK, SweepTypeOK DEF Next

\* In a pool of any size every variable keeps its type; a plan's source and
\* targets are always devices of the pool.
THEOREM SyncTypes == Spec => []TypeOK
<1>1. Init => TypeOK
  BY InitTypeOK
<1>2. TypeOK /\ [Next]_vars => TypeOK'
  BY NextTypeOK
<1> QED BY <1>1, <1>2, PTL DEF Spec

-----------------------------------------------------------------------------
(* Versions.                                                               *)

HasMinted(r) == req[r].kind = "write" /\ req[r].pc \in {"write", "done"}

\* ReplicationMintsNoVersion with what a request and a sweep are about to write.
VersionInvariant ==
    /\ ReplicationMintsNoVersion
    /\ \A r \in Requests : req[r].pc \in {"version", "write"} => req[r].kind = "write"
    /\ \A s \in Sweeps : sweep[s].version \in Minted \cup {0, 1}

\* A minted version stays minted, and requests keep their kind.
LEMMA MintedGrows ==
    ASSUME TypeOK, VersionInvariant, [Next]_vars
    PROVE  /\ Minted \subseteq Minted'
           /\ \A r \in Requests : req'[r].pc \in {"version", "write"} => req'[r].kind = "write"
<1> DEFINE Keeps(q) == /\ HasMinted(q) => HasMinted(q)' /\ req'[q].version = req[q].version
                       /\ req'[q].pc \in {"version", "write"} => req'[q].kind = "write"
<1>0. \A q \in Requests : req[q].pc \in {"version", "write"} => req[q].kind = "write"
  BY DEF VersionInvariant
<1>1. SUFFICES \A q \in Requests : Keeps(q)
  <2>1. Minted = {req[r].version : r \in {q \in Requests : HasMinted(q)}}
    BY DEF Minted, HasMinted
  <2>2. Minted' = {req'[r].version : r \in {q \in Requests : HasMinted(q)'}}
    BY DEF Minted, HasMinted
  <2> QED BY <1>1, <2>1, <2>2
<1> USE DEF HasMinted
<1>2. CASE req' = req
  BY <1>0, <1>2
<1>3. ASSUME NEW r \in Requests, RequestBegins(r) \/ RequestStep(r), NEW q \in Requests
      PROVE  Keeps(q)
  <2>0. req \in [Requests -> RequestType] /\ req[r] \in RequestType
    BY DEF TypeOK
  <2>1. ASSUME NEW kind, NEW pc, NEW v, NEW t, Begin(r, kind, pc, v, t),
               pc = "version" => kind = "write", pc # "write"
        PROVE  Keeps(q)
    BY <1>0, <2>0, <2>1 DEF Begin
  <2>2. CASE RequestBegins(r)
    BY <2>1, <2>2 DEF RequestBegins, BeginWrite, BeginDelete, BeginDeleteKey
  <2>3. CASE IssueVersion(r)
    BY <1>0, <2>0, <2>3 DEF IssueVersion, RequestType
  <2>4. CASE Respond(r)
    BY <1>0, <2>0, <2>4 DEF Respond, RequestType
  <2>5. ASSUME NEW d \in Devices, ReadVersion(r, d) PROVE Keeps(q)
    BY <1>0, <2>0, <2>5 DEF ReadVersion, RequestType
  <2>6. ASSUME NEW d \in Devices, WriteDevice(r, d) PROVE Keeps(q)
    BY <1>0, <2>0, <2>6 DEF WriteDevice, RequestType
  <2>7. ASSUME NEW d \in Devices, EraseDevice(r, d) PROVE Keeps(q)
    BY <1>0, <2>0, <2>7 DEF EraseDevice, RequestType
  <2>8. ASSUME NEW d \in Devices, TombstoneDevice(r, d) PROVE Keeps(q)
    BY <1>0, <2>0, <2>8 DEF TombstoneDevice, RequestType
  <2>9. ASSUME NEW d \in Devices, DropDeviceKey(r, d) PROVE Keeps(q)
    BY <1>0, <2>0, <2>9, SMTT(30) DEF DropDeviceKey, RequestType
  <2> QED BY <1>3, <2>2, <2>3, <2>4, <2>5, <2>6, <2>7, <2>8, <2>9 DEF RequestStep
<1>4. ASSUME NEW s \in Sweeps, SweepStep(s) PROVE req' = req
  BY <1>4 DEF SweepStep, BeginSweep, MakePlan, FinishSweep, InventoryData,
        InventoryMetadata, ReadSource, ReadSourceVersion, RestoreSource, SyncTarget,
        ReadTarget, StampTarget
<1>5. ASSUME NEW d \in Devices, AgentDown(d) \/ AgentUp(d) PROVE req' = req
  BY <1>5 DEF AgentDown, AgentUp
<1> HIDE DEF Keeps
<1> QED BY <1>2, <1>3, <1>4, <1>5 DEF Next, Tick, vars

\* A write whose metadata carries an allowed version.
LEMMA WriteKeepsVersions ==
    ASSUME TypeOK, VersionInvariant, [Next]_vars,
           NEW d \in Devices, NEW v \in Contents, NEW m \in Metas, NEW err \in BOOLEAN,
           WriteSecret(d, v, m, err),
           m # NoMeta => m.version \in Minted' \cup {0, 1}
    PROVE  ReplicationMintsNoVersion'
<1>1. Minted \subseteq Minted'
  BY MintedGrows
<1>2. /\ \A e \in Devices \ {d} : meta'[e] = meta[e]
      /\ meta'[d] \in {meta[d], NoMeta, m}
  BY WriteEffect
<1>3. \A e \in Devices : meta[e] # NoMeta => meta[e].version \in Minted' \cup {0, 1}
  BY <1>1 DEF VersionInvariant, ReplicationMintsNoVersion
<1>4. \A e \in Devices : meta'[e] # NoMeta => meta'[e].version \in Minted' \cup {0, 1}
  BY <1>2, <1>3
<1> QED BY <1>4 DEF ReplicationMintsNoVersion

LEMMA NextVersions ==
    ASSUME TypeOK, VersionInvariant, [Next]_vars
    PROVE  VersionInvariant'
<1>1. /\ Minted \subseteq Minted'
      /\ \A r \in Requests : req'[r].pc \in {"version", "write"} => req'[r].kind = "write"
  BY MintedGrows
<1>2. /\ \A e \in Devices : meta[e] # NoMeta => meta[e].version \in Minted' \cup {0, 1}
      /\ \A s \in Sweeps : sweep[s].version \in Minted' \cup {0, 1}
  BY <1>1 DEF VersionInvariant, ReplicationMintsNoVersion
<1>3. ASSUME meta' = meta PROVE ReplicationMintsNoVersion'
  BY <1>2, <1>3 DEF ReplicationMintsNoVersion
<1>4. ASSUME sweep' = sweep
      PROVE  \A s \in Sweeps : sweep'[s].version \in Minted' \cup {0, 1}
  BY <1>2, <1>4
<1>5. ASSUME ReplicationMintsNoVersion',
             \A s \in Sweeps : sweep'[s].version \in Minted' \cup {0, 1}
      PROVE  VersionInvariant'
  BY <1>1, <1>5 DEF VersionInvariant
<1>6. NoData \in Contents /\ NoMeta \in Metas
  BY DEF Contents, Metas
<1>7. ASSUME NEW r \in Requests, RequestBegins(r) \/ RequestStep(r) PROVE VersionInvariant'
  <2>1. sweep' = sweep
    BY <1>7 DEF RequestBegins, RequestStep, BeginWrite, BeginDelete, BeginDeleteKey, Begin,
          IssueVersion, Respond, ReadVersion, WriteDevice, EraseDevice,
          TombstoneDevice, DropDeviceKey
  <2>2. ASSUME NEW d \in Devices, WriteDevice(r, d) PROVE ReplicationMintsNoVersion'
    <3> DEFINE m == Stamp(req[r].version, req[r].ts)
    <3>1. m \in Metas /\ req[r].value \in Contents /\ m.version = req[r].version
      BY StampType DEF TypeOK, RequestType, Metas, Stamp
    <3>2. PICK err \in BOOLEAN : WriteSecret(d, req[r].value, m, err)
      BY <2>2 DEF WriteDevice
    <3>3. req[r].version \in Minted
      BY <2>2 DEF WriteDevice, VersionInvariant, Minted
    <3> HIDE DEF m
    <3> QED BY <1>1, <3>1, <3>2, <3>3, WriteKeepsVersions
  <2>3. ASSUME NEW d \in Devices, EraseDevice(r, d) PROVE ReplicationMintsNoVersion'
    <3>1. PICK err \in BOOLEAN : WriteSecret(d, NoData, NoMeta, err)
      BY <2>3 DEF EraseDevice
    <3> QED BY <1>6, <3>1, WriteKeepsVersions
  <2>4. ASSUME NEW d \in Devices, TombstoneDevice(r, d) PROVE ReplicationMintsNoVersion'
    <3> DEFINE m == [version |-> 0, ts |-> req[r].ts, deleted |-> TRUE]
    <3>1. m \in Metas /\ m.version = 0
      BY DEF TypeOK, RequestType, Metas, Metadata
    <3>2. PICK err \in BOOLEAN : WriteSecret(d, NoData, m, err)
      BY <2>4 DEF TombstoneDevice
    <3> HIDE DEF m
    <3> QED BY <1>6, <3>1, <3>2, WriteKeepsVersions
  <2>5. CASE meta' = meta
    BY <1>3, <1>4, <1>5, <2>1, <2>5
  <2>6. CASE meta' # meta
    <3>1. \E d \in Devices : WriteDevice(r, d) \/ EraseDevice(r, d) \/ TombstoneDevice(r, d)
      BY <1>7, <2>6 DEF RequestBegins, RequestStep, BeginWrite, BeginDelete,
            BeginDeleteKey, Begin, IssueVersion, Respond, ReadVersion, DropDeviceKey
    <3> QED BY <1>4, <1>5, <2>1, <2>2, <2>3, <2>4, <3>1, SMTT(30)
  <2> QED BY <2>5, <2>6, SMTT(30)
<1>8. ASSUME NEW s \in Sweeps, SweepStep(s) PROVE VersionInvariant'
  <2>0. sweep \in [Sweeps -> SweepType] /\ sweep[s] \in SweepType
    BY DEF TypeOK
  <2>1. ASSUME NEW d \in Devices, NEW v \in Contents, NEW err \in BOOLEAN,
               WriteSecret(d, v, SweepStamp(s), err)
        PROVE  ReplicationMintsNoVersion'
    <3>1. SweepStamp(s) \in Metas /\ SweepStamp(s).version = sweep[s].version
      BY <2>0, StampType DEF SweepStamp, Stamp, SweepType, Metas
    <3> QED BY <1>2, <2>1, <3>1, WriteKeepsVersions
  <2>2. ReplicationMintsNoVersion'
    <3>1. ASSUME NEW d \in Devices, RestoreSource(s, d) \/ SyncTarget(s, d)
          PROVE  ReplicationMintsNoVersion'
      <4>1. \E err \in BOOLEAN : WriteSecret(d, sweep[s].held, SweepStamp(s), err)
        BY <3>1 DEF RestoreSource, SyncTarget
      <4>2. sweep[s].held \in Contents
        BY <2>0 DEF SweepType
      <4> QED BY <2>1, <4>1, <4>2
    <3>2. ASSUME NEW d \in Devices, StampTarget(s, d) PROVE ReplicationMintsNoVersion'
      <4>1. \E err \in BOOLEAN : WriteSecret(d, sweep[s].own, SweepStamp(s), err)
        BY <3>2 DEF StampTarget
      <4>2. sweep[s].own \in Contents
        BY <2>0 DEF SweepType
      <4> QED BY <2>1, <4>1, <4>2
    <3> QED BY <1>3, <1>8, <3>1, <3>2 DEF SweepStep, BeginSweep, MakePlan, FinishSweep,
              InventoryData, InventoryMetadata, ReadSource, ReadSourceVersion, ReadTarget
  <2>3. ASSUME NEW d \in Devices, ReadSourceVersion(s, d)
        PROVE  \A t \in Sweeps : sweep'[t].version \in Minted' \cup {0, 1}
    <3> DEFINE m == IF up[d] THEN meta[d] ELSE NoMeta
    <3>1. MetadataVersion(m) \in Minted' \cup {0, 1}
      BY <1>2 DEF MetadataVersion
    <3>2. MetadataVersion(m) \in Nat
      BY MetadataVersionType DEF TypeOK, Metas
    <3>3. sweep'[s].version = Larger(1, MetadataVersion(m))
      BY <2>0, <2>3 DEF ReadSourceVersion, SweepType
    <3>4. \A t \in Sweeps \ {s} : sweep'[t] = sweep[t]
      BY <2>0, <2>3 DEF ReadSourceVersion
    <3> HIDE DEF m
    <3>5. sweep'[s].version \in Minted' \cup {0, 1}
      BY <3>1, <3>2, <3>3 DEF Larger
    <3> QED BY <1>2, <3>4, <3>5
  <2>4. CASE ~\E d \in Devices : ReadSourceVersion(s, d)
    <3> DEFINE Good == /\ sweep'[s].version \in {sweep[s].version, 0}
                       /\ \A t \in Sweeps \ {s} : sweep'[t] = sweep[t]
    <3>1. EndSweep(s) => Good
      BY <2>0 DEF EndSweep, NewSweep
    <3>2. ASSUME BeginSweep(s) PROVE Good
      BY <2>0, <3>2 DEF BeginSweep, SweepType
    <3>3. ASSUME MakePlan(s) PROVE Good
      BY <2>0, <3>1, <3>3, ZenonT(30) DEF MakePlan, NewSweep
    <3>4. ASSUME FinishSweep(s) PROVE Good
      BY <3>1, <3>4 DEF FinishSweep
    <3>5. ASSUME NEW d \in Devices, InventoryData(s, d) PROVE Good
      BY <2>0, <3>5 DEF InventoryData, SweepType
    <3>6. ASSUME NEW d \in Devices, InventoryMetadata(s, d) PROVE Good
      BY <2>0, <3>6 DEF InventoryMetadata, SweepType
    <3>7. ASSUME NEW d \in Devices, ReadSource(s, d) PROVE Good
      BY <2>0, <3>1, <3>7 DEF ReadSource, SweepType
    <3>8. ASSUME NEW d \in Devices, RestoreSource(s, d) PROVE Good
      BY <2>0, <3>1, <3>8 DEF RestoreSource, SweepType
    <3>9. ASSUME NEW d \in Devices, SyncTarget(s, d) PROVE Good
      BY <2>0, <3>9 DEF SyncTarget, SweepType
    <3>10. ASSUME NEW d \in Devices, ReadTarget(s, d) PROVE Good
      BY <2>0, <3>10 DEF ReadTarget, SweepType
    <3>11. ASSUME NEW d \in Devices, StampTarget(s, d) PROVE Good
      BY <2>0, <3>11 DEF StampTarget, SweepType
    <3> HIDE DEF Good
    <3>12. Good
      BY <1>8, <2>4, <3>2, <3>3, <3>4, <3>5, <3>6, <3>7, <3>8, <3>9, <3>10, <3>11
         DEF SweepStep
    <3> QED BY <1>2, <1>5, <2>2, <3>12 DEF Good
  <2> QED BY <1>5, <2>2, <2>3, <2>4
<1>9. CASE sweep' = sweep /\ meta' = meta
  BY <1>3, <1>4, <1>5, <1>9
<1> QED BY <1>7, <1>8, <1>9 DEF Next, Tick, AgentDown, AgentUp, vars

\* Only writes through the API mint versions, for any number of devices, requests
\* and sweeps: mirroring, restoring and failed writes never invent one.
THEOREM SyncVersions == Spec => []ReplicationMintsNoVersion
<1>1. Init => VersionInvariant
  BY DEF Init, NewRequest, NewSweep, VersionInvariant, ReplicationMintsNoVersion
<1>2. TypeOK /\ VersionInvariant /\ [Next]_vars => VersionInvariant'
  BY NextVersions
<1>3. VersionInvariant => ReplicationMintsNoVersion
  BY SMTT(30) DEF VersionInvariant
<1> QED BY <1>1, <1>2, <1>3, SyncTypes, PTL DEF Spec

-----------------------------------------------------------------------------
(* The sweeps.                                                             *)

\* What a sweep knows.  It forgets everything when it ends; an inventory entry it
\* has not read is still to do; once it has a plan there are targets besides the
\* source; and what it read to copy is a content.
Prepared(s) ==
    /\ sweep[s].pc = "idle" => sweep[s] = NewSweep
    /\ sweep[s].pc \in {"inventory", "metadata"} =>
          \A d \in Devices : sweep[s].inv[d].status = "unread" => d \in sweep[s].todo
    /\ sweep[s].pc = "metadata" =>
          \A d \in sweep[s].cur : sweep[s].inv[d].status = "present"
    /\ sweep[s].pc \in {"source", "version", "restore"} =>
          sweep[s].todo # {} /\ sweep[s].source \cap sweep[s].todo = {}
    /\ sweep[s].pc \in {"version", "restore", "targets", "stamp"} =>
          sweep[s].held # NoData
    /\ sweep[s].pc = "stamp" => sweep[s].own # NoData

SweepInvariant == \A s \in Sweeps : Prepared(s)

\* A step of one sweep leaves the others alone, and all requests.
LEMMA SweepFrame ==
    ASSUME TypeOK, NEW s \in Sweeps, SweepStep(s)
    PROVE  req' = req /\ up' = up /\ \A t \in Sweeps \ {s} : sweep'[t] = sweep[t]
<1>0. sweep \in [Sweeps -> SweepType]
  BY DEF TypeOK
<1> QED BY <1>0, ZenonT(30)
    DEF SweepStep, BeginSweep, MakePlan, FinishSweep, EndSweep, InventoryData, InventoryMetadata,
        ReadSource, ReadSourceVersion, RestoreSource, SyncTarget,
        ReadTarget, StampTarget

LEMMA SweepStepPrepared ==
    ASSUME TypeOK, SweepInvariant, NEW s \in Sweeps, SweepStep(s)
    PROVE  Prepared(s)'
<1> USE DEF Prepared
<1>0. sweep \in [Sweeps -> SweepType] /\ sweep[s] \in SweepType /\ Prepared(s)
  BY DEF TypeOK, SweepInvariant
<1>1. EndSweep(s) => Prepared(s)'
  BY <1>0 DEF EndSweep, NewSweep
<1>2. CASE BeginSweep(s)
  BY <1>0, <1>2, SMTT(30) DEF BeginSweep, SweepType
<1>3. CASE MakePlan(s)
  <2> DEFINE plan == MirrorPlan(sweep[s].inv)
  <2>1. CASE InStatus(sweep[s].inv, "present") # {} /\ plan.targets # {}
    <3>1. plan.source \notin plan.targets
      BY <1>0, <2>1, PlanFacts DEF SweepType
    <3>2. sweep' = [sweep EXCEPT ![s] =
                     [NewSweep EXCEPT !.pc = "source", !.todo = plan.targets,
                                      !.type = plan.type, !.source = {plan.source}]]
      BY <1>3, <2>1 DEF MakePlan
    <3> HIDE DEF plan
    <3> QED BY <1>0, <2>1, <3>1, <3>2 DEF NewSweep
  <2>2. CASE ~(InStatus(sweep[s].inv, "present") # {} /\ plan.targets # {})
    BY <1>1, <1>3, <2>2 DEF MakePlan
  <2> QED BY <2>1, <2>2
<1>4. CASE FinishSweep(s)
  BY <1>1, <1>4 DEF FinishSweep
<1>5. ASSUME NEW d \in Devices, InventoryData(s, d) PROVE Prepared(s)'
  <2>1. \A e \in Devices \ {d} : sweep'[s].inv[e] = sweep[s].inv[e]
    BY <1>0, <1>5 DEF InventoryData, SweepType
  <2>2. CASE up[d] /\ data[d] # NoData
    <3>1. /\ sweep'[s].pc = "metadata" /\ sweep'[s].cur = {d}
          /\ sweep'[s].todo = sweep[s].todo /\ sweep'[s].inv[d].status = "present"
      BY <1>0, <1>5, <2>2 DEF InventoryData, SweepType
    <3> QED BY <1>0, <1>5, <2>1, <3>1 DEF InventoryData
  <2>3. CASE ~(up[d] /\ data[d] # NoData)
    <3>1. /\ sweep'[s].pc = "inventory" /\ sweep'[s].todo = sweep[s].todo \ {d}
          /\ sweep'[s].inv[d].status # "unread"
      BY <1>0, <1>5, <2>3 DEF InventoryData, SweepType, Unread
    <3> QED BY <1>0, <1>5, <2>1, <3>1 DEF InventoryData
  <2> QED BY <2>2, <2>3
<1>6. ASSUME NEW d \in Devices, InventoryMetadata(s, d) PROVE Prepared(s)'
  <2>1. \A e \in Devices : sweep'[s].inv[e].status = sweep[s].inv[e].status
    BY <1>0, <1>6 DEF InventoryMetadata, SweepType, SecretState
  <2>2. sweep'[s].pc = "inventory" /\ sweep'[s].todo = sweep[s].todo \ {d}
    BY <1>0, <1>6 DEF InventoryMetadata, SweepType
  <2>3. sweep[s].pc = "metadata" /\ sweep[s].inv[d].status = "present"
    BY <1>0, <1>6 DEF InventoryMetadata
  <2> QED BY <1>0, <2>1, <2>2, <2>3
<1>7. ASSUME NEW d \in Devices, ReadSource(s, d) PROVE Prepared(s)'
  BY <1>0, <1>1, <1>7 DEF ReadSource, SweepType
<1>8. ASSUME NEW d \in Devices, ReadSourceVersion(s, d) PROVE Prepared(s)'
  BY <1>0, <1>8 DEF ReadSourceVersion, SweepType
<1>9. ASSUME NEW d \in Devices, RestoreSource(s, d) PROVE Prepared(s)'
  BY <1>0, <1>1, <1>9 DEF RestoreSource, SweepType
<1>10. ASSUME NEW d \in Devices, SyncTarget(s, d) PROVE Prepared(s)'
  BY <1>0, <1>10 DEF SyncTarget, SweepType
<1>11. ASSUME NEW d \in Devices, ReadTarget(s, d) PROVE Prepared(s)'
  BY <1>0, <1>11 DEF ReadTarget, SweepType
<1>12. ASSUME NEW d \in Devices, StampTarget(s, d) PROVE Prepared(s)'
  BY <1>0, <1>12 DEF StampTarget, SweepType
<1> HIDE DEF Prepared
<1> QED BY <1>2, <1>3, <1>4, <1>5, <1>6, <1>7, <1>8, <1>9, <1>10, <1>11, <1>12
        DEF SweepStep

\* A step that is not a sweep's leaves the sweeps alone.
LEMMA NoSweepFrame ==
    ASSUME [Next]_vars, ~\E s \in Sweeps : SweepStep(s)
    PROVE  sweep' = sweep
<1>1. ASSUME NEW r \in Requests, RequestBegins(r) PROVE sweep' = sweep
  BY <1>1, SMTT(30) DEF RequestBegins, BeginWrite, BeginDelete, BeginDeleteKey, Begin
<1>2. ASSUME NEW r \in Requests, RequestStep(r) PROVE sweep' = sweep
  BY <1>2 DEF RequestStep, IssueVersion, Respond, ReadVersion, WriteDevice, EraseDevice,
              TombstoneDevice, DropDeviceKey
<1>3. ASSUME NEW d \in Devices, AgentDown(d) \/ AgentUp(d) PROVE sweep' = sweep
  BY <1>3 DEF AgentDown, AgentUp
<1> QED BY <1>1, <1>2, <1>3 DEF Next, Tick, vars

LEMMA SweepsStart == Init => SweepInvariant
BY DEF Init, NewSweep, SweepInvariant, Prepared

LEMMA SweepsStayPrepared == TypeOK /\ SweepInvariant /\ [Next]_vars => SweepInvariant'
<1> SUFFICES ASSUME TypeOK, SweepInvariant, [Next]_vars, NEW t \in Sweeps
             PROVE  Prepared(t)'
  BY DEF SweepInvariant
<1>1. CASE sweep'[t] = sweep[t]
  BY <1>1 DEF SweepInvariant, Prepared
<1>2. ASSUME NEW s \in Sweeps, SweepStep(s) PROVE Prepared(t)'
  BY <1>1, <1>2, SweepFrame, SweepStepPrepared
<1> QED BY <1>1, <1>2, NoSweepFrame

LEMMA SweepsPrepared == Spec => []SweepInvariant
BY SweepsStart, SweepsStayPrepared, SyncTypes, PTL DEF Spec

-----------------------------------------------------------------------------
(* The proxy, the mirror and the devices of SecretSync implement the       *)
(* contract of SecretContract, for pools of any size and any number of     *)
(* requests and sweeps.                                                    *)

Deleting == \E r \in Requests : req[r].pc \in {"erase", "drop"}

\* Every content that is stored or about to be stored is known.
ContentInvariant ==
    /\ \A d \in Devices : data[d] \in Known \cup {NoData}
    /\ \A s \in Sweeps : sweep[s].held \in Known \cup {NoData}
                         /\ sweep[s].own \in Known \cup {NoData}
    /\ \A r \in Requests : /\ req[r].pc = "idle" => req[r].kind = "none"
                           /\ req[r].pc = "write" => req[r].kind = "write"
                           /\ req[r].pc = "version" => req[r].kind = "write"
                           /\ req[r].kind = "write" => req[r].value \in Values

LEMMA KnownValues == Known \subseteq Values
BY DEF Known

LEMMA SubmittedIsKnown ==
    ASSUME ContentInvariant, NEW r \in Requests, req[r].kind = "write"
    PROVE  req[r].value \in Known
BY DEF ContentInvariant, Known, ClosedContents

\* What is left of known content is known.
LEMMA RemainingIsKnown ==
    ASSUME NEW v \in Known \cup {NoData}
    PROVE  Remaining(v) \in Known \cup {NoData}
<1>1. CASE v = NoData
  BY <1>1 DEF Remaining
<1>2. CASE v # NoData
  <2>1. v \in Values /\ DropKey[v] \in Values \cup {NoData}
    BY <1>2, SyncAssumption DEF Known
  <2>2. \A P \in ClosedContents : DropKey[v] \in P \cup {NoData}
    BY <1>2 DEF Known, ClosedContents
  <2>3. DropKey[v] \in Known \cup {NoData}
    BY <2>1, <2>2 DEF Known
  <2> QED BY <1>2, <2>3 DEF Remaining
<1> QED BY <1>1, <1>2

\* A request that has submitted content keeps it.
KeepsContent(r) ==
    /\ req[r].kind = "write" => req'[r].kind = "write" /\ req'[r].value = req[r].value
    /\ req'[r].pc = "idle" => req'[r].kind = "none"
    /\ req'[r].pc = "write" => req'[r].kind = "write"
    /\ req'[r].pc = "version" => req'[r].kind = "write"
    /\ req'[r].kind = "write" => req'[r].value \in Values

\* A step of a request after its start leaves what was submitted alone.
SameContent(r) ==
    req'[r].kind = req[r].kind /\ req'[r].value = req[r].value

LEMMA KnownGrows ==
    ASSUME \A r \in Requests : req[r].kind = "write" =>
                req'[r].kind = "write" /\ req'[r].value = req[r].value
    PROVE  Known \subseteq Known'
<1>1. ClosedContents' \subseteq ClosedContents
  BY DEF ClosedContents
<1> QED BY <1>1 DEF Known

LEMMA KnownSame ==
    ASSUME \A r \in Requests : SameContent(r)
    PROVE  Known' = Known
<1>1. ClosedContents' = ClosedContents
  BY DEF ClosedContents, SameContent
<1> QED BY <1>1 DEF Known

\* A write of known content, or one during a deletion, is a step of the contract.
LEMMA WriteKeepsContract ==
    ASSUME TypeOK, ContentInvariant, NEW d \in Devices, NEW v \in Contents,
           NEW m \in Metas, NEW err \in BOOLEAN, WriteSecret(d, v, m, err),
           v \in Known \/ (v = NoData /\ Deleting),
           Known' = Known, Deleting' = Deleting
    PROVE  /\ [Contract!Next]_Contract!vars
           /\ \A e \in Devices : data'[e] \in Known' \cup {NoData}
<1>1. /\ data' \in [Devices -> Contents] /\ data \in [Devices -> Contents]
      /\ faults \in Nat /\ faults' \in {faults, faults + 1}
      /\ \A e \in Devices \ {d} : data'[e] = data[e]
      /\ data'[d] \in {data[d], NoData, Remaining(data[d]), Remaining(v), v}
      /\ faults' = faults => data' = data \/ data'[d] = v
  BY WriteEffect DEF TypeOK
<1>2. data' = [data EXCEPT ![d] = data'[d]]
  BY <1>1
<1>3. data'[d] \in Known \cup {NoData}
  <2>1. data[d] \in Known \cup {NoData} /\ v \in Known \cup {NoData}
    BY DEF ContentInvariant
  <2> QED BY <1>1, <2>1, RemainingIsKnown
<1>4. [Contract!Next]_Contract!vars
  <2>1. CASE data'[d] \in Known
    <3>1. Contract!Store(d)
      BY <1>1, <1>2, <2>1 DEF Contract!Store, Deleting
    <3> QED BY <3>1 DEF Contract!Next
  <2>2. CASE data'[d] = NoData /\ (Deleting \/ faults' = faults + 1)
    <3>1. Contract!Lose(d)
      BY <1>1, <1>2, <2>2 DEF Contract!Lose, Deleting
    <3> QED BY <3>1 DEF Contract!Next
  <2>3. CASE data' = data /\ faults' = faults
    BY <2>3 DEF Contract!vars, Deleting
  <2> QED BY <1>1, <1>3, <2>1, <2>2, <2>3
<1> QED BY <1>1, <1>3, <1>4 DEF ContentInvariant

\* A step that stores nothing is a step of the contract.
LEMMA OtherKeepsContract ==
    ASSUME data' = data, faults' = faults, Known \subseteq Known'
    PROVE  [Contract!Next]_Contract!vars
<1>1. Known' \subseteq Values
  BY DEF Known
<1>2. Contract!Operate
  BY <1>1 DEF Contract!Operate
<1> QED BY <1>2 DEF Contract!Next

\* The part of a step on which both the invariant and the refinement depend.
StepKeeps ==
    /\ [Contract!Next]_Contract!vars
    /\ Known \subseteq Known'
    /\ \A d \in Devices : data'[d] \in Known' \cup {NoData}
    /\ \A r \in Requests : KeepsContent(r)

LEMMA RequestKeeps ==
    ASSUME TypeOK, ContentInvariant, NEW r \in Requests, RequestBegins(r) \/ RequestStep(r)
    PROVE  StepKeeps
<1>0. /\ req \in [Requests -> RequestType] /\ req[r] \in RequestType
      /\ req[r].value \in Contents /\ NoData \in Contents /\ NoMeta \in Metas
      /\ data \in [Devices -> Contents] /\ faults \in Nat
  BY DEF TypeOK, RequestType, Contents, Metas
<1>1. ASSUME \A q \in Requests : KeepsContent(q), data' = data, faults' = faults
      PROVE  StepKeeps
  <2>1. Known \subseteq Known'
    BY <1>1, KnownGrows DEF KeepsContent
  <2> QED BY <1>1, <2>1, OtherKeepsContract DEF StepKeeps, ContentInvariant
<1>2. CASE RequestBegins(r)
  <2>1. ASSUME NEW kind, NEW pc \in {"version", "erase", "drop"}, NEW v, NEW t,
               Begin(r, kind, pc, v, t), kind = "write" => v \in Values,
               pc = "version" => kind = "write"
        PROVE  StepKeeps
    <3>1. \A q \in Requests : KeepsContent(q)
      BY <1>0, <2>1 DEF Begin, KeepsContent, ContentInvariant
    <3> QED BY <1>1, <2>1, <3>1, SMTT(30) DEF Begin
  <2> QED BY <1>2, <2>1 DEF RequestBegins, BeginWrite, BeginDelete, BeginDeleteKey
<1>3. CASE IssueVersion(r)
  <2>1. \A q \in Requests : KeepsContent(q)
    BY <1>0, <1>3 DEF IssueVersion, KeepsContent, ContentInvariant, RequestType
  <2> QED BY <1>1, <1>3, <2>1 DEF IssueVersion
<1>4. CASE Respond(r)
  <2>1. \A q \in Requests : KeepsContent(q)
    BY <1>0, <1>4 DEF Respond, KeepsContent, ContentInvariant, RequestType
  <2> QED BY <1>1, <1>4, <2>1 DEF Respond
<1>5. ASSUME NEW d \in Devices, ReadVersion(r, d) PROVE StepKeeps
  <2>1. \A q \in Requests : KeepsContent(q)
    BY <1>0, <1>5 DEF ReadVersion, KeepsContent, ContentInvariant, RequestType
  <2> QED BY <1>1, <1>5, <2>1 DEF ReadVersion
<1>6. ASSUME \A q \in Requests : SameContent(q) /\ req'[q].pc = req[q].pc
      PROVE  /\ Known' = Known /\ Deleting' = Deleting
             /\ \A q \in Requests : KeepsContent(q)
  <2>1. Deleting' = Deleting
    BY <1>6, SMTT(30) DEF Deleting
  <2> QED BY <1>6, <2>1, KnownSame DEF KeepsContent, SameContent, ContentInvariant
<1>7. ASSUME NEW d \in Devices, WriteDevice(r, d) PROVE StepKeeps
  <2> DEFINE m == Stamp(req[r].version, req[r].ts)
  <2>1. m \in Metas
    BY <1>0, StampType DEF RequestType, Metas
  <2>2. \A q \in Requests : SameContent(q) /\ req'[q].pc = req[q].pc
    BY <1>0, <1>7 DEF WriteDevice, SameContent, RequestType
  <2>3. req[r].value \in Known
    BY <1>7, SubmittedIsKnown DEF WriteDevice, ContentInvariant
  <2>4. PICK err \in BOOLEAN : WriteSecret(d, req[r].value, m, err)
    BY <1>7, SMTT(30) DEF WriteDevice
  <2> HIDE DEF m
  <2> QED BY <1>0, <1>6, <2>1, <2>2, <2>3, <2>4, WriteKeepsContract DEF StepKeeps
<1>8. ASSUME NEW d \in Devices, EraseDevice(r, d) PROVE StepKeeps
  <2>1. \A q \in Requests : SameContent(q) /\ req'[q].pc = req[q].pc
    BY <1>0, <1>8 DEF EraseDevice, SameContent, RequestType
  <2>2. PICK err \in BOOLEAN : WriteSecret(d, NoData, NoMeta, err)
    BY <1>8 DEF EraseDevice
  <2>3. Deleting
    BY <1>8 DEF EraseDevice, Deleting
  <2> QED BY <1>0, <1>6, <2>1, <2>2, <2>3, WriteKeepsContract DEF StepKeeps
<1>9. ASSUME NEW d \in Devices, TombstoneDevice(r, d) PROVE StepKeeps
  <2> DEFINE m == [version |-> 0, ts |-> req[r].ts, deleted |-> TRUE]
  <2>1. m \in Metas
    BY <1>0 DEF RequestType, Metas, Metadata
  <2>2. \A q \in Requests : SameContent(q) /\ req'[q].pc = req[q].pc
    BY <1>0, <1>9 DEF TombstoneDevice, SameContent, RequestType
  <2>3. PICK err \in BOOLEAN : WriteSecret(d, NoData, m, err)
    BY <1>9 DEF TombstoneDevice
  <2>4. Deleting
    BY <1>9 DEF TombstoneDevice, Deleting
  <2> HIDE DEF m
  <2> QED BY <1>0, <1>6, <2>1, <2>2, <2>3, <2>4, WriteKeepsContract DEF StepKeeps
<1>10. ASSUME NEW d \in Devices, DropDeviceKey(r, d) PROVE StepKeeps
  <2>1. \A q \in Requests : SameContent(q) /\ req'[q].pc = req[q].pc
    BY <1>0, <1>10 DEF DropDeviceKey, SameContent, RequestType
  <2>2. Known' = Known /\ Deleting' = Deleting /\ \A q \in Requests : KeepsContent(q)
    BY <1>6, <2>1
  <2>3. Deleting
    BY <1>10 DEF DropDeviceKey, Deleting
  <2>4. /\ data' = [data EXCEPT ![d] = data'[d]]
        /\ data'[d] \in {data[d], Remaining(data[d])}
        /\ \A e \in Devices \ {d} : data'[e] = data[e]
        /\ faults' \in {faults, faults + 1}
    BY <1>0, <1>10 DEF DropDeviceKey
  <2>5. data[d] \in Known \cup {NoData} /\ Remaining(data[d]) \in Known \cup {NoData}
    BY RemainingIsKnown DEF ContentInvariant
  <2>6. [Contract!Next]_Contract!vars
    <3>1. CASE data'[d] \in Known
      <4>1. Contract!Store(d)
        BY <1>0, <2>2, <2>4, <3>1 DEF Contract!Store, Deleting
      <4> QED BY <4>1 DEF Contract!Next
    <3>2. CASE data'[d] = NoData
      <4>1. Contract!Lose(d)
        BY <1>0, <2>2, <2>3, <2>4, <3>2 DEF Contract!Lose, Deleting
      <4> QED BY <4>1 DEF Contract!Next
    <3> QED BY <2>4, <2>5, <3>1, <3>2
  <2>7. \A e \in Devices : data'[e] \in Known' \cup {NoData}
    BY <2>2, <2>4, <2>5 DEF ContentInvariant
  <2> QED BY <2>2, <2>6, <2>7 DEF StepKeeps
<1> QED BY <1>2, <1>3, <1>4, <1>5, <1>7, <1>8, <1>9, <1>10 DEF RequestStep

LEMMA SweepKeeps ==
    ASSUME TypeOK, ContentInvariant, SweepInvariant, NEW s \in Sweeps, SweepStep(s)
    PROVE  /\ StepKeeps
           /\ sweep'[s].held \in Known' \cup {NoData} /\ sweep'[s].own \in Known' \cup {NoData}
<1> DEFINE Memory == /\ sweep'[s].held \in Known \cup {NoData}
                     /\ sweep'[s].own \in Known \cup {NoData}
<1>0. /\ sweep \in [Sweeps -> SweepType] /\ sweep[s] \in SweepType /\ Prepared(s)
      /\ sweep[s].held \in Known \cup {NoData} /\ sweep[s].own \in Known \cup {NoData}
      /\ sweep[s].held \in Contents /\ sweep[s].own \in Contents
      /\ \A d \in Devices : data[d] \in Known \cup {NoData}
      /\ SweepStamp(s) \in Metas
  BY StampType DEF TypeOK, SweepInvariant, ContentInvariant, SweepType, SweepStamp, Metas
<1>1. /\ Known' = Known /\ Deleting' = Deleting
      /\ \A q \in Requests : KeepsContent(q)
  <2>1. req' = req
    BY SweepFrame
  <2> QED BY <2>1, KnownSame DEF SameContent, Deleting, KeepsContent, ContentInvariant
<1>2. ASSUME data' = data, faults' = faults PROVE StepKeeps
  BY <1>0, <1>1, <1>2, OtherKeepsContract DEF StepKeeps
<1>3. ASSUME NEW d \in Devices, NEW v \in Contents, v \in Known,
             \E err \in BOOLEAN : WriteSecret(d, v, SweepStamp(s), err)
      PROVE  StepKeeps
  BY <1>0, <1>1, <1>3, WriteKeepsContract DEF StepKeeps
<1>4. EndSweep(s) => Memory
  BY <1>0 DEF EndSweep, NewSweep
<1>5. ASSUME BeginSweep(s) PROVE StepKeeps /\ Memory
  BY <1>0, <1>2, <1>5 DEF BeginSweep, SweepType
<1>6. ASSUME MakePlan(s) PROVE StepKeeps /\ Memory
  <2> DEFINE plan == MirrorPlan(sweep[s].inv)
  <2> HIDE DEF plan
  <2>1. CASE sweep' = [sweep EXCEPT ![s] =
                 [NewSweep EXCEPT !.pc = "source", !.todo = plan.targets,
                                  !.type = plan.type, !.source = {plan.source}]]
    BY <1>0, <1>2, <1>6, <2>1 DEF MakePlan, NewSweep
  <2>2. CASE EndSweep(s)
    BY <1>2, <1>4, <1>6, <2>2 DEF MakePlan
  <2> QED BY <1>6, <2>1, <2>2 DEF MakePlan, plan
<1>7. ASSUME FinishSweep(s) PROVE StepKeeps /\ Memory
  BY <1>2, <1>4, <1>7 DEF FinishSweep
<1>8. ASSUME NEW d \in Devices, InventoryData(s, d) PROVE StepKeeps /\ Memory
  BY <1>0, <1>2, <1>8 DEF InventoryData, SweepType
<1>9. ASSUME NEW d \in Devices, InventoryMetadata(s, d) PROVE StepKeeps /\ Memory
  BY <1>0, <1>2, <1>9 DEF InventoryMetadata, SweepType
<1>10. ASSUME NEW d \in Devices, ReadSource(s, d) PROVE StepKeeps /\ Memory
  BY <1>0, <1>2, <1>4, <1>10 DEF ReadSource, SweepType
<1>11. ASSUME NEW d \in Devices, ReadSourceVersion(s, d) PROVE StepKeeps /\ Memory
  BY <1>0, <1>2, <1>11 DEF ReadSourceVersion, SweepType
<1>12. ASSUME NEW d \in Devices, RestoreSource(s, d) PROVE StepKeeps /\ Memory
  <2>1. StepKeeps
    BY <1>0, <1>3, <1>12 DEF RestoreSource, Prepared
  <2>2. Memory
    BY <1>0, <1>4, <1>12 DEF RestoreSource, SweepType
  <2> QED BY <2>1, <2>2
<1>13. ASSUME NEW d \in Devices, SyncTarget(s, d) PROVE StepKeeps /\ Memory
  <2>1. StepKeeps
    BY <1>0, <1>3, <1>13 DEF SyncTarget, Prepared
  <2>2. Memory
    BY <1>0, <1>13 DEF SyncTarget, SweepType
  <2> QED BY <2>1, <2>2
<1>14. ASSUME NEW d \in Devices, ReadTarget(s, d) PROVE StepKeeps /\ Memory
  BY <1>0, <1>2, <1>14 DEF ReadTarget, SweepType
<1>15. ASSUME NEW d \in Devices, StampTarget(s, d) PROVE StepKeeps /\ Memory
  <2>1. StepKeeps
    BY <1>0, <1>3, <1>15 DEF StampTarget, Prepared
  <2>2. Memory
    BY <1>0, <1>15 DEF StampTarget, SweepType
  <2> QED BY <2>1, <2>2
<1> HIDE DEF Memory
<1>16. StepKeeps /\ Memory
  BY <1>5, <1>6, <1>7, <1>8, <1>9, <1>10, <1>11, <1>12, <1>13, <1>14, <1>15 DEF SweepStep
<1> QED BY <1>1, <1>16 DEF Memory

LEMMA NextKeeps ==
    ASSUME TypeOK, ContentInvariant, SweepInvariant, [Next]_vars
    PROVE  ContentInvariant' /\ [Contract!Next]_Contract!vars
<1>1. ASSUME StepKeeps, sweep' = sweep
      PROVE  ContentInvariant' /\ [Contract!Next]_Contract!vars
  BY <1>1 DEF StepKeeps, ContentInvariant, KeepsContent
<1>2. ASSUME NEW r \in Requests, RequestBegins(r) \/ RequestStep(r)
      PROVE  StepKeeps /\ sweep' = sweep
  <2>1. StepKeeps
    BY <1>2, RequestKeeps
  <2>2. sweep' = sweep
    <3>1. CASE RequestBegins(r)
      BY <3>1, SMTT(30) DEF RequestBegins, BeginWrite, BeginDelete, BeginDeleteKey, Begin
    <3>2. CASE RequestStep(r)
      BY <3>2, ZenonT(30) DEF RequestStep, IssueVersion, Respond, ReadVersion, WriteDevice,
            EraseDevice, TombstoneDevice, DropDeviceKey
    <3> QED BY <1>2, <3>1, <3>2
  <2> QED BY <2>1, <2>2
<1>3. ASSUME NEW s \in Sweeps, SweepStep(s)
      PROVE  ContentInvariant' /\ [Contract!Next]_Contract!vars
  <2>1. /\ StepKeeps
        /\ sweep'[s].held \in Known' \cup {NoData} /\ sweep'[s].own \in Known' \cup {NoData}
    BY <1>3, SweepKeeps
  <2>2. \A t \in Sweeps \ {s} : sweep'[t] = sweep[t]
    BY <1>3, SweepFrame
  <2> QED BY <2>1, <2>2 DEF StepKeeps, ContentInvariant, KeepsContent
<1>4. ASSUME req' = req, data' = data, sweep' = sweep
      PROVE  /\ Known' = Known /\ Deleting' = Deleting
             /\ ContentInvariant'
             /\ faults' = faults => [Contract!Next]_Contract!vars
  <2>1. Known' = Known /\ Deleting' = Deleting
    BY <1>4, KnownSame DEF SameContent, Deleting
  <2> QED BY <1>4, <2>1, OtherKeepsContract DEF ContentInvariant
<1>5. ASSUME NEW d \in Devices, AgentDown(d)
      PROVE  ContentInvariant' /\ [Contract!Next]_Contract!vars
  <2>1. Known' = Known /\ Deleting' = Deleting /\ ContentInvariant'
    BY <1>4, <1>5 DEF AgentDown
  <2>2. Contract!Fail
    BY <1>5, <2>1 DEF AgentDown, Contract!Fail, Deleting
  <2> QED BY <2>1, <2>2 DEF Contract!Next
<1>6. ASSUME NEW d \in Devices, AgentUp(d)
      PROVE  ContentInvariant' /\ [Contract!Next]_Contract!vars
  BY <1>4, <1>6 DEF AgentUp
<1>7. CASE Tick
  BY <1>4, <1>7 DEF Tick
<1>8. CASE UNCHANGED vars
  BY <1>4, <1>8 DEF vars
<1> QED BY <1>1, <1>2, <1>3, <1>5, <1>6, <1>7, <1>8 DEF Next

\* Nothing is stored, submitted or deleted at the start.
LEMMA ContentStart == Init => ContentInvariant /\ Contract!Init
<1> SUFFICES ASSUME Init PROVE ContentInvariant /\ Contract!Init
  OBVIOUS
<1>1. ContentInvariant
  BY DEF Init, NewRequest, NewSweep, ContentInvariant
<1>2. {} \in ClosedContents
  BY DEF Init, NewRequest, ClosedContents
<1>3. Known = {}
  BY <1>2 DEF Known
<1>4. ~\E r \in Requests : req[r].pc \in {"erase", "drop"}
  BY DEF Init, NewRequest
<1> QED BY <1>1, <1>3, <1>4 DEF Init, Contract!Init

\* The proxy, the mirror and the devices keep the contract: only submitted content
\* (or what is left of it) is ever stored, and copies disappear only during a
\* deletion or with a failed device write.
THEOREM SyncKeepsContract == Spec => KeepsContract
<1>1. TypeOK /\ ContentInvariant /\ SweepInvariant /\ [Next]_vars
        => ContentInvariant' /\ [Contract!Next]_Contract!vars
  BY NextKeeps
<1> QED BY <1>1, ContentStart, SyncTypes, SweepsPrepared, PTL
        DEF Spec, KeepsContract, Contract!Spec
=============================================================================
