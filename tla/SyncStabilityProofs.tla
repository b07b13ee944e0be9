------------------------ MODULE SyncStabilityProofs ------------------------
(***************************************************************************)
(* What mirroring never does, for pools of any size: disturb an agreed     *)
(* secret, displace a majority, or rewrite the last copy.  Then the        *)
(* HSMSecret controller beside it: it leaves the devices alone, and the    *)
(* Kubernetes Secret has only what clients submitted, stays when devices   *)
(* and Secret agree, and does not come back after a deletion.              *)
(***************************************************************************)
EXTENDS SecretSyncProofs, SecretController

\* Only an active request or a new one changes anything on behalf of a request.
LEMMA RequestsAtRest ==
    ASSUME TypeOK, NEW r \in Requests, RequestBegins(r) \/ RequestStep(r), ~Active(r)
    PROVE  req' # req
<1>0. req \in [Requests -> RequestType] /\ req[r] \in RequestType
  BY DEF TypeOK
<1>1. ASSUME NEW kind, NEW pc \in {"version", "erase", "drop"}, NEW v, NEW t,
             Begin(r, kind, pc, v, t)
      PROVE  req' # req
  BY <1>0, <1>1 DEF Begin
<1>2. CASE RequestBegins(r)
  BY <1>1, <1>2, SMTT(30) DEF RequestBegins, BeginWrite, BeginDelete, BeginDeleteKey
<1>3. ~RequestStep(r)
  BY DEF Active, RequestStep, IssueVersion, Respond, ReadVersion, WriteDevice,
         EraseDevice, TombstoneDevice, DropDeviceKey
<1> QED BY <1>2, <1>3

\* What a sweep writes while no device write fails half way.
LEMMA SweepWrite ==
    ASSUME TypeOK, NEW s \in Sweeps, NEW d \in Devices, NEW v \in Contents,
           NEW err \in BOOLEAN, WriteSecret(d, v, SweepStamp(s), err),
           faults' = faults \/ data' = data
    PROVE  /\ \A e \in Devices \ {d} : data'[e] = data[e]
           /\ data'[d] \in {data[d], v}
<1>1. SweepStamp(s) \in Metas
  BY StampType DEF SweepStamp, TypeOK, SweepType, Metas
<1> QED BY <1>1, WriteEffect

\* A settled secret stays settled under a step of a sweep.
LEMMA SweepKeepsSettled ==
    ASSUME TypeOK, SweepInvariant, NEW v \in Values, Settled(v),
           NEW s \in Sweeps, SweepStep(s), faults' = faults \/ data' = data
    PROVE  Settled(v)'
<1> DEFINE Copies == \A d \in Devices : data'[d] = v
           Memory == /\ sweep'[s].held \in {v, NoData} /\ sweep'[s].own \in {v, NoData}
                     /\ \A d \in Devices : sweep'[s].inv[d].content \in {v, NoData}
<1>0. /\ sweep \in [Sweeps -> SweepType] /\ sweep[s] \in SweepType /\ Prepared(s)
      /\ \A d \in Devices : data[d] = v
      /\ sweep[s].held \in {v, NoData} /\ sweep[s].own \in {v, NoData}
      /\ \A d \in Devices : sweep[s].inv[d].content \in {v, NoData}
      /\ sweep[s].held \in Contents /\ sweep[s].own \in Contents
  BY DEF TypeOK, SweepInvariant, Settled, Remembered, SweepType
<1>1. EndSweep(s) => Memory
  BY <1>0 DEF EndSweep, NewSweep, Unread
<1>2. ASSUME BeginSweep(s) PROVE Copies /\ Memory
  BY <1>0, <1>2 DEF BeginSweep, SweepType
<1>3. ASSUME MakePlan(s) PROVE Copies /\ Memory
  <2> DEFINE plan == MirrorPlan(sweep[s].inv)
  <2> HIDE DEF plan
  <2>1. CASE sweep' = [sweep EXCEPT ![s] =
                 [NewSweep EXCEPT !.pc = "source", !.todo = plan.targets,
                                  !.type = plan.type, !.source = {plan.source}]]
    BY <1>0, <1>3, <2>1 DEF MakePlan, NewSweep, Unread
  <2>2. CASE EndSweep(s)
    BY <1>0, <1>1, <1>3, <2>2 DEF MakePlan
  <2> QED BY <1>3, <2>1, <2>2 DEF MakePlan, plan
<1>4. ASSUME FinishSweep(s) PROVE Copies /\ Memory
  BY <1>0, <1>1, <1>4 DEF FinishSweep
<1>5. ASSUME NEW d \in Devices, InventoryData(s, d) PROVE Copies /\ Memory
  BY <1>0, <1>5 DEF InventoryData, SweepType, Unread
<1>6. ASSUME NEW d \in Devices, InventoryMetadata(s, d) PROVE Copies /\ Memory
  <2>1. sweep'[s].held = sweep[s].held /\ sweep'[s].own = sweep[s].own
    BY <1>0, <1>6 DEF InventoryMetadata, SweepType
  <2>2. \A e \in Devices : sweep'[s].inv[e].content = sweep[s].inv[e].content
    BY <1>0, <1>6 DEF InventoryMetadata, SweepType, SecretState
  <2> QED BY <1>0, <1>6, <2>1, <2>2 DEF InventoryMetadata
<1>7. ASSUME NEW d \in Devices, ReadSource(s, d) PROVE Copies /\ Memory
  BY <1>0, <1>1, <1>7 DEF ReadSource, SweepType
<1>8. ASSUME NEW d \in Devices, ReadSourceVersion(s, d) PROVE Copies /\ Memory
  BY <1>0, <1>8 DEF ReadSourceVersion, SweepType
<1>9. ASSUME NEW d \in Devices, RestoreSource(s, d) PROVE Copies /\ Memory
  <2>1. \E err \in BOOLEAN : WriteSecret(d, sweep[s].held, SweepStamp(s), err)
    BY <1>9 DEF RestoreSource
  <2>2. Copies
    BY <1>0, <1>9, <2>1, SweepWrite DEF Prepared, RestoreSource
  <2>3. Memory
    BY <1>0, <1>1, <1>9 DEF RestoreSource, SweepType
  <2> QED BY <2>2, <2>3
<1>10. ASSUME NEW d \in Devices, SyncTarget(s, d) PROVE Copies /\ Memory
  <2>1. \E err \in BOOLEAN : WriteSecret(d, sweep[s].held, SweepStamp(s), err)
    BY <1>10 DEF SyncTarget
  <2>2. Copies
    BY <1>0, <1>10, <2>1, SweepWrite DEF Prepared, SyncTarget
  <2>3. Memory
    BY <1>0, <1>10 DEF SyncTarget, SweepType
  <2> QED BY <2>2, <2>3
<1>11. ASSUME NEW d \in Devices, ReadTarget(s, d) PROVE Copies /\ Memory
  BY <1>0, <1>11 DEF ReadTarget, SweepType
<1>12. ASSUME NEW d \in Devices, StampTarget(s, d) PROVE Copies /\ Memory
  <2>1. \E err \in BOOLEAN : WriteSecret(d, sweep[s].own, SweepStamp(s), err)
    BY <1>12 DEF StampTarget
  <2>2. Copies
    BY <1>0, <1>12, <2>1, SweepWrite DEF Prepared, StampTarget
  <2>3. Memory
    BY <1>0, <1>12 DEF StampTarget, SweepType
  <2> QED BY <2>2, <2>3
<1> HIDE DEF Copies, Memory
<1>13. Copies /\ Memory
  BY <1>2, <1>3, <1>4, <1>5, <1>6, <1>7, <1>8, <1>9, <1>10, <1>11, <1>12 DEF SweepStep
<1>14. \A t \in Sweeps : Remembered(t)' \subseteq {v, NoData}
  <2>1. Remembered(s)' \subseteq {v, NoData}
    BY <1>13 DEF Memory, Remembered
  <2>2. \A t \in Sweeps \ {s} : Remembered(t)' = Remembered(t)
    BY SweepFrame DEF Remembered
  <2> QED BY <2>1, <2>2 DEF Settled
<1>15. \A r \in Requests : ~Active(r)'
  BY SweepFrame DEF Settled, Active
<1> QED BY <1>13, <1>14, <1>15 DEF Copies, Settled

\* ... and under every step but the start of a request.
LEMMA NextKeepsSettled ==
    ASSUME TypeOK, SweepInvariant, [Next]_vars, NEW v \in Values, Settled(v),
           req' = req, faults' = faults \/ data' = data
    PROVE  Settled(v)'
<1>1. ASSUME NEW s \in Sweeps, SweepStep(s) PROVE Settled(v)'
  BY <1>1, SweepKeepsSettled
<1>2. CASE ~\E s \in Sweeps : SweepStep(s)
  <2>1. sweep' = sweep
    BY <1>2, NoSweepFrame
  <2>2. data' = data
    <3>1. ASSUME NEW r \in Requests, RequestBegins(r) \/ RequestStep(r) PROVE FALSE
      BY <3>1, RequestsAtRest DEF Settled
    <3> QED BY <1>2, <3>1 DEF Next, AgentDown, AgentUp, Tick, vars
  <2> QED BY <2>1, <2>2 DEF Settled, Active, Remembered
<1> QED BY <1>1, <1>2

\* Once all devices hold the same content and nothing older is in flight, no
\* number of sweeps, with any agents down and any metadata, changes a copy.
THEOREM SyncAgreement == Spec => AgreementIsStable
<1>1. TypeOK /\ SweepInvariant /\ [Next]_vars =>
        [\A v \in Values : Settled(v) /\ req' = req /\ faults' = faults => Settled(v)']_vars
  BY NextKeepsSettled
<1> QED BY <1>1, SyncTypes, SweepsPrepared, PTL DEF Spec, AgreementIsStable

\* Rewriting the source never destroys the last copy.
THEOREM SyncLastCopy == Spec => LastCopySurvives
<1>1. TypeOK /\ SweepInvariant /\ [Next]_vars =>
        [\A s \in Sweeps, d \in Devices :
            RestoreSource(s, d) /\ (\A t \in sweep[s].todo : data[t] # NoData)
              => \E e \in Devices : data'[e] # NoData]_vars
  <2> SUFFICES ASSUME TypeOK, SweepInvariant, NEW s \in Sweeps, NEW d \in Devices,
                      RestoreSource(s, d), \A t \in sweep[s].todo : data[t] # NoData
               PROVE  \E e \in Devices : data'[e] # NoData
    OBVIOUS
  <2>1. sweep[s] \in SweepType /\ Prepared(s)
    BY DEF TypeOK, SweepInvariant
  <2>2. PICK t \in sweep[s].todo : t \in Devices /\ t # d
    BY <2>1 DEF RestoreSource, Prepared, SweepType
  <2>3. \E err \in BOOLEAN : WriteSecret(d, sweep[s].held, SweepStamp(s), err)
    BY DEF RestoreSource
  <2>4. SweepStamp(s) \in Metas /\ sweep[s].held \in Contents
    BY <2>1, StampType DEF SweepStamp, SweepType, Metas
  <2>5. data'[t] = data[t]
    BY <2>2, <2>3, <2>4, WriteEffect
  <2> QED BY <2>2, <2>5
<1> QED BY <1>1, SyncTypes, SweepsPrepared, PTL DEF Spec, LastCopySurvives

\* When a majority of the devices is present with v and none failed to answer, a
\* plan copies from a device that was present with v.
LEMMA QuorumPlan ==
    ASSUME NEW inv \in [Devices -> SecretState], NEW Q \in SUBSET Devices, NEW v \in Values,
           Cardinality(Devices) >= 3,
           StrictMajority(Cardinality(Q), Cardinality(Devices)),
           \A d \in Devices : inv[d].status # "error",
           \A d \in Q : inv[d].status = "present" /\ inv[d].content = v
    PROVE  /\ InStatus(inv, "present") # {}
           /\ inv[MirrorPlan(inv).source].content = v
<1> DEFINE n == Cardinality(Devices)
           V == Voters(PlanObs(inv))
           W == Supporters(V, v)
           f == [d \in Q |-> InventoryObservation(d, inv[d])]
<1>1. Devices \ InStatus(inv, "error") = Devices
  BY DEF InStatus
<1>2. /\ IsFiniteSet(PlanObs(inv)) /\ Comparable(PlanObs(inv))
      /\ IsFiniteSet(Devices) /\ n \in Nat /\ Cardinality(V) <= n
  BY <1>1, PlanObsFinite
<1>3. IsFiniteSet(V) /\ IsFiniteSet(W) /\ IsFiniteSet(Q)
  <2>1. V \subseteq PlanObs(inv) /\ W \subseteq V
    BY DEF Voters, Supporters
  <2> QED BY <1>2, <2>1, FS_Subset
<1>4. f \in Injection(Q, W)
  <2>1. \A d \in Q : InventoryObservation(d, inv[d]) \in W
    <3> TAKE d \in Q
    <3>1. InventoryObservation(d, inv[d]) \in PlanObs(inv)
      BY <1>1 DEF PlanObs
    <3>2. /\ HasOpinion(InventoryObservation(d, inv[d]))
          /\ EffectiveChecksum(InventoryObservation(d, inv[d])) = v
      BY ObservationFields
    <3> QED BY <3>1, <3>2 DEF Voters, Supporters
  <2>2. \A d \in Q : InventoryObservation(d, inv[d]).id = d
    BY ObservationFields
  <2> HIDE DEF W
  <2>3. f \in [Q -> W]
    BY <2>1
  <2>4. \A d, e \in Q : f[d] = f[e] => d = e
    BY <2>2
  <2> QED BY <2>3, <2>4 DEF Injection, IsInjective
<1>5. Cardinality(Q) <= Cardinality(W)
  <2> HIDE DEF f, W
  <2> QED BY <1>3, <1>4, FS_Injection
<1>6. StrictMajority(Cardinality(W), n)
  <2>1. Cardinality(Q) \in Nat /\ Cardinality(W) \in Nat
    BY <1>3, FS_CardinalityType
  <2> QED BY <1>2, <1>5, <2>1 DEF StrictMajority
<1>7. Resolve(PlanObs(inv), n).checksum = v
  <2> HIDE DEF n
  <2> QED BY <1>2, <1>6, ResolveFollowsMajority DEF n
<1>8. Q # {}
  <2> SUFFICES ASSUME Q = {} PROVE FALSE
    OBVIOUS
  <2>1. Cardinality(Q) = 0
    BY FS_EmptySet
  <2> QED BY <1>2, <2>1 DEF StrictMajority
<1>9. InStatus(inv, "present") # {}
  BY <1>8 DEF InStatus
<1> QED BY <1>1, <1>7, <1>9, PlanFacts

\* The part of QuorumHolds about one sweep.
Fresh(Q, v, s) ==
    /\ sweep[s].pc \in {"inventory", "metadata"} => \A d \in Devices :
          /\ sweep[s].inv[d].status # "error"
          /\ d \in Q /\ sweep[s].inv[d].status # "unread" =>
                sweep[s].inv[d].status = "present" /\ sweep[s].inv[d].content = v
          /\ sweep[s].inv[d].content = v => data[d] = v
    /\ \A d \in sweep[s].source : data[d] = v
    /\ sweep[s].pc \in {"version", "restore", "targets", "stamp"} => sweep[s].held = v
    /\ sweep[s].pc = "stamp" => \A d \in sweep[s].cur : sweep[s].own = data[d]

\* A step of a sweep keeps the copies that are v, and keeps its view fresh.
LEMMA SweepKeepsQuorum ==
    ASSUME TypeOK, SweepInvariant, NEW Q \in SUBSET Devices, NEW v \in Values,
           QuorumHolds(Q, v), NEW s \in Sweeps, SweepStep(s), faults' = faults
    PROVE  Fresh(Q, v, s)' /\ \A d \in Devices : data[d] = v => data'[d] = v
<1> DEFINE Good == Fresh(Q, v, s)' /\ \A d \in Devices : data[d] = v => data'[d] = v
<1> USE DEF Fresh
<1>0. /\ sweep \in [Sweeps -> SweepType] /\ sweep[s] \in SweepType /\ Prepared(s)
      /\ sweep[s].held \in Contents /\ sweep[s].own \in Contents
      /\ Fresh(Q, v, s) /\ v # NoData
      /\ \A d \in Q : data[d] = v
      /\ \A d \in Devices : up[d]
  BY SyncAssumption DEF TypeOK, SweepInvariant, QuorumHolds, SweepType
<1>1. ASSUME EndSweep(s), data' = data PROVE Good
  BY <1>0, <1>1 DEF EndSweep, NewSweep
<1>2. ASSUME BeginSweep(s) PROVE Good
  <2>1. /\ sweep'[s].pc = "inventory" /\ sweep'[s].source = {} /\ data' = data
        /\ \A d \in Devices : sweep'[s].inv[d] = Unread
    BY <1>0, <1>2 DEF BeginSweep, Prepared, NewSweep
  <2> QED BY <1>0, <2>1 DEF Unread
<1>3. ASSUME MakePlan(s) PROVE Good
  <2> DEFINE inv == sweep[s].inv
             plan == MirrorPlan(inv)
  <2>1. /\ inv \in [Devices -> SecretState]
        /\ \A d \in Devices : inv[d].status # "error" /\ (inv[d].content = v => data[d] = v)
        /\ \A d \in Q : inv[d].status = "present" /\ inv[d].content = v
    BY <1>0, <1>3 DEF MakePlan, Prepared, SweepType
  <2>2. /\ Cardinality(Devices) >= 3
        /\ StrictMajority(Cardinality(Q), Cardinality(Devices))
    BY DEF QuorumHolds
  <2> HIDE DEF inv
  <2>3. /\ InStatus(inv, "present") # {} /\ inv[plan.source].content = v
    BY <2>1, <2>2, QuorumPlan
  <2>4. plan.source \in Devices
    BY <2>1, <2>3, PlanFacts
  <2>5. data[plan.source] = v
    BY <2>1, <2>3, <2>4
  <2> HIDE DEF plan
  <2>6. CASE sweep' = [sweep EXCEPT ![s] =
                 [NewSweep EXCEPT !.pc = "source", !.todo = plan.targets,
                                  !.type = plan.type, !.source = {plan.source}]]
    <3>1. /\ sweep'[s].pc = "source" /\ sweep'[s].source = {plan.source} /\ data' = data
      BY <1>0, <1>3, <2>6 DEF MakePlan, NewSweep
    <3> QED BY <2>5, <3>1
  <2>7. CASE EndSweep(s)
    BY <1>1, <1>3, <2>7 DEF MakePlan
  <2> QED BY <1>3, <2>6, <2>7 DEF MakePlan, plan, inv
<1>4. ASSUME FinishSweep(s) PROVE Good
  BY <1>1, <1>4 DEF FinishSweep
<1>5. ASSUME NEW d \in Devices, InventoryData(s, d) PROVE Good
  <2>1. /\ \A e \in Devices \ {d} : sweep'[s].inv[e] = sweep[s].inv[e]
        /\ sweep'[s].source = sweep[s].source /\ data' = data
        /\ sweep[s].pc = "inventory" /\ sweep'[s].pc \in {"inventory", "metadata"}
    BY <1>0, <1>5 DEF InventoryData, SweepType
  <2>2. CASE data[d] # NoData
    <3>1. sweep'[s].inv[d].status = "present" /\ sweep'[s].inv[d].content = data[d]
      BY <1>0, <1>5, <2>2 DEF InventoryData, SweepType
    <3> QED BY <1>0, <2>1, <3>1
  <2>3. CASE data[d] = NoData
    <3>1. sweep'[s].inv[d].status = "absent" /\ sweep'[s].inv[d].content = NoData
      BY <1>0, <1>5, <2>3 DEF InventoryData, SweepType, Unread
    <3> QED BY <1>0, <2>1, <2>3, <3>1
  <2> QED BY <2>2, <2>3
<1>6. ASSUME NEW d \in Devices, InventoryMetadata(s, d) PROVE Good
  <2>1. \A e \in Devices : /\ sweep'[s].inv[e].content = sweep[s].inv[e].content
                           /\ sweep'[s].inv[e].status = sweep[s].inv[e].status
    BY <1>0, <1>6 DEF InventoryMetadata, SweepType, SecretState
  <2>2. /\ sweep'[s].source = sweep[s].source /\ data' = data
        /\ sweep[s].pc = "metadata" /\ sweep'[s].pc = "inventory"
    BY <1>0, <1>6 DEF InventoryMetadata, SweepType
  <2> QED BY <1>0, <2>1, <2>2
<1>7. ASSUME NEW d \in Devices, ReadSource(s, d) PROVE Good
  <2>1. /\ sweep'[s].pc = "version" /\ sweep'[s].held = v /\ data' = data
        /\ sweep'[s].source = sweep[s].source
    BY <1>0, <1>7 DEF ReadSource, SweepType
  <2> QED BY <1>0, <2>1
<1>8. ASSUME NEW d \in Devices, ReadSourceVersion(s, d) PROVE Good
  <2>1. /\ sweep'[s].pc \in {"restore", "targets"} /\ sweep'[s].held = v /\ data' = data
        /\ sweep'[s].source = sweep[s].source
    BY <1>0, <1>8 DEF ReadSourceVersion, SweepType
  <2> QED BY <1>0, <2>1
<1>9. ASSUME NEW d \in Devices, RestoreSource(s, d) PROVE Good
  <2>1. /\ \E err \in BOOLEAN : WriteSecret(d, v, SweepStamp(s), err)
        /\ v \in Contents
    BY <1>0, <1>9 DEF RestoreSource
  <2>2. \A e \in Devices : data[e] = v => data'[e] = v
    BY <2>1, SweepWrite
  <2>3. \/ sweep'[s] = NewSweep
        \/ /\ sweep'[s].pc = "targets" /\ sweep'[s].held = v
           /\ sweep'[s].source = sweep[s].source
    BY <1>0, <1>9 DEF RestoreSource, EndSweep, SweepType
  <2>4. sweep[s].source \subseteq Devices
    BY <1>0 DEF SweepType
  <2>5. CASE sweep'[s] = NewSweep
    <3>1. sweep'[s].pc = "idle" /\ sweep'[s].source = {}
      BY <2>5 DEF NewSweep
    <3> QED BY <2>2, <3>1
  <2>6. CASE /\ sweep'[s].pc = "targets" /\ sweep'[s].held = v
             /\ sweep'[s].source = sweep[s].source
    BY <1>0, <2>2, <2>4, <2>6
  <2> QED BY <2>3, <2>5, <2>6
<1>10. ASSUME NEW d \in Devices, SyncTarget(s, d) PROVE Good
  <2>1. /\ \E err \in BOOLEAN : WriteSecret(d, v, SweepStamp(s), err)
        /\ v \in Contents
    BY <1>0, <1>10 DEF SyncTarget
  <2>2. \A e \in Devices : data[e] = v => data'[e] = v
    BY <2>1, SweepWrite
  <2>3. /\ sweep'[s].pc = "targets" /\ sweep'[s].held = v
        /\ sweep'[s].source = sweep[s].source
    BY <1>0, <1>10 DEF SyncTarget, SweepType
  <2>4. sweep[s].source \subseteq Devices
    BY <1>0 DEF SweepType
  <2> QED BY <1>0, <2>2, <2>3, <2>4
<1>11. ASSUME NEW d \in Devices, ReadTarget(s, d) PROVE Good
  <2>1. /\ sweep'[s].held = v /\ data' = data /\ sweep'[s].source = sweep[s].source
        /\ \/ sweep'[s].pc = "targets"
           \/ sweep'[s].pc = "stamp" /\ sweep'[s].cur = {d} /\ sweep'[s].own = data[d]
    BY <1>0, <1>11 DEF ReadTarget, SweepType
  <2> QED BY <1>0, <2>1
<1>12. ASSUME NEW d \in Devices, StampTarget(s, d) PROVE Good
  <2>1. /\ \E err \in BOOLEAN : WriteSecret(d, sweep[s].own, SweepStamp(s), err)
        /\ sweep[s].own = data[d]
    BY <1>0, <1>12 DEF StampTarget
  <2>2. \A e \in Devices : data'[e] = data[e]
    BY <1>0, <2>1, SweepWrite
  <2>3. /\ sweep'[s].pc = "targets" /\ sweep'[s].held = v
        /\ sweep'[s].source = sweep[s].source
    BY <1>0, <1>12 DEF StampTarget, SweepType
  <2>4. sweep[s].source \subseteq Devices
    BY <1>0 DEF SweepType
  <2> QED BY <1>0, <2>2, <2>3, <2>4
<1> HIDE DEF Good
<1>13. Good
  BY <1>2, <1>3, <1>4, <1>5, <1>6, <1>7, <1>8, <1>9, <1>10, <1>11, <1>12 DEF SweepStep
<1> QED BY <1>13 DEF Good

\* Content that more than half of three or more devices hold is not displaced by
\* a sweep, whatever the others hold and whatever versions they carry.
THEOREM SyncMajority == Spec => MajorityIsStable
<1>1. TypeOK /\ SweepInvariant /\ [Next]_vars =>
        [\A Q \in SUBSET Devices, v \in Values :
            QuorumHolds(Q, v) /\ OneSweep' /\ UNCHANGED <<req, faults, up>>
              => QuorumHolds(Q, v)']_vars
  <2> SUFFICES ASSUME TypeOK, SweepInvariant, [Next]_vars,
                      NEW Q \in SUBSET Devices, NEW v \in Values,
                      QuorumHolds(Q, v), OneSweep', UNCHANGED <<req, faults, up>>
               PROVE  QuorumHolds(Q, v)'
    OBVIOUS
  <2>0. \A t \in Sweeps : Fresh(Q, v, t)
    BY DEF QuorumHolds, Fresh
  <2>1. ASSUME \A d \in Devices : data[d] = v => data'[d] = v,
               \A t \in Sweeps : Fresh(Q, v, t)'
        PROVE  QuorumHolds(Q, v)'
    <3>1. \A d \in Q : data'[d] = v
      BY <2>1 DEF QuorumHolds
    <3>2. \A r \in Requests : ~Active(r)'
      BY DEF QuorumHolds, Active
    <3> QED BY <2>1, <3>1, <3>2 DEF QuorumHolds, Fresh
  <2>2. ASSUME NEW s \in Sweeps, SweepStep(s) PROVE QuorumHolds(Q, v)'
    <3>1. Fresh(Q, v, s)' /\ \A d \in Devices : data[d] = v => data'[d] = v
      BY <2>2, SweepKeepsQuorum
    <3>2. ASSUME NEW t \in Sweeps \ {s} PROVE Fresh(Q, v, t)'
      <4>1. sweep'[t] = sweep[t]
        BY <2>2, SweepFrame
      <4>2. CASE data' = data
        BY <2>0, <4>1, <4>2 DEF Fresh
      <4>3. CASE sweep[t].pc = "idle"
        <5>1. sweep[t].source = {}
          BY <4>3 DEF SweepInvariant, Prepared, NewSweep
        <5>2. sweep'[t].pc = "idle" /\ sweep'[t].source = {}
          BY <4>1, <4>3, <5>1
        <5> QED BY <5>2 DEF Fresh
      <4>4. sweep[s].pc = "idle" => data' = data
        BY <2>2 DEF SweepStep, BeginSweep, MakePlan, FinishSweep, InventoryData,
              InventoryMetadata, ReadSource, ReadSourceVersion, RestoreSource,
              SyncTarget, ReadTarget, StampTarget
      <4> QED BY <4>2, <4>3, <4>4 DEF QuorumHolds, OneSweep
    <3> QED BY <2>1, <3>1, <3>2
  <2>3. CASE ~\E s \in Sweeps : SweepStep(s)
    <3>1. sweep' = sweep
      BY <2>3, NoSweepFrame
    <3>2. data' = data
      <4>1. ASSUME NEW r \in Requests, RequestBegins(r) \/ RequestStep(r) PROVE FALSE
        BY <4>1, RequestsAtRest DEF QuorumHolds
      <4> QED BY <2>3, <4>1 DEF Next, AgentDown, AgentUp, Tick, vars
    <3> QED BY <2>0, <2>1, <3>1, <3>2 DEF Fresh
  <2> QED BY <2>2, <2>3
<1> QED BY <1>1, SyncTypes, SweepsPrepared, PTL DEF Spec, MajorityIsStable
-----------------------------------------------------------------------------
(* The HSMSecret controller beside the devices: its steps keep what was    *)
(* proved of them, and what it writes to the Kubernetes Secret.            *)

\* The device part of CSpec.
DeviceInvariant == TypeOK /\ SweepInvariant /\ ContentInvariant

\* A step of the controller or of the cluster does not touch a device.
LEMMA ControllerFrame ==
    ASSUME ControllerStep \/ DeleteResource \/ GarbageCollect
    PROVE  UNCHANGED deviceVars /\ faults' \in {faults, faults + 1}
<1>1. ASSUME NEW d \in Devices, GatherData(d) \/ GatherMetadata(d)
      PROVE  UNCHANGED deviceVars /\ faults' \in {faults, faults + 1}
  BY <1>1 DEF GatherData, GatherMetadata
<1>2. CASE AddFinalizer \/ StartReconcile \/ Decide \/ UpdateSecret \/ StoreStatus
  BY <1>2 DEF AddFinalizer, StartReconcile, Decide, UpdateSecret, StoreStatus, ApiCall
<1>3. CASE CleanupSecret \/ RemoveFinalizer \/ DeleteResource \/ GarbageCollect
  BY <1>3 DEF CleanupSecret, RemoveFinalizer, DeleteResource, GarbageCollect, ApiCall
<1> QED BY <1>1, <1>2, <1>3 DEF ControllerStep

LEMMA ControllerKeepsDevices ==
    ASSUME DeviceInvariant, UNCHANGED deviceVars, faults' \in {faults, faults + 1}
    PROVE  DeviceInvariant' /\ [Contract!Next]_Contract!vars /\ Known' = Known
<1> USE DEF deviceVars
<1>1. TypeOK' /\ SweepInvariant'
  BY DEF DeviceInvariant, TypeOK, SweepInvariant, Prepared
<1>2. Known' = Known
  BY KnownSame DEF SameContent
<1>3. ContentInvariant'
  BY <1>2 DEF DeviceInvariant, ContentInvariant
<1>4. [Contract!Next]_Contract!vars
  <2>1. CASE faults' = faults
    BY <1>2, <2>1, OtherKeepsContract
  <2>2. CASE faults' = faults + 1
    <3>1. Contract!Fail
      BY <1>2, <2>2 DEF Contract!Fail
    <3> QED BY <3>1 DEF Contract!Next
  <2> QED BY <2>1, <2>2
<1> QED BY <1>1, <1>2, <1>3, <1>4 DEF DeviceInvariant

\* Every step keeps the device invariant and is a step of the contract.
LEMMA DevicesKept ==
    ASSUME DeviceInvariant, [CNext]_allVars
    PROVE  DeviceInvariant' /\ [Contract!Next]_Contract!vars /\ Known \subseteq Known'
<1>1. CASE [Next]_vars
  <2>1. DeviceInvariant' /\ [Contract!Next]_Contract!vars
    BY <1>1, NextTypeOK, SweepsStayPrepared, NextKeeps DEF DeviceInvariant
  <2>2. Known \subseteq Known'
    BY <2>1 DEF Contract!Next, Contract!vars, Contract!Operate, Contract!Fail,
                Contract!Store, Contract!Lose
  <2> QED BY <2>1, <2>2
<1>2. CASE ControllerStep \/ DeleteResource \/ GarbageCollect
  BY <1>2, ControllerFrame, ControllerKeepsDevices
<1> QED BY <1>1, <1>2 DEF CNext, allVars

LEMMA DevicesStart == CInit => DeviceInvariant /\ Contract!Init
BY InitTypeOK, SweepsStart, ContentStart DEF CInit, DeviceInvariant

LEMMA ControlledDevices == CSpec => []DeviceInvariant
BY DevicesStart, DevicesKept, PTL DEF CSpec

\* Beside the controller, too, the devices keep the replication contract: its
\* reconciliations and the deletion of an HSMSecret store and remove no copy.
THEOREM ControllerKeepsContract == CSpec => KeepsContract
<1>1. DeviceInvariant /\ [CNext]_allVars => [Contract!Next]_Contract!vars
  BY DevicesKept
<1> QED BY <1>1, DevicesStart, ControlledDevices, PTL DEF CSpec, KeepsContract, Contract!Spec

-----------------------------------------------------------------------------
\* The content a reconciliation works with.

Observation == DeviceObservation(Nat, Contents, Nat, Nat)

\* The steps at which a reconciliation holds content it has read or chosen.
Holding == {"metadata", "update", "status"}

CtlType == [pc : {"idle", "gather", "finalize"} \cup Holding,
            todo : SUBSET Devices, cur : SUBSET Devices,
            held : Contents, obs : SUBSET Observation]

\* A reconciliation carries nothing but content of C.
Carries(C) ==
    /\ \A o \in Voters(ctl.obs) : EffectiveChecksum(o) \in C \cup {TombstoneChecksum}
    /\ ctl.pc \in Holding => ctl.held \in C

\* Reconciliations run while the HSMSecret has its finalizer; the cleanup runs
\* once it is marked for deletion.
ControllerInvariant ==
    /\ ctl \in CtlType /\ IsFiniteSet(ctl.obs)
    /\ cr \in {"new", "live", "deleting", "gone"}
    /\ cr \in {"new", "gone"} => ctl.pc = "idle"
    /\ ctl.pc = "finalize" => cr = "deleting"

\* The winner of a reconciliation is content that some device reported.
LEMMA DecideChooses ==
    ASSUME ControllerInvariant, NEW C, Carries(C), Found(ctl.obs),
           ~Deleted(Resolve(ctl.obs, Cardinality(Devices)))
    PROVE  Resolve(ctl.obs, Cardinality(Devices)).checksum \in C
<1>1. ctl.obs \subseteq Observation /\ IsFiniteSet(ctl.obs)
  BY DEF ControllerInvariant, CtlType
<1>2. Comparable(ctl.obs)
  BY <1>1 DEF Comparable, Observation, DeviceObservation
<1>3. Cardinality(Devices) \in Nat
  BY SyncAssumption, FS_CardinalityType
<1>4. PICK o \in Voters(ctl.obs) :
          EffectiveChecksum(o) = Resolve(ctl.obs, Cardinality(Devices)).checksum
  BY <1>1, <1>2, <1>3, ResolvePicksAHolder
<1> QED BY <1>4 DEF Carries, Deleted

\* What the controller reads of a device.
LEMMA ReaderFields ==
    ASSUME NEW d \in Devices, NEW v \in Contents, NEW m \in Metas
    PROVE  /\ ReaderObservation(d, v, m) \in Observation
           /\ EffectiveChecksum(ReaderObservation(d, v, m)) \in {v, TombstoneChecksum}
           /\ Abstention(d) \in Observation /\ ~HasOpinion(Abstention(d))
<1>1. /\ MetadataDeleted(m) \in BOOLEAN
      /\ MetadataVersion(m) \in Nat /\ MetadataTimestamp(m) \in Nat
  BY DEF Metas, Metadata, MetadataDeleted, MetadataVersion, MetadataTimestamp
<1>2. d \in Nat /\ NoChecksum \in Contents
  BY SyncAssumption DEF Contents
<1> QED BY <1>1, <1>2 DEF ReaderObservation, EffectiveChecksum, Abstention, HasOpinion,
                          Observation, DeviceObservation
\* A step of the controller or of the cluster: the reconciliation carries on with
\* content of the devices, and the Kubernetes Secret gets what it carries.
LEMMA ReconcileCarries ==
    ASSUME DeviceInvariant, ControllerInvariant, NEW C, Carries(C),
           \A d \in Devices : data[d] \in C \cup {NoData},
           ControllerStep \/ DeleteResource \/ GarbageCollect
    PROVE  ControllerInvariant' /\ Carries(C)' /\ secret' \in C \cup {secret, NoData}
<1> DEFINE Good == ControllerInvariant' /\ Carries(C)' /\ secret' \in C \cup {secret, NoData}
<1>0. /\ ctl \in CtlType /\ IsFiniteSet(ctl.obs)
      /\ cr \in {"new", "live", "deleting", "gone"}
      /\ cr \in {"new", "gone"} => ctl.pc = "idle"
      /\ ctl.pc = "finalize" => cr = "deleting"
  BY DEF ControllerInvariant
<1>1. ASSUME ctl' = ctl,
             \/ cr' = cr
             \/ cr = "new" /\ cr' \in {"live", "gone"}
             \/ cr = "live" /\ cr' = "deleting"
      PROVE  ControllerInvariant' /\ Carries(C)'
  BY <1>0, <1>1 DEF ControllerInvariant, Carries
<1>2. /\ IdleCtl \in CtlType /\ IdleCtl.pc = "idle" /\ IdleCtl.obs = {} /\ IsFiniteSet({})
      /\ Voters({}) = {}
  BY FS_EmptySet DEF IdleCtl, CtlType, Contents, Voters
<1>3. ASSUME ctl' = IdleCtl, cr' \in {cr, "gone"} PROVE ControllerInvariant' /\ Carries(C)'
  BY <1>0, <1>2, <1>3 DEF ControllerInvariant, Carries, Holding
<1>4. ASSUME AddFinalizer PROVE Good
  BY <1>1, <1>4 DEF AddFinalizer
<1>5. ASSUME StartReconcile PROVE Good
  <2>1. ctl' \in CtlType /\ ctl'.pc = "gather" /\ ctl'.obs = {} /\ cr' = "live" /\ secret' = secret
    BY <1>2, <1>5 DEF StartReconcile, CtlType, IdleCtl
  <2> QED BY <1>2, <2>1 DEF ControllerInvariant, Carries, Holding
<1>6. ASSUME NEW d \in Devices, GatherData(d) PROVE Good
  <2>0. data[d] \in Contents /\ cr' = cr /\ secret' = secret /\ ctl.pc = "gather"
    BY <1>6 DEF DeviceInvariant, TypeOK, GatherData
  <2>1. CASE up[d] /\ data[d] # NoData
    <3>1. /\ ctl' \in CtlType /\ ctl'.pc = "metadata" /\ ctl'.held = data[d]
          /\ ctl'.obs = ctl.obs
      BY <1>0, <1>6, <2>0, <2>1 DEF GatherData, CtlType, Holding
    <3> QED BY <1>0, <2>0, <2>1, <3>1 DEF ControllerInvariant, Carries
  <2>2. CASE ~(up[d] /\ data[d] # NoData)
    <3>1. /\ ctl' \in CtlType /\ ctl'.pc = "gather"
          /\ ctl'.obs \in {ctl.obs, ctl.obs \cup {Abstention(d)}}
      <4>1. Abstention(d) \in Observation
        BY ReaderFields DEF Contents, Metas
      <4> QED BY <1>0, <1>6, <2>0, <2>2, <4>1 DEF GatherData, CtlType
    <3>2. IsFiniteSet(ctl'.obs) /\ Voters(ctl'.obs) = Voters(ctl.obs)
      <4>1. ~HasOpinion(Abstention(d))
        BY ReaderFields DEF Contents, Metas
      <4> QED BY <1>0, <3>1, <4>1, FS_AddElement DEF Voters
    <3> QED BY <1>0, <2>0, <3>1, <3>2 DEF ControllerInvariant, Carries, Holding
  <2> QED BY <2>1, <2>2
<1>7. ASSUME NEW d \in Devices, GatherMetadata(d) PROVE Good
  <2> DEFINE m == IF up[d] THEN meta[d] ELSE NoMeta
             o == ReaderObservation(d, ctl.held, m)
  <2>1. m \in Metas /\ ctl.held \in Contents /\ ctl.held \in C /\ NoData \in Contents
    BY <1>0, <1>7 DEF DeviceInvariant, TypeOK, Metas, CtlType, Carries, GatherMetadata,
                      Holding, Contents
  <2> HIDE DEF m
  <2>2. o \in Observation /\ EffectiveChecksum(o) \in C \cup {TombstoneChecksum}
    BY <2>1, ReaderFields
  <2> HIDE DEF o
  <2>3. /\ ctl' = [ctl EXCEPT !.pc = "gather", !.todo = @ \ {d}, !.cur = {}, !.held = NoData,
                              !.obs = @ \cup {o}]
        /\ cr' = cr /\ secret' = secret
        /\ ctl.pc = "metadata"
    BY <1>7 DEF GatherMetadata, o, m
  <2>4. ctl' \in CtlType /\ ctl'.pc = "gather" /\ ctl'.obs = ctl.obs \cup {o}
    BY <1>0, <2>1, <2>2, <2>3 DEF CtlType
  <2>5. IsFiniteSet(ctl'.obs) /\ Voters(ctl'.obs) \subseteq Voters(ctl.obs) \cup {o}
    BY <1>0, <2>4, FS_AddElement DEF Voters
  <2> QED BY <1>0, <2>2, <2>3, <2>4, <2>5 DEF ControllerInvariant, Carries, Holding
<1>8. ASSUME Decide PROVE Good
  <2>0. cr' = cr /\ secret' = secret /\ ctl.pc = "gather"
    BY <1>8 DEF Decide
  <2> DEFINE w == Resolve(ctl.obs, Cardinality(Devices))
  <2>1. CASE Found(ctl.obs) /\ ~Deleted(w)
    <3>1. w.checksum \in C
      BY <2>1, DecideChooses
    <3>2. w.checksum \in Contents
      <4>1. Carries(Contents)
        <5>1. ctl.obs \subseteq Observation /\ ctl.held \in Contents
          BY <1>0 DEF CtlType
        <5> QED BY <5>1 DEF Carries, Voters, EffectiveChecksum, Observation, DeviceObservation
      <4> QED BY <2>1, <4>1, DecideChooses
    <3>3. ctl' = [IdleCtl EXCEPT !.pc = "update", !.held = w.checksum]
      BY <1>8, <2>1 DEF Decide
    <3> HIDE DEF w
    <3>4. /\ ctl' \in CtlType /\ ctl'.pc = "update" /\ ctl'.held = w.checksum
          /\ ctl'.obs = {}
      BY <1>2, <3>2, <3>3 DEF CtlType, IdleCtl, Holding
    <3> QED BY <1>0, <1>2, <2>0, <3>1, <3>4 DEF ControllerInvariant, Carries
  <2>2. CASE ~(Found(ctl.obs) /\ ~Deleted(w))
    BY <1>3, <1>8, <2>2 DEF Decide
  <2> QED BY <2>1, <2>2
<1>9. ASSUME UpdateSecret PROVE Good
  <2>1. /\ cr' = cr /\ ctl.pc = "update" /\ ctl.held \in C
        /\ secret' \in {secret, ctl.held}
        /\ ctl' = IdleCtl \/ ctl' = [ctl EXCEPT !.pc = "status"]
    BY <1>9 DEF UpdateSecret, Carries, Holding
  <2>2. CASE ctl' = [ctl EXCEPT !.pc = "status"]
    <3>1. /\ ctl' \in CtlType /\ ctl'.pc = "status" /\ ctl'.held = ctl.held
          /\ ctl'.obs = ctl.obs
      BY <1>0, <2>2 DEF CtlType, Holding
    <3> QED BY <1>0, <2>1, <3>1 DEF ControllerInvariant, Carries
  <2> QED BY <1>3, <2>1, <2>2
<1>10. ASSUME StoreStatus PROVE Good
  BY <1>3, <1>10 DEF StoreStatus
<1>11. ASSUME CleanupSecret PROVE Good
  <2>1. /\ cr = "deleting" /\ cr' = cr /\ secret' \in {secret, NoData}
        /\ ctl' = ctl \/ ctl' = [IdleCtl EXCEPT !.pc = "finalize"]
    BY <1>11 DEF CleanupSecret
  <2>2. CASE ctl' = [IdleCtl EXCEPT !.pc = "finalize"]
    <3>1. ctl' \in CtlType /\ ctl'.pc = "finalize" /\ ctl'.obs = {}
      BY <1>2, <2>2 DEF CtlType, IdleCtl
    <3> QED BY <1>2, <2>1, <3>1 DEF ControllerInvariant, Carries, Holding
  <2> QED BY <1>1, <2>1, <2>2
<1>12. ASSUME RemoveFinalizer PROVE Good
  BY <1>3, <1>12 DEF RemoveFinalizer
<1>13. ASSUME DeleteResource PROVE Good
  BY <1>1, <1>13 DEF DeleteResource
<1>14. ASSUME GarbageCollect PROVE Good
  BY <1>1, <1>14 DEF GarbageCollect
<1> HIDE DEF Good
<1>15. Good
  BY <1>4, <1>5, <1>6, <1>7, <1>8, <1>9, <1>10, <1>11, <1>12, <1>13, <1>14 DEF ControllerStep
<1> QED BY <1>15 DEF Good

\* A reconciliation carries only known content, and so does the Secret.
SecretInvariant == ControllerInvariant /\ Carries(Known) /\ SecretIsSubmitted

LEMMA SecretStart == CInit => SecretInvariant
<1> SUFFICES ASSUME CInit PROVE SecretInvariant
  OBVIOUS
<1>1. ctl \in CtlType /\ ctl.pc = "idle" /\ ctl.obs = {} /\ IsFiniteSet({})
  BY FS_EmptySet DEF CInit, IdleCtl, CtlType, Contents
<1> QED BY <1>1 DEF CInit, SecretInvariant, ControllerInvariant, Carries, Holding, Voters,
                    SecretIsSubmitted

LEMMA SecretKept == DeviceInvariant /\ SecretInvariant /\ [CNext]_allVars => SecretInvariant'
<1> SUFFICES ASSUME DeviceInvariant, SecretInvariant, [CNext]_allVars
             PROVE  SecretInvariant'
  OBVIOUS
<1>0. Known \subseteq Known'
  BY DevicesKept
<1>1. CASE UNCHANGED cvars
  BY <1>0, <1>1 DEF cvars, SecretInvariant, ControllerInvariant, Carries, SecretIsSubmitted
<1>2. CASE ControllerStep \/ DeleteResource \/ GarbageCollect
  <2>1. PICK K : K = Known
    OBVIOUS
  <2>2. /\ ControllerInvariant /\ Carries(K) /\ secret \in K \cup {NoData}
        /\ \A d \in Devices : data[d] \in K \cup {NoData}
    BY <2>1 DEF SecretInvariant, Carries, SecretIsSubmitted, DeviceInvariant,
                ContentInvariant
  <2>3. ControllerInvariant' /\ Carries(K)' /\ secret' \in K \cup {secret, NoData}
    BY <1>2, <2>2, ReconcileCarries
  <2>4. Carries(Known)' /\ secret' \in Known' \cup {NoData}
    BY <1>0, <2>1, <2>2, <2>3 DEF Carries
  <2> QED BY <2>3, <2>4 DEF SecretInvariant, SecretIsSubmitted
<1> QED BY <1>1, <1>2 DEF CNext, allVars

LEMMA ControllerSecrets == CSpec => []SecretInvariant
BY SecretStart, SecretKept, ControlledDevices, PTL DEF CSpec

\* The Kubernetes Secret holds only content API clients submitted (or what is left
\* of it), with any number of devices, requests, sweeps and refused API calls:
\* gatherSecretObservations, Resolve and updateKubernetesSecret make up nothing.
THEOREM SecretSubmitted == CSpec => []SecretIsSubmitted
<1>1. SecretInvariant => SecretIsSubmitted
  BY DEF SecretInvariant
<1> QED BY <1>1, ControllerSecrets, PTL

\* After the deletion of an HSMSecret no reconciliation that is left over, and no
\* retried cleanup, brings its Kubernetes Secret back.
THEOREM DeletionFinal == CSpec => DeletionIsFinal
<1>1. SecretInvariant /\ [CNext]_allVars =>
        [Closing => Closing' /\ secret' \in {secret, NoData}]_allVars
  <2> SUFFICES ASSUME ControllerInvariant, CNext, Closing
               PROVE  Closing' /\ secret' \in {secret, NoData}
    BY DEF SecretInvariant
  <2>0. /\ cr = "gone" => ctl.pc = "idle"
        /\ cr \in {"gone", "deleting"} /\ ctl.pc \in {"idle", "finalize"}
    BY DEF ControllerInvariant, Closing
  <2>1. CASE Next /\ UNCHANGED cvars
    BY <2>1 DEF cvars, Closing
  <2>2. ASSUME NEW d \in Devices, GatherData(d) \/ GatherMetadata(d) PROVE FALSE
    BY <2>0, <2>2 DEF GatherData, GatherMetadata
  <2>3. ~(AddFinalizer \/ StartReconcile \/ Decide \/ UpdateSecret \/ StoreStatus)
    BY <2>0 DEF AddFinalizer, StartReconcile, Decide, UpdateSecret, StoreStatus
  <2>4. ~DeleteResource
    BY <2>0 DEF DeleteResource
  <2>5. CASE CleanupSecret
    BY <2>0, <2>5 DEF CleanupSecret, Closing, IdleCtl
  <2>6. CASE RemoveFinalizer
    BY <2>0, <2>6 DEF RemoveFinalizer, Closing, IdleCtl
  <2>7. CASE GarbageCollect
    BY <2>0, <2>7 DEF GarbageCollect, Closing
  <2> QED BY <2>1, <2>2, <2>3, <2>4, <2>5, <2>6, <2>7 DEF CNext, ControllerStep
<1> QED BY <1>1, ControllerSecrets, PTL DEF CSpec, DeletionIsFinal

\* Devices and Secret that agree stay in agreement: reconciliations, sweeps, lost
\* agents and refused API calls change neither, until a request starts, a device
\* write fails half way or the HSMSecret is deleted.
THEOREM SecretStable == CSpec => SecretIsStable
<1>1. DeviceInvariant /\ SecretInvariant /\ [CNext]_allVars =>
        [\A v \in Values :
            Reflects(v) /\ req' = req /\ (faults' = faults \/ data' = data) /\ cr' = "live"
              => Reflects(v)']_allVars
  <2> SUFFICES ASSUME DeviceInvariant, ControllerInvariant, CNext, NEW v \in Values,
                      Reflects(v), req' = req, faults' = faults \/ data' = data, cr' = "live"
               PROVE  Reflects(v)'
    BY DEF SecretInvariant
  <2>0. Settled(v) /\ secret = v /\ Carries({v})
    BY DEF Reflects, Carries, Holding
  <2>1. ASSUME Settled(v)', secret' = v, Carries({v})' PROVE Reflects(v)'
    BY <2>1 DEF Reflects, Carries, Holding
  <2>2. CASE Next /\ UNCHANGED cvars
    <3>1. Settled(v)'
      BY <2>0, <2>2, NextKeepsSettled DEF DeviceInvariant
    <3> QED BY <2>0, <2>1, <2>2, <3>1 DEF cvars, Carries
  <2>3. CASE ControllerStep \/ DeleteResource \/ GarbageCollect
    <3>1. Settled(v)'
      BY <2>0, <2>3, ControllerFrame DEF deviceVars, Settled, Active, Remembered
    <3>2. Carries({v})' /\ secret' \in {v, NoData}
      <4>1. \A d \in Devices : data[d] \in {v} \cup {NoData}
        BY <2>0 DEF Settled
      <4> QED BY <2>0, <2>3, <4>1, ReconcileCarries
    <3>3. secret' = v
      <4>1. CASE UpdateSecret
        BY <2>0, <4>1 DEF UpdateSecret, Carries, Holding
      <4>2. ~CleanupSecret /\ ~GarbageCollect
        BY DEF CleanupSecret, GarbageCollect
      <4>3. ASSUME ~UpdateSecret PROVE secret' = secret
        BY <2>3, <4>2, <4>3 DEF ControllerStep, DeleteResource, AddFinalizer,
              StartReconcile, Decide, StoreStatus, RemoveFinalizer, GatherData, GatherMetadata
      <4> QED BY <2>0, <4>1, <4>3
    <3> QED BY <2>1, <3>1, <3>2, <3>3
  <2> QED BY <2>2, <2>3 DEF CNext
<1> QED BY <1>1, ControlledDevices, ControllerSecrets, PTL DEF CSpec, SecretIsStable
=============================================================================
