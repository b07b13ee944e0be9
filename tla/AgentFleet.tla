----------------------------- MODULE AgentFleet -----------------------------
(***************************************************************************)
(* The pool of one HSMDevice and the agents deployed for it, on top of the *)
(* discovery pods.  The HSMPool controller copies the pods' reports into   *)
(* the status of the HSMPool; the pool-agent controller reads that status  *)
(* and keeps one Deployment per serial number, pinned to the node that     *)
(* reports the device.  The two controllers, the discovery pods and the    *)
(* bus interleave: a reconcile of the pool-agent controller works from the *)
(* status it fetched at its start, and only the Deployments and the        *)
(* discovery pods are looked up again as it goes.                          *)
(*                                                                         *)
(* The steps of a reconcile are cut where it changes a Deployment.  A gate *)
(* (gateOnDiscovery) is one step with the change it guards: a pod that     *)
(* rolls between the two leads to the state that it leads to when it rolls *)
(* right after them.                                                       *)
(***************************************************************************)
EXTENDS NodeDiscovery

VARIABLES
  pool,     \* HSMPool.Status: phase and aggregated devices, by reporting node
  poolAge,  \* ticks since the HSMPool was created, up to AgeCap
  deploy,   \* deploy[s]: the agent Deployment of serial s, or NoAgent
  rec       \* the reconcile of the pool-agent controller in progress

fleetVars == <<pool, poolAge, deploy, rec>>
allVars == <<discoveryVars, fleetVars>>

Aggregate == [Nodes -> Known]
NoDevices == [n \in Nodes |-> Nothing]
PoolPhases == {"Pending", "Aggregating", "Ready", "Partial", "Error"}

NoAgent == [node |-> "none", path |-> "none", outdated |-> FALSE]
Agents == [node : Nodes, path : Paths, outdated : BOOLEAN] \cup {NoAgent}

NoTarget == [serial |-> "none", node |-> "none"]
NoReconcile == [pc |-> "idle", devices |-> NoDevices, todo |-> {}, target |-> NoTarget,
         deferred |-> FALSE, failed |-> FALSE]

(* Type invariant of the pool and the agents. *)
FleetTypeOK ==
  /\ DiscoveryTypeOK
  /\ pool \in [phase : PoolPhases, devices : Aggregate]
  /\ poolAge \in Ages
  /\ deploy \in [Serials -> Agents]
  /\ rec \in [pc : {"idle", "ensure", "create", "reap", "stale"}, devices : Aggregate,
              todo : SUBSET Serials,
              target : [serial : Serials, node : Nodes] \cup {NoTarget},
              deferred : BOOLEAN, failed : BOOLEAN]

FleetInit ==
  /\ DiscoveryInit
  /\ pool = [phase |-> "Pending", devices |-> NoDevices]
  /\ poolAge = 0
  /\ deploy = [s \in Serials |-> NoAgent]
  /\ rec = NoReconcile
-----------------------------------------------------------------------------
(* The HSMPool controller.                                                 *)

(* collectPodReports: the devices of every annotation that is there. *)
CollectPodReports ==
  [n \in Nodes |-> IF report[n] = NoReport THEN Nothing ELSE report[n]]

(* getPodDiscoveryStatus, isPodFresh, parseDeviceReportAnnotation: a       *)
(* running pod is fresh, and it is "completed" because it runs; the        *)
(* annotation can only say "completed" too.                                *)
CompletedReports == {n \in Nodes : IsRunningPod(n)}

(* aggregateDevices, with as many expected pods as there are nodes.  A pod *)
(* that does not run may not exist yet, and with no pod at all the phase   *)
(* is Pending.                                                             *)
AggregateDevices ==
  IF Cardinality(CompletedReports) >= Cardinality(Nodes) THEN {"Ready"}
  ELSE IF CompletedReports = {} THEN {"Pending", "Partial"}
  ELSE {"Partial"}

(* updatePoolStatus: the stored status, when the update does not fail. *)
UpdatePoolStatus(phase, devices) == pool' = [phase |-> phase, devices |-> devices]

(* Reconcile of the HSMPool: collect, aggregate and store the status.  A   *)
(* failing Get or List stores phase Error and no devices; a failing status *)
(* update changes nothing (no step).                                       *)
ReconcilePool ==
  /\ \/ \E phase \in AggregateDevices :
          /\ UpdatePoolStatus(phase, CollectPodReports)
          /\ UNCHANGED mishaps
     \/ /\ UpdatePoolStatus("Error", NoDevices)
        /\ Failing(<<FALSE>>)
  /\ UNCHANGED <<bus, events, pod, cache, report, plugin, typed>>
  /\ UNCHANGED <<poolAge, deploy, rec>>
-----------------------------------------------------------------------------
(* The pool-agent controller.                                              *)

Discovered(devices) == {s \in Serials : \E n \in Nodes : devices[n][s] # NoEntry}

(* Reconcile: agents are deployed for a Ready pool with devices only; the  *)
(* cleanup of stale agents follows in any case.                            *)
BeginReconcile ==
  /\ rec.pc = "idle"
  /\ rec' = [NoReconcile EXCEPT
       !.pc = IF pool.phase = "Ready" /\ Discovered(pool.devices) # {}
                THEN "ensure" ELSE "stale",
       !.devices = pool.devices,
       !.todo = IF pool.phase = "Ready" THEN Discovered(pool.devices) ELSE {}]
  /\ UNCHANGED <<discoveryVars, pool, poolAge, deploy>>

(* discoveryCurrentOnNode: the pod of the node runs and is of the current  *)
(* template.  Discovery pods have no readiness probe, so a running pod is  *)
(* ready.                                                                  *)
DiscoveryCurrentOnNode(n) == IsRunningPod(n) /\ pod[n].current

Done(s) == [rec EXCEPT !.todo = @ \ {s}]
Deferred(s) == [Done(s) EXCEPT !.deferred = TRUE]
Failed(s) == [Done(s) EXCEPT !.failed = TRUE]

(* agentNeedsUpdate: image, TLS or security context differ from what the   *)
(* operator would deploy now.  deploymentNeedsUpdateForDevice compares the *)
(* path with a volume that createAgentDeployment never adds, so the path   *)
(* decides nothing.                                                        *)
AgentNeedsUpdate(s) == deploy[s].outdated

(* Mutant of EnsureAgentOnNode: an agent that exists and is up to date is  *)
(* taken for granted, whatever node it is on.                              *)
EnsureAgentAnywhere(s, n) ==
  /\ rec' = IF deploy[s] # NoAgent /\ ~AgentNeedsUpdate(s) THEN Done(s)
            ELSE [rec EXCEPT !.pc = "create", !.target = [serial |-> s, node |-> n]]
  /\ UNCHANGED <<deploy, mishaps>>

(* ensureAgentOnNode up to and including the Delete: an agent on the wrong *)
(* node or out of date is deleted once discovery is current on the target  *)
(* node; one that is missing goes straight to the create.                  *)
EnsureAgentOnNode(s, n) ==
  \/ /\ deploy[s].node = n /\ ~AgentNeedsUpdate(s)
     /\ rec' = Done(s)
     /\ UNCHANGED <<deploy, mishaps>>
  \/ /\ deploy[s] # NoAgent
     /\ deploy[s].node # n \/ AgentNeedsUpdate(s)
     /\ IF DiscoveryCurrentOnNode(n)
          THEN \/ /\ deploy' = [deploy EXCEPT ![s] = NoAgent]
                  /\ rec' = [rec EXCEPT !.pc = "create", !.target = [serial |-> s, node |-> n]]
                  /\ UNCHANGED mishaps
               \/ /\ rec' = Failed(s)
                  /\ Failing(<<FALSE>>)
                  /\ UNCHANGED deploy
          ELSE /\ rec' = Deferred(s)
               /\ UNCHANGED <<deploy, mishaps>>
  \/ /\ deploy[s] = NoAgent
     /\ rec' = [rec EXCEPT !.pc = "create", !.target = [serial |-> s, node |-> n]]
     /\ UNCHANGED <<deploy, mishaps>>

(* deleteAgent for a device lost for longer than the grace period. *)
DeleteAgent(s) ==
  \/ /\ deploy' = [deploy EXCEPT ![s] = NoAgent]
     /\ rec' = Done(s)
     /\ UNCHANGED mishaps
  \/ /\ deploy[s] # NoAgent
     /\ rec' = Failed(s)
     /\ Failing(<<FALSE>>)
     /\ UNCHANGED deploy

SkipSerial(s) == rec' = Done(s) /\ UNCHANGED <<deploy, mishaps>>

(* ensureAgentDeployments, one serial: the last available entry and the    *)
(* last lost entry of the list decide; pods are listed in any order.  A    *)
(* device that is available on one node and has been lost on another for   *)
(* the grace period or longer is left alone.                               *)
EnsureAgentDeployment(s) ==
  /\ rec.pc = "ensure"
  /\ s \in rec.todo
  /\ LET active == {n \in Nodes : rec.devices[n][s].available}
         lost == {n \in Nodes : IsLost(rec.devices[n][s])}
     IN  \/ \E a \in active, l \in lost :
              IF rec.devices[l][s].age < Grace
                THEN EnsureAgentOnNode(s, a) ELSE SkipSerial(s)
         \/ /\ lost = {}
            /\ \E a \in active : EnsureAgentOnNode(s, a)
         \/ /\ active = {}
            /\ \E l \in lost :
                 IF rec.devices[l][s].age > Grace THEN DeleteAgent(s) ELSE SkipSerial(s)
  /\ UNCHANGED <<bus, events, pod, cache, report, plugin, typed>>
  /\ UNCHANGED <<pool, poolAge>>

(* The rest of ensureAgentOnNode: the gate again, then                     *)
(* createAgentDeployment for the device entry of the fetched status.       *)
CreateAgentDeployment ==
  /\ rec.pc = "create"
  /\ LET s == rec.target.serial
         n == rec.target.node
         Back(r) == [r EXCEPT !.pc = "ensure", !.target = NoTarget]
     IN  \/ /\ DiscoveryCurrentOnNode(n)
            /\ deploy' = [deploy EXCEPT ![s] =
                 [node |-> n, path |-> rec.devices[n][s].path, outdated |-> FALSE]]
            /\ rec' = Back(Done(s))
            /\ UNCHANGED mishaps
         \/ /\ DiscoveryCurrentOnNode(n)
            /\ rec' = Back(Failed(s))
            /\ Failing(<<FALSE>>)
            /\ UNCHANGED deploy
         \/ /\ ~DiscoveryCurrentOnNode(n)
            /\ rec' = Back(Deferred(s))
            /\ UNCHANGED <<deploy, mishaps>>
  /\ UNCHANGED <<bus, events, pod, cache, report, plugin, typed>>
  /\ UNCHANGED <<pool, poolAge>>

(* The end of ensureAgentDeployments: an error or a deferral ends the      *)
(* reconcile, cleanup included.                                            *)
FinishEnsure ==
  /\ rec.pc = "ensure"
  /\ rec.todo = {}
  /\ rec' = IF rec.failed \/ rec.deferred THEN NoReconcile ELSE [rec EXCEPT !.pc = "reap"]
  /\ UNCHANGED <<discoveryVars, pool, poolAge, deploy>>

(* reapOrphanedAgents: deletes the agents of serials the fetched status    *)
(* does not list.  A delete that fails is logged and the reconcile goes    *)
(* on.  EnsureAgent, which follows, only tracks agents in memory.          *)
ReapOrphanedAgents ==
  /\ rec.pc = "reap"
  /\ LET orphans == {s \in Serials : deploy[s] # NoAgent} \ Discovered(rec.devices)
     IN  \E kept \in SUBSET orphans :
           /\ Failing([s \in kept |-> FALSE])
           /\ deploy' = [s \in Serials |->
                           IF s \in orphans \ kept THEN NoAgent ELSE deploy[s]]
  /\ rec' = [rec EXCEPT !.pc = "stale"]
  /\ UNCHANGED <<bus, events, pod, cache, report, plugin, typed>>
  /\ UNCHANGED <<pool, poolAge>>

(* Mutant of StaleAgents: a pool that lists no device at all is taken for  *)
(* one whose devices are about to appear.                                  *)
StaleOnceListed(devices) ==
  LET entries == {e \in Nodes \X Serials : devices[e[1]][e[2]] # NoEntry}
  IN  entries # {} /\ \A e \in entries :
        IsLost(devices[e[1]][e[2]]) /\ devices[e[1]][e[2]].age > 2 * Grace

(* cleanupStaleAgents: with no device available and the last one seen more *)
(* than two grace periods ago, or none ever listed by a pool that old, all *)
(* agents go.                                                              *)
StaleAgents(devices) ==
  LET entries == {e \in Nodes \X Serials : devices[e[1]][e[2]] # NoEntry}
  IN  /\ \A e \in entries : IsLost(devices[e[1]][e[2]])
      /\ IF entries = {} THEN poolAge > 2 * Grace
         ELSE \A e \in entries : devices[e[1]][e[2]].age > 2 * Grace

CleanupStaleAgents ==
  /\ rec.pc = "stale"
  /\ IF StaleAgents(rec.devices)
       THEN \E kept \in SUBSET {s \in Serials : deploy[s] # NoAgent} :
              /\ Failing([s \in kept |-> FALSE])
              /\ deploy' = [s \in Serials |-> IF s \in kept THEN deploy[s] ELSE NoAgent]
       ELSE UNCHANGED <<deploy, mishaps>>
  /\ rec' = NoReconcile
  /\ UNCHANGED <<bus, events, pod, cache, report, plugin, typed>>
  /\ UNCHANGED <<pool, poolAge>>

(* The operator is upgraded or its agent settings change: every agent is   *)
(* out of date, and a reconcile in progress ends with the old process.     *)
UpgradeOperator ==
  /\ Mishap
  /\ deploy' = [s \in Serials |->
                  IF deploy[s] = NoAgent THEN NoAgent ELSE [deploy[s] EXCEPT !.outdated = TRUE]]
  /\ rec' = NoReconcile
  /\ UNCHANGED <<bus, events, pod, cache, report, plugin, typed>>
  /\ UNCHANGED <<pool, poolAge>>

(* A tick of the clock, for everything that carries a time. *)
Tick ==
  /\ DiscoveryTick
  /\ pool' = [pool EXCEPT !.devices = [n \in Nodes |-> Older(@[n])]]
  /\ poolAge' = IF poolAge < AgeCap THEN poolAge + 1 ELSE poolAge
  /\ rec' = [rec EXCEPT !.devices = [n \in Nodes |-> Older(@[n])]]
  /\ UNCHANGED deploy
-----------------------------------------------------------------------------
ReconcileStep ==
  \/ BeginReconcile
  \/ \E s \in Serials : EnsureAgentDeployment(s)
  \/ CreateAgentDeployment
  \/ FinishEnsure
  \/ ReapOrphanedAgents
  \/ CleanupStaleAgents

FleetNext ==
  \/ DiscoveryStep /\ UNCHANGED fleetVars
  \/ ReconcilePool
  \/ ReconcileStep
  \/ UpgradeOperator
  \/ Tick

(* Time passes.  A discovery process drains its event channel and rescans  *)
(* at its interval (the loop of Run); kubelet starts pods and the          *)
(* DaemonSet controller replaces the outdated ones.  The pool is requeued  *)
(* after every reconcile, each status it stores starts a reconcile of the  *)
(* pool-agent controller, and a reconcile goes on until it returns.        *)
Fairness ==
  /\ WF_allVars(Tick)
  /\ \A n \in Nodes :
       /\ WF_allVars(StartPod(n) /\ UNCHANGED fleetVars)
       /\ WF_allVars(RollPod(n) /\ UNCHANGED fleetVars)
       /\ WF_allVars(PerformDiscovery(n) /\ UNCHANGED fleetVars)
       /\ WF_allVars(HandleUSBEvent(n) /\ UNCHANGED fleetVars)
       /\ WF_allVars(ReconcileDevices(n) /\ UNCHANGED fleetVars)
  /\ WF_allVars(ReconcilePool)
  /\ WF_allVars(ReconcileStep)

(* The state an installation comes to rest in: the pods report their       *)
(* buses, the pool has aggregated the reports and the agents are deployed. *)
(* Behaviours start here as well as in FleetInit, so that the mishaps can  *)
(* be spent on an installation that works.                                 *)
Settled ==
  LET known(n) == [s \in Serials |->
                     IF bus[s].node = n THEN Present(bus[s].path) ELSE NoEntry]
  IN  /\ bus \in [Serials -> Places]
      /\ \A s, t \in Serials : bus[s] = bus[t] /\ bus[s] # Unplugged => s = t
      /\ events = [n \in Nodes |-> <<>>]
      /\ pod = [n \in Nodes |-> [phase |-> "running", current |-> TRUE]]
      /\ cache = [n \in Nodes |-> known(n)]
      /\ report = cache
      /\ plugin = [n \in Nodes |-> UpdateDevicePlugin(cache[n])]
      /\ typed = [n \in Nodes |-> TRUE]
      /\ mishaps \in 0..MaxMishaps
      /\ pool = [phase |-> "Ready", devices |-> cache]
      /\ poolAge = AgeCap
      /\ deploy = [s \in Serials |->
                     IF bus[s] = Unplugged THEN NoAgent
                     ELSE [node |-> bus[s].node, path |-> bus[s].path, outdated |-> FALSE]]
      /\ rec = NoReconcile

FleetStart == FleetInit \/ Settled

FleetSpec == FleetStart /\ [][FleetNext]_allVars

FleetFairSpec == FleetSpec /\ Fairness
-----------------------------------------------------------------------------
(* Properties.                                                             *)

DiscoveryUp == \A n \in Nodes : DiscoveryCurrentOnNode(n)
ReportedOn(s) == {n \in Nodes : report[n] # NoReport /\ report[n][s] # NoEntry}

(* What createAgentDeployment relies on, although other steps come between *)
(* the deletion and the creation: there is no Deployment of that name, and *)
(* the status fetched at the start has the device as available on the      *)
(* target node.                                                            *)
CreationIsFresh ==
  rec.pc = "create" =>
    /\ rec.target.serial \in rec.todo
    /\ deploy[rec.target.serial] = NoAgent
    /\ rec.devices[rec.target.node][rec.target.serial].available

(* Whatever takes an agent away (ensureAgentOnNode, deleteAgent,           *)
(* reapOrphanedAgents, cleanupStaleAgents): if the status of the reconcile *)
(* lists the device as available somewhere, then the agent is on another   *)
(* node or out of date, and its creation on a node with the device and a   *)
(* current discovery pod comes next.                                       *)
AvailableDevicesKeepAgents ==
  [][\A s \in Serials :
       /\ deploy[s] # NoAgent /\ deploy'[s] = NoAgent
       /\ \E n \in Nodes : rec.devices[n][s].available
       => /\ rec'.pc = "create" /\ rec'.target.serial = s
          /\ rec.devices[rec'.target.node][s].available
          /\ DiscoveryCurrentOnNode(rec'.target.node)
          /\ deploy[s].node # rec'.target.node \/ deploy[s].outdated]_allVars

(* An agent follows its device: once a single node keeps reporting a       *)
(* device, as available, and discovery is up on every node, the agent of   *)
(* the device is deployed on that node and stays there, whatever           *)
(* migrations, rollouts, upgrades and failing calls came before, and       *)
(* whatever the other devices do (ensureAgentDeployments).                 *)
AgentsFollowReports ==
  \A s \in Serials, n \in Nodes :
    <>[](DiscoveryUp /\ ReportedOn(s) = {n} /\ report[n][s].available)
      => <>[](deploy[s].node = n)

(* No agent is stranded: once no node reports a device any more and        *)
(* discovery is up, the agent of the device goes and does not come back,   *)
(* whether the other devices keep the pool populated (reapOrphanedAgents)  *)
(* or it was the last (cleanupStaleAgents).                                *)
OrphansGoAway ==
  \A s \in Serials :
    <>[](DiscoveryUp /\ ReportedOn(s) = {}) => <>[](deploy[s] = NoAgent)

(* Does not hold, although Reconcile says of reapOrphanedAgents that it    *)
(* runs only when "the aggregation is authoritative": the agent of a       *)
(* device that is plugged in at the agent's node is not reaped.  A pod     *)
(* that runs counts as one that has reported.                              *)
ReapedDevicesAreGone ==
  [][\A s \in Serials :
       rec.pc = "reap" /\ deploy[s] # NoAgent /\ deploy'[s] = NoAgent
         => bus[s].node # deploy[s].node]_allVars
=============================================================================
