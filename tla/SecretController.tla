-------------------------- MODULE SecretController --------------------------
(***************************************************************************)
(* The HSMSecret controller (internal/controller/hsmsecret_controller.go)  *)
(* beside the live devices of SecretSync: it reads the path from every     *)
(* device, one RPC per step, resolves a winner and writes the winner's     *)
(* content to a Kubernetes Secret.  controller-runtime runs at most one    *)
(* reconciliation of an object at a time.                                  *)
(***************************************************************************)
EXTENDS SecretSync

VARIABLES
    cr,          \* the HSMSecret: "new", "live" (has the finalizer), "deleting", "gone"
    ctl,         \* the reconciliation under way
    secret,      \* content of the Kubernetes Secret, NoData if there is none
    status       \* the stored status.syncStatus

cvars == <<cr, ctl, secret, status>>

allVars == <<vars, cvars>>

deviceVars == <<data, meta, up, req, sweep, now>>

IdleCtl == [pc |-> "idle", todo |-> {}, cur |-> {}, held |-> NoData, obs |-> {}]

CInit ==
    /\ Init
    /\ cr = "new"
    /\ ctl = IdleCtl
    /\ secret = NoData
    /\ status = "none"

\* The Kubernetes API may refuse a call (conflict, timeout); MaxFaults bounds it.
ApiCall(err) ==
    IF err THEN faults < MaxFaults /\ faults' = faults + 1 ELSE UNCHANGED faults

AddFinalizer ==
    /\ cr = "new" /\ ctl.pc = "idle"
    /\ \E err \in BOOLEAN :
          /\ ApiCall(err)
          /\ cr' = IF err THEN cr ELSE "live"
    /\ UNCHANGED <<deviceVars, ctl, secret, status>>

\* GetAvailableDevices lists every device of a ready pool.
StartReconcile ==
    /\ cr = "live" /\ ctl.pc = "idle"
    /\ ctl' = [IdleCtl EXCEPT !.pc = "gather", !.todo = Devices]
    /\ UNCHANGED <<deviceVars, faults, cr, secret, status>>

\* gatherSecretObservations: list and read the secret on device d.
GatherData(d) ==
    /\ ctl.pc = "gather" /\ d \in ctl.todo
    /\ ctl' = IF up[d] /\ data[d] # NoData
              THEN [ctl EXCEPT !.pc = "metadata", !.cur = {d}, !.held = data[d]]
              ELSE [ctl EXCEPT !.todo = @ \ {d},
                               !.obs = IF up[d] THEN @ \cup {Abstention(d)} ELSE @]
    /\ UNCHANGED <<deviceVars, faults, cr, secret, status>>

GatherMetadata(d) ==
    /\ ctl.pc = "metadata" /\ d \in ctl.cur
    /\ ctl' = [ctl EXCEPT !.pc = "gather", !.todo = @ \ {d}, !.cur = {}, !.held = NoData,
                 !.obs = @ \cup {ReaderObservation(d, ctl.held,
                                    IF up[d] THEN meta[d] ELSE NoMeta)}]
    /\ UNCHANGED <<deviceVars, faults, cr, secret, status>>

\* Mutant of Decide: a secret that is not found is not requeued.
DecideOnce ==
    /\ ctl.pc = "gather" /\ ctl.todo = {}
    /\ IF Found(ctl.obs) /\ ~Deleted(Resolve(ctl.obs, Cardinality(Devices)))
       THEN ctl' = [IdleCtl EXCEPT !.pc = "update",
                      !.held = Resolve(ctl.obs, Cardinality(Devices)).checksum]
       ELSE ctl' = [IdleCtl EXCEPT !.pc = "parked"]
    /\ UNCHANGED <<deviceVars, faults, cr, secret, status>>

\* Not found or deleted: requeue and leave the Kubernetes Secret alone.
Decide ==
    /\ ctl.pc = "gather" /\ ctl.todo = {}
    /\ IF Found(ctl.obs) /\ ~Deleted(Resolve(ctl.obs, Cardinality(Devices)))
       THEN ctl' = [IdleCtl EXCEPT !.pc = "update",
                      !.held = Resolve(ctl.obs, Cardinality(Devices)).checksum]
       ELSE ctl' = IdleCtl
    /\ UNCHANGED <<deviceVars, faults, cr, secret, status>>

\* updateKubernetesSecret creates or replaces the Secret.  On an error Reconcile
\* sets the Error status on its own copy of the object and returns.
UpdateSecret ==
    /\ ctl.pc = "update"
    /\ \E err \in BOOLEAN :
          /\ ApiCall(err)
          /\ secret' = IF err THEN secret ELSE ctl.held
          /\ ctl' = IF err THEN IdleCtl ELSE [ctl EXCEPT !.pc = "status"]
    /\ UNCHANGED <<deviceVars, cr, status>>

\* ... and then stores the status.  The checksums it compares are those of the
\* content read from the device and of the Secret as it was just written.
StoreStatus ==
    /\ ctl.pc = "status"
    /\ \E err \in BOOLEAN :
          /\ ApiCall(err)
          /\ status' = IF err THEN status ELSE "InSync"
    /\ ctl' = IdleCtl
    /\ UNCHANGED <<deviceVars, cr, secret>>

\* A user deletes the HSMSecret; with a finalizer it stays until the cleanup.
DeleteResource ==
    /\ cr \in {"new", "live"}
    /\ cr' = IF cr = "new" THEN "gone" ELSE "deleting"
    /\ UNCHANGED <<deviceVars, faults, ctl, secret, status>>

\* reconcileDelete: any error of the Get skips the deletion, an error of the
\* Delete ends the reconciliation.
CleanupSecret ==
    /\ cr = "deleting" /\ ctl.pc = "idle"
    /\ \/ /\ ApiCall(FALSE)
          /\ secret' = NoData
          /\ ctl' = [IdleCtl EXCEPT !.pc = "finalize"]
       \/ /\ ApiCall(TRUE)
          /\ UNCHANGED secret
          /\ ctl' = [IdleCtl EXCEPT !.pc = "finalize"]
       \/ /\ secret # NoData /\ ApiCall(TRUE)
          /\ UNCHANGED <<secret, ctl>>
    /\ UNCHANGED <<deviceVars, cr, status>>

RemoveFinalizer ==
    /\ ctl.pc = "finalize"
    /\ \E err \in BOOLEAN :
          /\ ApiCall(err)
          /\ cr' = IF err THEN cr ELSE "gone"
    /\ ctl' = IdleCtl
    /\ UNCHANGED <<deviceVars, secret, status>>

\* Mutant of GarbageCollect: the Secret carries no owner reference.
NoOwnerReference == FALSE

\* The garbage collector removes the Secret of an owner that is gone.
GarbageCollect ==
    /\ cr = "gone" /\ secret # NoData
    /\ secret' = NoData
    /\ UNCHANGED <<deviceVars, faults, cr, ctl, status>>

ControllerStep ==
    \/ AddFinalizer \/ StartReconcile \/ Decide \/ UpdateSecret \/ StoreStatus
    \/ CleanupSecret \/ RemoveFinalizer
    \/ \E d \in Devices : GatherData(d) \/ GatherMetadata(d)

CNext ==
    \/ Next /\ UNCHANGED cvars
    \/ ControllerStep \/ DeleteResource \/ GarbageCollect

CSpec == CInit /\ [][CNext]_allVars

\* AutoSync requeues a live HSMSecret and errors are retried, so reconciliations
\* keep coming; the cluster's garbage collector runs.
CFairSpec ==
    /\ CSpec
    /\ \A r \in Requests : WF_allVars(RequestStep(r) /\ UNCHANGED cvars)
    /\ \A s \in Sweeps : WF_allVars(SweepStep(s) /\ UNCHANGED cvars)
    /\ \A d \in Devices : WF_allVars(AgentUp(d) /\ UNCHANGED cvars)
    /\ WF_allVars(ControllerStep)
    /\ WF_allVars(GarbageCollect)

-----------------------------------------------------------------------------
\* The Kubernetes Secret holds only what API clients submitted, or what is left of
\* it when keys are removed: no torn read, tombstone or resolution of diverged
\* copies puts anything else there.
SecretIsSubmitted == secret \in Known \cup {NoData}

\* The reconciliation that was under way when the HSMSecret was deleted has ended.
Closing == cr = "gone" \/ (cr = "deleting" /\ ctl.pc \in {"idle", "finalize"})

\* Deletion is final: from then on nothing writes the Kubernetes Secret again.
DeletionIsFinal == [][Closing => Closing' /\ secret' \in {secret, NoData}]_allVars

\* The devices have settled on v, the Kubernetes Secret holds it, and the
\* reconciliation, if there is one, carries no other content.
Reflects(v) ==
    /\ Settled(v) /\ secret = v
    /\ \A o \in Voters(ctl.obs) : EffectiveChecksum(o) \in {v, TombstoneChecksum}
    /\ ctl.pc \in {"metadata", "update", "status"} => ctl.held = v

\* The agreement of devices and Secret is a fixed point: reconciliations, sweeps,
\* outages and refused API calls leave both in place until a request starts, a
\* failed device write damages a copy or the HSMSecret is deleted.
SecretIsStable ==
    [][ \A v \in Values :
          Reflects(v) /\ req' = req /\ (faults' = faults \/ data' = data) /\ cr' = "live"
             => Reflects(v)' ]_allVars

\* When the devices have settled on a content, the Kubernetes Secret of a live
\* HSMSecret ends up with it and keeps it, whatever torn or stale reads and
\* refused API calls came before.
SecretFollowsDevices ==
    \A v \in Values :
        <>[](cr = "live" /\ \A d \in Devices : data[d] = v) => <>[](secret = v)

\* Deleting the HSMSecret removes its Kubernetes Secret for good, although a
\* reconciliation may be half way and API calls may be refused.
DeletionRemovesSecret == [](cr = "deleting" => <>[](secret = NoData))
=============================================================================
