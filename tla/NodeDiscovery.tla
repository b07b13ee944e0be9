---------------------------- MODULE NodeDiscovery ----------------------------
(***************************************************************************)
(* The discovery pods of one HSMDevice: one pod per node, kept by a        *)
(* DaemonSet.  Each pod scans its USB bus once when it starts, then        *)
(* follows hotplug events and rescans the bus periodically; it keeps what  *)
(* it knows in a cache that only that process has, publishes the cache in  *)
(* an annotation of its pod and hands the devices that are there to the    *)
(* device plugin.  Nothing but the annotation outlives the process, and    *)
(* the annotation goes when the pod is replaced.                           *)
(*                                                                         *)
(* Time is the age of what has been lost: an entry marked lost starts at   *)
(* age 0, a tick makes every lost entry one older, and ages stop growing   *)
(* at AgeCap, beyond which no comparison of the code tells them apart.     *)
(* LastSeen of a device that is there is compared with nothing and is left *)
(* out.                                                                    *)
(*                                                                         *)
(* Mishaps: a device is plugged in or pulled out, a pod crashes, a monitor *)
(* ends, a template changes, or an API call or a scan fails.               *)
(***************************************************************************)
EXTENDS Mishaps, Sequences, FiniteSets

CONSTANTS
  Nodes,        \* the nodes the DaemonSet runs on
  Serials,      \* the devices, by serial number (never empty here)
  Paths,        \* device nodes a bus can assign, the same names on every node
  MaxDevices,   \* spec.maxDevices, 0 for no limit
  EventBuffer,  \* capacity of the USB event channel (100 in the code)
  Grace         \* the grace period, in ticks (5 minutes in the code)

ASSUME DiscoveryAssumption ==
  /\ IsFiniteSet(Serials)
  /\ "none" \notin Nodes \cup Paths
  /\ MaxDevices \in Nat
  /\ EventBuffer \in Nat \ {0}
  /\ Grace \in Nat \ {0}
  /\ MaxMishaps \in Nat

VARIABLES
  bus,       \* bus[s]: where device s is plugged in, or Unplugged
  events,    \* events[n]: the USB event channel of the pod on node n
  pod,       \* pod[n]: how far the pod on node n is, and whether its template is current
  cache,     \* cache[n][s]: deviceCache of that process
  report,    \* report[n]: the annotation of the pod, NoReport before the first
  plugin,    \* plugin[n]: the devices its device plugin offers
  typed      \* typed[n]: deviceTypes of that process knows the HSMDevice

discoveryVars ==
  <<bus, events, pod, cache, report, plugin, typed, mishaps>>

AgeCap == 2 * Grace + 1
Ages == 0..AgeCap

Unplugged == [node |-> "none", path |-> "none"]
Places == [node : Nodes, path : Paths] \cup {Unplugged}

NoEntry == [path |-> "none", available |-> FALSE, age |-> 0]
Entries == [path : Paths, available : BOOLEAN, age : Ages] \cup {NoEntry}
Known == [Serials -> Entries]
Nothing == [s \in Serials |-> NoEntry]
NoReport == <<>>

Present(path) == [path |-> path, available |-> TRUE, age |-> 0]
Lost(entry) == [entry EXCEPT !.available = FALSE, !.age = 0]
IsLost(entry) == entry # NoEntry /\ ~entry.available

Events == [action : {"add", "remove"}, serial : Serials, path : Paths]

(* "pending": not running yet; "booting": running, the initial discovery   *)
(* still to come; "running": in the main loop; "deaf": in the main loop,   *)
(* after the monitor ended and closed the event channel.                   *)
Phases == {"pending", "booting", "running", "deaf"}
IsRunningPod(n) == pod[n].phase # "pending"
InLoop(n) == pod[n].phase \in {"running", "deaf"}

(* Type invariant of the discovery pods. *)
DiscoveryTypeOK ==
  /\ bus \in [Serials -> Places]
  /\ events \in [Nodes -> Seq(Events)]
  /\ \A n \in Nodes : Len(events[n]) <= EventBuffer
  /\ pod \in [Nodes -> [phase : Phases, current : BOOLEAN]]
  /\ cache \in [Nodes -> Known]
  /\ report \in [Nodes -> Known \cup {NoReport}]
  /\ plugin \in [Nodes -> SUBSET (Serials \X Paths)]
  /\ typed \in [Nodes -> BOOLEAN]
  /\ mishaps \in 0..MaxMishaps

DiscoveryInit ==
  /\ bus \in [Serials -> Places]
  /\ \A s, t \in Serials : bus[s] = bus[t] /\ bus[s] # Unplugged => s = t
  /\ events = [n \in Nodes |-> <<>>]
  /\ pod = [n \in Nodes |-> [phase |-> "pending", current |-> TRUE]]
  /\ cache = [n \in Nodes |-> Nothing]
  /\ report = [n \in Nodes |-> NoReport]
  /\ plugin = [n \in Nodes |-> {}]
  /\ typed = [n \in Nodes |-> FALSE]
  /\ mishaps \in 0..MaxMishaps
-----------------------------------------------------------------------------
(* The bus and its events.                                                 *)

(* What a process that ends takes with it. *)
ForgetProcess(n) ==
  /\ cache' = [cache EXCEPT ![n] = Nothing]
  /\ events' = [events EXCEPT ![n] = <<>>]
  /\ plugin' = [plugin EXCEPT ![n] = {}]
  /\ typed' = [typed EXCEPT ![n] = FALSE]

(* The container exits and kubelet restarts it: same pod, same annotation. *)
RestartContainer(n) ==
  /\ pod' = [pod EXCEPT ![n].phase = "booting"]
  /\ ForgetProcess(n)

(* handleDeviceEvent: an event that finds the channel full is dropped, and *)
(* one for a channel that was closed ends the process, which panics.       *)
(* Events of a bus nobody monitors, or that udev misses, never arrive.     *)
HandleDeviceEvent(n, event) ==
  \/ /\ events' = IF pod[n].phase = "running" /\ Len(events[n]) < EventBuffer
                     THEN [events EXCEPT ![n] = Append(@, event)] ELSE events
     /\ pod[n].phase # "deaf"
     /\ UNCHANGED <<pod, cache, plugin, typed>>
  \/ pod[n].phase = "deaf" /\ RestartContainer(n)
  \/ UNCHANGED <<events, pod, cache, plugin, typed>>

(* monitorLoop ends (a udev channel failed) and closes the event channel.  *)
(* restartEventMonitoring starts another monitor, again and again, on the  *)
(* channel that stays closed; scans go on.                                 *)
MonitorEnds(n) ==
  /\ Mishap
  /\ pod[n].phase = "running"
  /\ pod' = [pod EXCEPT ![n].phase = "deaf"]
  /\ UNCHANGED <<bus, events, cache, report, plugin, typed>>

PullOut(s) ==
  /\ Mishap
  /\ bus[s] # Unplugged
  /\ bus' = [bus EXCEPT ![s] = Unplugged]
  /\ HandleDeviceEvent(bus[s].node,
                       [action |-> "remove", serial |-> s, path |-> bus[s].path])
  /\ UNCHANGED report

PlugIn(s) ==
  /\ Mishap
  /\ bus[s] = Unplugged
  /\ \E place \in [node : Nodes, path : Paths] :
       /\ \A t \in Serials : bus[t] # place
       /\ bus' = [bus EXCEPT ![s] = place]
       /\ HandleDeviceEvent(place.node,
                            [action |-> "add", serial |-> s, path |-> place.path])
  /\ UNCHANGED report

Attached(n) == {s \in Serials : bus[s].node = n}

(* discoverDevicesForSpec: what one scan of the bus of node n may return;  *)
(* beyond maxDevices the enumeration order decides who is left out.        *)
DiscoverDevicesForSpec(n) ==
  IF MaxDevices > 0 /\ Cardinality(Attached(n)) > MaxDevices
    THEN {seen \in SUBSET Attached(n) : Cardinality(seen) = MaxDevices}
    ELSE {Attached(n)}
-----------------------------------------------------------------------------
(* What the process does with the device list it has arrived at.           *)

(* updateDevicePluginByType: offers the available devices. *)
UpdateDevicePlugin(known) ==
  {<<s, known[s].path>> : s \in {t \in Serials : known[t].available}}

(* An API call or a scan fails (ok = FALSE) while the bound lasts. *)
Failing(calls) ==
  LET failed == Cardinality({i \in DOMAIN calls : ~calls[i]})
  IN  /\ mishaps + failed <= MaxMishaps
      /\ mishaps' = mishaps + failed

(* updatePodAnnotation: a failed patch leaves the annotation as it was. *)
UpdatePodAnnotation(n, known, ok) == IF ok THEN known ELSE report[n]
-----------------------------------------------------------------------------
(* performDiscovery at the start of Run: the scan replaces the cache, the  *)
(* plugin is updated and the annotation written.  When listing the         *)
(* HSMDevices fails nothing happens; when the scan fails only the device   *)
(* type has been noted.  The process goes on to its loop in any case.      *)
PerformDiscovery(n) ==
  /\ pod[n].phase = "booting"
  /\ \E list, scan, patch \in BOOLEAN, seen \in DiscoverDevicesForSpec(n) :
       LET known == [s \in Serials |-> IF s \in seen THEN Present(bus[s].path) ELSE NoEntry]
           scanned == list /\ scan
       IN  /\ ~list => scan
           /\ ~scanned => patch
           /\ Failing(<<list, scan, patch>>)
           /\ typed' = [typed EXCEPT ![n] = list]
           /\ cache' = [cache EXCEPT ![n] = IF scanned THEN known ELSE @]
           /\ plugin' = [plugin EXCEPT ![n] = IF scanned THEN UpdateDevicePlugin(known) ELSE @]
           /\ report' = [report EXCEPT ![n] =
                           IF scanned THEN UpdatePodAnnotation(n, known, patch) ELSE @]
  /\ pod' = [pod EXCEPT ![n].phase = "running"]
  /\ UNCHANGED <<bus, events>>

(* findDeviceIndex: by serial number, and by path when the serial number   *)
(* is not in the cache; of several entries with that path the index holds  *)
(* the last.                                                               *)
FindDeviceIndex(n, event) ==
  IF cache[n][event.serial] # NoEntry
    THEN {event.serial}
    ELSE {t \in Serials : cache[n][t] # NoEntry /\ cache[n][t].path = event.path}

(* handleDeviceAdd: the entry found is overwritten by the new device, else *)
(* the device is appended.                                                 *)
HandleDeviceAdd(n, event) ==
  LET found == FindDeviceIndex(n, event)
      With(gone) == [t \in Serials |->
                       IF t = event.serial THEN Present(event.path)
                       ELSE IF t \in gone THEN NoEntry
                       ELSE cache[n][t]]
  IN  IF found = {} THEN {With({})} ELSE {With({t}) : t \in found}

(* handleDeviceRemove: the entry found is marked lost, as of now. *)
HandleDeviceRemove(n, event) ==
  LET found == FindDeviceIndex(n, event)
  IN  IF found = {} THEN {cache[n]}
      ELSE {[cache[n] EXCEPT ![t] = Lost(@)] : t \in found}

(* handleUSBEvent, with what both handlers do afterwards: cache,           *)
(* annotation, and the plugin unless the device type is not known          *)
(* (updateDevicePluginByName).  A removal that finds nothing does none of  *)
(* it.                                                                     *)
HandleUSBEvent(n) ==
  /\ InLoop(n)
  /\ events[n] # <<>>
  /\ LET event == Head(events[n])
         idle == event.action = "remove" /\ FindDeviceIndex(n, event) = {}
     IN  \E known \in IF event.action = "add"
                        THEN HandleDeviceAdd(n, event)
                        ELSE HandleDeviceRemove(n, event),
            patch \in BOOLEAN :
           /\ idle => patch
           /\ Failing(<<patch>>)
           /\ cache' = [cache EXCEPT ![n] = known]
           /\ report' = [report EXCEPT ![n] =
                           IF idle THEN @ ELSE UpdatePodAnnotation(n, known, patch)]
           /\ plugin' = [plugin EXCEPT ![n] =
                           IF idle \/ ~typed[n] THEN @ ELSE UpdateDevicePlugin(known)]
  /\ events' = [events EXCEPT ![n] = Tail(@)]
  /\ UNCHANGED <<bus, pod, typed>>
-----------------------------------------------------------------------------
(* The periodic reconciliation.                                            *)

(* Mutant of MergeScanIntoCache: what the scan did not see is left alone.  *)
MergeOnlySeen(n, seen) ==
  [s \in Serials |-> IF s \in seen THEN Present(bus[s].path) ELSE cache[n][s]]

(* mergeScanIntoCache: what the scan saw is there, at its present path;    *)
(* what it did not see is marked lost, once.                               *)
MergeScanIntoCache(n, seen) ==
  [s \in Serials |->
     IF s \in seen THEN Present(bus[s].path)
     ELSE IF cache[n][s].available THEN Lost(cache[n][s])
     ELSE cache[n][s]]

(* Mutant of CleanupStaleDevices: forgets at the grace period, not after.  *)
CleanupAtGrace(known) ==
  [s \in Serials |->
     IF IsLost(known[s]) /\ known[s].age >= Grace THEN NoEntry ELSE known[s]]

(* cleanupStaleDevices: forgets what has been lost for longer than the     *)
(* grace period.                                                           *)
CleanupStaleDevices(known) ==
  [s \in Serials |->
     IF IsLost(known[s]) /\ known[s].age > Grace THEN NoEntry ELSE known[s]]

(* reconcileDevices: a full scan merged into the cache, then the cleanup.  *)
(* Each of the two writes the annotation, and only when it changed the     *)
(* cache.  A failing scan skips the merge and not the cleanup; a failing   *)
(* list (no step) skips both.                                              *)
ReconcileDevices(n) ==
  /\ InLoop(n)
  /\ \E scan, patch, cleanPatch \in BOOLEAN, seen \in DiscoverDevicesForSpec(n) :
       LET merged == IF scan THEN MergeScanIntoCache(n, seen) ELSE cache[n]
           kept == CleanupStaleDevices(merged)
           afterMerge == IF merged # cache[n]
                           THEN UpdatePodAnnotation(n, merged, patch) ELSE report[n]
       IN  /\ merged = cache[n] => patch
           /\ kept = merged => cleanPatch
           /\ Failing(<<scan, patch, cleanPatch>>)
           /\ cache' = [cache EXCEPT ![n] = kept]
           /\ report' = [report EXCEPT ![n] =
                           IF kept # merged /\ cleanPatch THEN kept ELSE afterMerge]
           /\ plugin' = [plugin EXCEPT ![n] =
                           IF merged # cache[n] THEN UpdateDevicePlugin(merged) ELSE @]
  /\ UNCHANGED <<bus, events, pod, typed>>
-----------------------------------------------------------------------------
(* The life of the pods, which the DaemonSet controller and kubelet run.   *)

CrashContainer(n) ==
  /\ Mishap
  /\ InLoop(n)
  /\ RestartContainer(n)
  /\ UNCHANGED <<bus, report>>

(* ensureDiscoveryDaemonSet updates a DaemonSet whose specification        *)
(* differs from the desired one, so every pod is of an old template.       *)
EnsureDiscoveryDaemonSet ==
  /\ Mishap
  /\ \A n \in Nodes : pod[n].current
  /\ pod' = [n \in Nodes |-> [pod[n] EXCEPT !.current = FALSE]]
  /\ UNCHANGED <<bus, events, cache, report, plugin, typed>>

(* The rolling update replaces a pod: a new object, without annotation.    *)
(* maxUnavailable is 50 per cent, rounded up.                              *)
RollPod(n) ==
  /\ ~pod[n].current
  /\ Cardinality({m \in Nodes : ~IsRunningPod(m)} \cup {n}) <= (Cardinality(Nodes) + 1) \div 2
  /\ pod' = [pod EXCEPT ![n] = [phase |-> "pending", current |-> TRUE]]
  /\ report' = [report EXCEPT ![n] = NoReport]
  /\ ForgetProcess(n)
  /\ UNCHANGED <<bus, mishaps>>

StartPod(n) ==
  /\ pod[n].phase = "pending"
  /\ pod' = [pod EXCEPT ![n].phase = "booting"]
  /\ UNCHANGED <<bus, events, cache, report, plugin, typed, mishaps>>

(* Mutant of Older: an entry that is available grows old too, beyond the   *)
(* last age that is told apart.                                            *)
OlderWithoutEnd(known) ==
  [s \in DOMAIN known |->
     IF known[s] # NoEntry THEN [known[s] EXCEPT !.age = @ + 1] ELSE known[s]]

(* A tick of the clock for what a pod knows, or reported. *)
Older(known) ==
  [s \in DOMAIN known |->
     IF IsLost(known[s]) /\ known[s].age < AgeCap
       THEN [known[s] EXCEPT !.age = @ + 1] ELSE known[s]]

DiscoveryTick ==
  /\ cache' = [n \in Nodes |-> Older(cache[n])]
  /\ report' = [n \in Nodes |-> Older(report[n])]
  /\ UNCHANGED <<bus, events, pod, plugin, typed, mishaps>>

(* The steps of the pods themselves, without the clock. *)
DiscoveryStep ==
  \/ \E s \in Serials : PullOut(s) \/ PlugIn(s)
  \/ \E n \in Nodes :
       PerformDiscovery(n) \/ HandleUSBEvent(n) \/ ReconcileDevices(n)
         \/ MonitorEnds(n) \/ CrashContainer(n) \/ RollPod(n) \/ StartPod(n)
  \/ EnsureDiscoveryDaemonSet
-----------------------------------------------------------------------------
(* Properties.                                                             *)

(* A discovery process in its main loop forgets a device only when the     *)
(* device has been lost for longer than the grace period                   *)
(* (cleanupStaleDevices), or when another device has taken its place in    *)
(* the cache by path (findDeviceIndex); missed, late and dropped hotplug   *)
(* events and failing scans do not shorten the grace period.               *)
GraceIsHonoured ==
  [][\A n \in Nodes, s \in Serials :
       InLoop(n) /\ InLoop(n)' /\ cache[n][s] # NoEntry /\ cache'[n][s] = NoEntry
         => \/ IsLost(cache[n][s]) /\ cache[n][s].age > Grace
            \/ \E t \in Serials \ {s} :
                 cache'[n][t] = Present(cache[n][s].path)]_discoveryVars

(* The device plugin offers what the cache calls available, at the same    *)
(* paths: the handlers and scans update the two apart from each other, and *)
(* no order of events, failed scans and patches, clean-ups and restarts    *)
(* lets them differ, in a process whose first listing of the HSMDevices    *)
(* did not fail (updateDevicePluginByName).                                *)
PluginOffersCache ==
  \A n \in Nodes :
    InLoop(n) /\ typed[n] => plugin[n] = UpdateDevicePlugin(cache[n])

(* Once devices stop moving, every process comes to know exactly the       *)
(* devices of its bus as available, at their present paths, whatever       *)
(* hotplug events were missed or came late: reconcileDevices is the safety *)
(* net its comment promises.                                               *)
CacheFollowsBus ==
  <>[](\A n \in Nodes :
    {<<s, cache[n][s].path>> : s \in {t \in Serials : cache[n][t].available}}
      = {<<s, bus[s].path>> : s \in Attached(n)})

(* Does not hold, although reconcileHSMDeviceScan says it of itself: a     *)
(* change is propagated to the device plugin and the pod annotation, so    *)
(* these too settle on the devices of the bus.  After a failed patch the   *)
(* cache holds the change already and no later scan patches again.         *)
ChangesArePropagated ==
  <>[](\A n \in Nodes :
    /\ report[n] # NoReport
    /\ {s \in Serials : report[n][s].available} = Attached(n)
    /\ plugin[n] = {<<s, bus[s].path>> : s \in Attached(n)})
=============================================================================
