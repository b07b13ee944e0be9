---------------------------- MODULE FleetProofs ----------------------------
(***************************************************************************)
(* Safety of the discovery pods, the HSMPool controller and the pool-agent *)
(* controller, for any nodes, paths, serials and grace period.  First the  *)
(* discovery pods: every step changes one node, and its process keeps the  *)
(* device plugin in step with the cache.  Then the pool's status, and last *)
(* the reconciliation of the agents, which works from the status it        *)
(* fetched at its start while everything else moves on.                    *)
(***************************************************************************)
EXTENDS AgentFleet, FiniteSetTheorems, TLAPS

\* Ages start at 0 and stop at AgeCap.
LEMMA AgeFacts ==
  /\ 0 \in Ages /\ AgeCap \in Ages
  /\ \A a \in Ages : a \in Nat /\ (a < AgeCap => a + 1 \in Ages /\ a + 1 # 0)
BY DiscoveryAssumption DEF Ages, AgeCap

\* What an entry of a cache, a report or a status is.
LEMMA EntryFields ==
  ASSUME NEW e \in Entries
  PROVE  /\ e.available \in BOOLEAN /\ e.age \in Ages
         /\ e # NoEntry => e \in [path : Paths, available : BOOLEAN, age : Ages] /\ e.path \in Paths
         /\ e.available => e # NoEntry
<1>1. CASE e \in [path : Paths, available : BOOLEAN, age : Ages]
  <2>1. e.available \in BOOLEAN /\ e.age \in Ages /\ e.path \in Paths
    BY <1>1
  <2>2. ~NoEntry.available
    BY DEF NoEntry
  <2> QED BY <1>1, <2>1, <2>2
<1>2. CASE e = NoEntry
  BY <1>2, AgeFacts DEF NoEntry
<1> QED BY <1>1, <1>2 DEF Entries

LEMMA PresentType ==
  ASSUME NEW p
  PROVE  /\ p \in Paths => Present(p) \in Entries
         /\ Present(p) # NoEntry /\ Present(p).available /\ Present(p).path = p
         /\ ~IsLost(Present(p))
BY AgeFacts DEF Present, Entries, NoEntry, IsLost

LEMMA LostType ==
  ASSUME NEW e \in Entries, e # NoEntry
  PROVE  /\ Lost(e) \in Entries /\ Lost(e).path = e.path
         /\ ~Lost(e).available /\ Lost(e).age = 0 /\ Lost(e) # NoEntry
BY AgeFacts, EntryFields, DiscoveryAssumption DEF Lost, Entries, NoEntry

LEMMA NothingType == NoEntry \in Entries /\ Nothing \in Known
BY DEF Nothing, Known, Entries

\* A tick changes no path and no availability, and forgets nothing.
LEMMA OlderFacts ==
  ASSUME NEW known \in Known
  PROVE  /\ Older(known) \in Known
         /\ \A s \in Serials :
              /\ Older(known)[s] = NoEntry <=> known[s] = NoEntry
              /\ Older(known)[s].available = known[s].available
              /\ Older(known)[s].path = known[s].path
<1> DEFINE one(e) == IF IsLost(e) /\ e.age < AgeCap THEN [e EXCEPT !.age = @ + 1] ELSE e
<1>1. ASSUME NEW e \in Entries
      PROVE  /\ one(e) \in Entries /\ (one(e) = NoEntry <=> e = NoEntry)
             /\ one(e).available = e.available /\ one(e).path = e.path
  <2>1. CASE IsLost(e) /\ e.age < AgeCap
    <3>1. /\ e \in [path : Paths, available : BOOLEAN, age : Ages] /\ e # NoEntry
          /\ e.age + 1 \in Ages /\ e.age + 1 # 0
      BY <2>1, EntryFields, AgeFacts DEF IsLost
    <3>2. one(e) = [e EXCEPT !.age = e.age + 1]
      BY <2>1
    <3> QED BY <3>1, <3>2 DEF Entries, NoEntry
  <2>2. CASE ~(IsLost(e) /\ e.age < AgeCap)
    BY <2>2
  <2> QED BY <2>1, <2>2
<1>2. known \in [Serials -> Entries]
  BY DEF Known
<1>3. Older(known) = [s \in Serials |-> one(known[s])]
  BY <1>2 DEF Older
<1> HIDE DEF one
<1> QED BY <1>1, <1>2, <1>3 DEF Known

LEMMA OlderNoReport == Older(NoReport) = NoReport
BY DEF Older, NoReport

\* A failing call spends mishaps within their bound.
LEMMA FailingType ==
  ASSUME mishaps \in 0..MaxMishaps, NEW calls, IsFiniteSet(DOMAIN calls), Failing(calls)
  PROVE  mishaps' \in 0..MaxMishaps
<1> DEFINE bad == {i \in DOMAIN calls : ~calls[i]}
<1>1. IsFiniteSet(bad)
  BY FS_Subset
<1>2. Cardinality(bad) \in Nat
  BY <1>1, FS_CardinalityType
<1>3. mishaps + Cardinality(bad) <= MaxMishaps /\ mishaps' = mishaps + Cardinality(bad)
  BY DEF Failing
<1> HIDE DEF bad
<1> QED BY <1>2, <1>3, DiscoveryAssumption

LEMMA FiniteCalls ==
  /\ \A a : IsFiniteSet(DOMAIN <<a>>)
  /\ \A a, b, c : IsFiniteSet(DOMAIN <<a, b, c>>)
<1>1. \A k \in Int : IsFiniteSet(1..k)
  BY FS_Interval
<1>2. \A a : DOMAIN <<a>> = 1..1
  OBVIOUS
<1>3. \A a, b, c : DOMAIN <<a, b, c>> = 1..3
  OBVIOUS
<1>4. 1 \in Int /\ 3 \in Int
  OBVIOUS
<1> QED BY <1>1, <1>2, <1>3, <1>4, Zenon

LEMMA MishapType ==
  ASSUME mishaps \in 0..MaxMishaps, Mishap
  PROVE  mishaps' \in 0..MaxMishaps
BY DiscoveryAssumption DEF Mishap

\* What a scan sees is plugged in, at a path.
LEMMA ScanFacts ==
  ASSUME bus \in [Serials -> Places], NEW n \in Nodes,
         NEW seen \in DiscoverDevicesForSpec(n), NEW s \in seen
  PROVE  s \in Serials /\ bus[s].path \in Paths
<1>1. s \in Attached(n)
  BY DEF DiscoverDevicesForSpec
<1>2. s \in Serials /\ bus[s] \in Places /\ bus[s].node = n
  BY <1>1 DEF Attached
<1> QED BY <1>2, DiscoveryAssumption DEF Places, Unplugged

\* The cache an event or a scan leads to: what is in it, and what it forgets.
LEMMA AddFacts ==
  ASSUME cache \in [Nodes -> Known], NEW n \in Nodes, NEW event \in Events,
         NEW known \in HandleDeviceAdd(n, event)
  PROVE  /\ known \in Known
         /\ known[event.serial] = Present(event.path)
         /\ \A s \in Serials : known[s] = NoEntry /\ cache[n][s] # NoEntry
              => s # event.serial /\ cache[n][s].path = event.path
<1> DEFINE found == FindDeviceIndex(n, event)
           With(gone) == [t \in Serials |->
                            IF t = event.serial THEN Present(event.path)
                            ELSE IF t \in gone THEN NoEntry
                            ELSE cache[n][t]]
<1>1. event.serial \in Serials /\ event.path \in Paths /\ cache[n] \in [Serials -> Entries]
  BY DEF Events, Known
<1>2. Present(event.path) \in Entries /\ Present(event.path) # NoEntry /\ NoEntry \in Entries
  BY <1>1, PresentType, NothingType
<1>3. ASSUME NEW gone, \A t \in gone : t # event.serial => cache[n][t].path = event.path
      PROVE  /\ With(gone) \in Known
             /\ With(gone)[event.serial] = Present(event.path)
             /\ \A s \in Serials : With(gone)[s] = NoEntry /\ cache[n][s] # NoEntry
                  => s # event.serial /\ cache[n][s].path = event.path
  BY <1>1, <1>2, <1>3 DEF Known
<1>4. \A t \in found : t # event.serial => cache[n][t].path = event.path
  BY DEF FindDeviceIndex
<1>5. \/ known = With({})
      \/ \E t \in found : known = With({t})
  BY DEF HandleDeviceAdd
<1> HIDE DEF With, found
<1>6. CASE known = With({})
  BY <1>3, <1>6
<1>7. ASSUME NEW t \in found, known = With({t})
      PROVE  /\ known \in Known
             /\ known[event.serial] = Present(event.path)
             /\ \A s \in Serials : known[s] = NoEntry /\ cache[n][s] # NoEntry
                  => s # event.serial /\ cache[n][s].path = event.path
  <2>1. \A u \in {t} : u # event.serial => cache[n][u].path = event.path
    BY <1>4
  <2> QED BY <1>3, <1>7, <2>1
<1> QED BY <1>5, <1>6, <1>7

LEMMA RemoveFacts ==
  ASSUME cache \in [Nodes -> Known], NEW n \in Nodes, NEW event \in Events,
         NEW known \in HandleDeviceRemove(n, event)
  PROVE  /\ known \in Known
         /\ FindDeviceIndex(n, event) = {} => known = cache[n]
         /\ \A s \in Serials : cache[n][s] # NoEntry => known[s] # NoEntry
<1>1. event.serial \in Serials /\ cache[n] \in [Serials -> Entries]
  BY DEF Events, Known
<1>2. CASE FindDeviceIndex(n, event) = {}
  BY <1>1, <1>2 DEF HandleDeviceRemove, Known
<1>3. CASE FindDeviceIndex(n, event) # {}
  <2>1. PICK t \in FindDeviceIndex(n, event) : known = [cache[n] EXCEPT ![t] = Lost(cache[n][t])]
    BY <1>3 DEF HandleDeviceRemove
  <2>2. t \in Serials /\ cache[n][t] # NoEntry
    BY <1>1 DEF FindDeviceIndex
  <2>3. Lost(cache[n][t]) \in Entries /\ Lost(cache[n][t]) # NoEntry
    <3>1. cache[n][t] \in Entries /\ cache[n][t].path \in Paths
      BY <1>1, <2>2, EntryFields
    <3> QED BY <2>2, <3>1, LostType
  <2> QED BY <1>1, <1>3, <2>1, <2>2, <2>3 DEF Known
<1> QED BY <1>2, <1>3

LEMMA MergeFacts ==
  ASSUME bus \in [Serials -> Places], cache \in [Nodes -> Known], NEW n \in Nodes,
         NEW seen \in DiscoverDevicesForSpec(n)
  PROVE  LET merged == MergeScanIntoCache(n, seen)
         IN  /\ merged \in Known
             /\ \A s \in Serials : cache[n][s] # NoEntry =>
                  /\ merged[s] # NoEntry
                  /\ IsLost(merged[s]) => merged[s] = cache[n][s] \/ merged[s].age = 0
<1> DEFINE merged == MergeScanIntoCache(n, seen)
<1>1. cache[n] \in [Serials -> Entries]
  BY DEF Known
<1>2. merged = [s \in Serials |-> IF s \in seen THEN Present(bus[s].path)
                                  ELSE IF cache[n][s].available THEN Lost(cache[n][s])
                                  ELSE cache[n][s]]
  BY DEF MergeScanIntoCache
<1> HIDE DEF merged
<1>3. ASSUME NEW s \in Serials
      PROVE  /\ merged[s] \in Entries
             /\ cache[n][s] # NoEntry =>
                  /\ merged[s] # NoEntry
                  /\ IsLost(merged[s]) => merged[s] = cache[n][s] \/ merged[s].age = 0
  <2>1. CASE s \in seen
    BY <1>2, <2>1, ScanFacts, PresentType
  <2>2. CASE s \notin seen /\ cache[n][s].available
    BY <1>1, <1>2, <2>2, EntryFields, LostType
  <2>3. CASE s \notin seen /\ ~cache[n][s].available
    BY <1>1, <1>2, <2>3
  <2> QED BY <2>1, <2>2, <2>3
<1> QED BY <1>2, <1>3 DEF Known, merged

LEMMA CleanupFacts ==
  ASSUME NEW known \in Known
  PROVE  LET kept == CleanupStaleDevices(known)
         IN  /\ kept \in Known
             /\ \A s \in Serials :
                  /\ \/ kept[s] = known[s]
                     \/ kept[s] = NoEntry /\ IsLost(known[s]) /\ known[s].age > Grace
                  /\ kept[s].available = known[s].available
                  /\ known[s].available => kept[s].path = known[s].path
<1> DEFINE kept == CleanupStaleDevices(known)
<1>1. kept = [s \in Serials |->
                IF IsLost(known[s]) /\ known[s].age > Grace THEN NoEntry ELSE known[s]]
  BY DEF CleanupStaleDevices
<1> HIDE DEF kept
<1>2. NoEntry.available = FALSE
  BY DEF NoEntry
<1>3. ASSUME NEW s \in Serials
      PROVE  /\ kept[s] \in Entries
             /\ \/ kept[s] = known[s]
                \/ kept[s] = NoEntry /\ IsLost(known[s]) /\ known[s].age > Grace
             /\ kept[s].available = known[s].available
             /\ known[s].available => kept[s].path = known[s].path
  <2>1. known[s] \in Entries /\ known[s].available \in BOOLEAN
    BY EntryFields DEF Known
  <2>2. CASE IsLost(known[s]) /\ known[s].age > Grace
    <3>1. kept[s] = NoEntry /\ known[s].available = FALSE
      BY <1>1, <2>1, <2>2 DEF IsLost
    <3>2. kept[s].available = known[s].available
      BY <1>2, <3>1
    <3> QED BY <2>2, <3>1, <3>2, NothingType
  <2>3. CASE ~(IsLost(known[s]) /\ known[s].age > Grace)
    BY <1>1, <2>1, <2>3
  <2> QED BY <2>2, <2>3
<1> QED BY <1>1, <1>3 DEF Known, kept
-----------------------------------------------------------------------------
\* The discovery pods.

(* What relates the plugin of a process to its cache: in the main loop the *)
(* plugin offers the cache, and before it the process knows nothing yet.   *)
Offers(q, known, offered, knows) ==
  IF q.phase \in {"running", "deaf"}
    THEN knows => offered = UpdateDevicePlugin(known)
    ELSE known = Nothing /\ offered = {} /\ knows = FALSE

PluginInvariant ==
  \A n \in Nodes : Offers(pod[n], cache[n], plugin[n], typed[n])

DiscoveryInvariant == DiscoveryTypeOK /\ PluginInvariant

(* What a step of a process in its main loop may forget. *)
MayForget(before, after) ==
  \A s \in Serials : before[s] # NoEntry /\ after[s] = NoEntry
    => \/ IsLost(before[s]) /\ before[s].age > Grace
       \/ \E t \in Serials \ {s} : after[t] = Present(before[s].path)

GraceStep ==
  \A n \in Nodes : InLoop(n) /\ InLoop(n)' => MayForget(cache[n], cache'[n])

LEMMA OfferType ==
  ASSUME NEW known \in Known
  PROVE  UpdateDevicePlugin(known) \in SUBSET (Serials \X Paths)
<1>1. \A s \in Serials : known[s].available => known[s].path \in Paths
  BY EntryFields DEF Known
<1> QED BY <1>1 DEF UpdateDevicePlugin

LEMMA OfferOfNothing == UpdateDevicePlugin(Nothing) = {}
BY DEF UpdateDevicePlugin, Nothing, NoEntry

\* What is offered depends on the availability and the paths alone.
LEMMA OfferDepends ==
  ASSUME NEW a, NEW b,
         \A s \in Serials : a[s].available = b[s].available /\ (a[s].available => a[s].path = b[s].path)
  PROVE  UpdateDevicePlugin(a) = UpdateDevicePlugin(b)
BY DEF UpdateDevicePlugin

\* A step of one process, given by what it leaves behind.
LEMMA NodeStep ==
  ASSUME DiscoveryInvariant, NEW n \in Nodes,
         pod' = [pod EXCEPT ![n] = pod'[n]], pod'[n] \in [phase : Phases, current : BOOLEAN],
         cache' = [cache EXCEPT ![n] = cache'[n]], cache'[n] \in Known,
         plugin' = [plugin EXCEPT ![n] = plugin'[n]], plugin'[n] \in SUBSET (Serials \X Paths),
         typed' = [typed EXCEPT ![n] = typed'[n]], typed'[n] \in BOOLEAN,
         Offers(pod'[n], cache'[n], plugin'[n], typed'[n]),
         InLoop(n) /\ pod'[n].phase \in {"running", "deaf"} => MayForget(cache[n], cache'[n])
  PROVE  /\ pod' \in [Nodes -> [phase : Phases, current : BOOLEAN]]
         /\ cache' \in [Nodes -> Known]
         /\ plugin' \in [Nodes -> SUBSET (Serials \X Paths)]
         /\ typed' \in [Nodes -> BOOLEAN]
         /\ PluginInvariant' /\ GraceStep
<1> USE DEF DiscoveryInvariant, DiscoveryTypeOK
<1>1. /\ pod' \in [Nodes -> [phase : Phases, current : BOOLEAN]]
      /\ \A m \in Nodes \ {n} : pod'[m] = pod[m]
  OBVIOUS
<1>2. /\ cache' \in [Nodes -> Known]
      /\ \A m \in Nodes \ {n} : cache'[m] = cache[m]
  OBVIOUS
<1>3. /\ plugin' \in [Nodes -> SUBSET (Serials \X Paths)]
      /\ \A m \in Nodes \ {n} : plugin'[m] = plugin[m]
  OBVIOUS
<1>4. /\ typed' \in [Nodes -> BOOLEAN]
      /\ \A m \in Nodes \ {n} : typed'[m] = typed[m]
  OBVIOUS
<1>5. ASSUME NEW m \in Nodes
      PROVE  Offers(pod'[m], cache'[m], plugin'[m], typed'[m])
  <2>1. CASE m = n
    BY <1>1, <1>2, <1>3, <1>4, <2>1
  <2>2. CASE m # n
    BY <1>1, <1>2, <1>3, <1>4, <2>2 DEF PluginInvariant
  <2> QED BY <2>1, <2>2
<1>6. ASSUME NEW m \in Nodes, InLoop(m), InLoop(m)'
      PROVE  MayForget(cache[m], cache'[m])
  <2>1. CASE m = n
    BY <1>1, <1>2, <1>6, <2>1 DEF InLoop
  <2>2. CASE m # n
    BY <1>2, <2>2 DEF MayForget
  <2> QED BY <2>1, <2>2
<1>7. PluginInvariant'
  BY <1>5 DEF PluginInvariant, Offers, UpdateDevicePlugin
<1> QED BY <1>1, <1>2, <1>3, <1>4, <1>6, <1>7 DEF GraceStep

\* A step that leaves the processes alone.
LEMMA QuietStep ==
  ASSUME DiscoveryInvariant, UNCHANGED <<pod, cache, plugin, typed>>
  PROVE  PluginInvariant' /\ GraceStep
BY DEF DiscoveryInvariant, PluginInvariant, Offers, UpdateDevicePlugin, GraceStep, MayForget

LEMMA Forgotten ==
  ASSUME DiscoveryInvariant, NEW n \in Nodes, ForgetProcess(n),
         NEW q \in [phase : {"pending", "booting"}, current : BOOLEAN],
         pod' = [pod EXCEPT ![n] = q]
  PROVE  /\ pod' \in [Nodes -> [phase : Phases, current : BOOLEAN]]
         /\ cache' \in [Nodes -> Known]
         /\ plugin' \in [Nodes -> SUBSET (Serials \X Paths)]
         /\ typed' \in [Nodes -> BOOLEAN]
         /\ events' \in [Nodes -> Seq(Events)]
         /\ \A m \in Nodes : Len(events'[m]) <= EventBuffer
         /\ PluginInvariant' /\ GraceStep
<1>1. q \in [phase : Phases, current : BOOLEAN] /\ q.phase \notin {"running", "deaf"}
  BY DEF Phases
<1>2. Offers(q, Nothing, {}, FALSE)
  BY <1>1 DEF Offers
<1>3. events' \in [Nodes -> Seq(Events)] /\ \A m \in Nodes : Len(events'[m]) <= EventBuffer
  BY DiscoveryAssumption DEF DiscoveryInvariant, DiscoveryTypeOK, ForgetProcess
<1>4. Nothing \in Known /\ {} \in SUBSET (Serials \X Paths) /\ FALSE \in BOOLEAN
  BY NothingType
<1>5. /\ pod' = [pod EXCEPT ![n] = pod'[n]] /\ pod'[n] = q
      /\ cache' = [cache EXCEPT ![n] = cache'[n]] /\ cache'[n] = Nothing
      /\ plugin' = [plugin EXCEPT ![n] = plugin'[n]] /\ plugin'[n] = {}
      /\ typed' = [typed EXCEPT ![n] = typed'[n]] /\ typed'[n] = FALSE
  BY DEF ForgetProcess, DiscoveryInvariant, DiscoveryTypeOK
<1> QED BY <1>1, <1>2, <1>3, <1>4, <1>5, NodeStep

LEMMA RestartKeeps ==
  ASSUME DiscoveryInvariant, NEW n \in Nodes, RestartContainer(n),
         bus' \in [Serials -> Places], UNCHANGED report, mishaps' \in 0..MaxMishaps
  PROVE  DiscoveryInvariant' /\ GraceStep
<1> DEFINE q == [pod[n] EXCEPT !.phase = "booting"]
<1>1. q \in [phase : {"pending", "booting"}, current : BOOLEAN] /\ pod' = [pod EXCEPT ![n] = q]
  BY DEF RestartContainer, DiscoveryInvariant, DiscoveryTypeOK
<1> HIDE DEF q
<1>2. /\ pod' \in [Nodes -> [phase : Phases, current : BOOLEAN]]
      /\ cache' \in [Nodes -> Known]
      /\ plugin' \in [Nodes -> SUBSET (Serials \X Paths)]
      /\ typed' \in [Nodes -> BOOLEAN]
      /\ events' \in [Nodes -> Seq(Events)]
      /\ \A m \in Nodes : Len(events'[m]) <= EventBuffer
      /\ PluginInvariant' /\ GraceStep
  BY <1>1, Forgotten DEF RestartContainer
<1> QED BY <1>2 DEF DiscoveryInvariant, DiscoveryTypeOK

\* An event that arrives, is dropped or ends the process.
LEMMA EventArrives ==
  ASSUME DiscoveryInvariant, NEW n \in Nodes, NEW event \in Events,
         HandleDeviceEvent(n, event),
         bus' \in [Serials -> Places], UNCHANGED report, mishaps' \in 0..MaxMishaps
  PROVE  DiscoveryInvariant' /\ GraceStep
<1>1. CASE pod[n].phase = "deaf" /\ RestartContainer(n)
  BY <1>1, RestartKeeps
<1>2. CASE /\ events' = IF pod[n].phase = "running" /\ Len(events[n]) < EventBuffer
                          THEN [events EXCEPT ![n] = Append(@, event)] ELSE events
           /\ UNCHANGED <<pod, cache, plugin, typed>>
  <2>1. events' \in [Nodes -> Seq(Events)] /\ \A m \in Nodes : Len(events'[m]) <= EventBuffer
    <3>1. CASE pod[n].phase = "running" /\ Len(events[n]) < EventBuffer
      <4> DEFINE longer == Append(events[n], event)
      <4>1. events[n] \in Seq(Events) /\ Len(events[n]) \in Nat
        BY DEF DiscoveryInvariant, DiscoveryTypeOK
      <4>2. longer \in Seq(Events) /\ Len(longer) <= EventBuffer
        BY <3>1, <4>1, DiscoveryAssumption
      <4>3. events' = [events EXCEPT ![n] = longer]
        BY <1>2, <3>1
      <4> HIDE DEF longer
      <4> QED BY <4>2, <4>3 DEF DiscoveryInvariant, DiscoveryTypeOK
    <3>2. CASE ~(pod[n].phase = "running" /\ Len(events[n]) < EventBuffer)
      BY <1>2, <3>2 DEF DiscoveryInvariant, DiscoveryTypeOK
    <3> QED BY <3>1, <3>2
  <2> QED BY <1>2, <2>1, QuietStep DEF DiscoveryInvariant, DiscoveryTypeOK
<1>3. CASE UNCHANGED <<events, pod, cache, plugin, typed>>
  BY <1>3, QuietStep DEF DiscoveryInvariant, DiscoveryTypeOK
<1> QED BY <1>1, <1>2, <1>3 DEF HandleDeviceEvent

LEMMA BusSteps ==
  ASSUME DiscoveryInvariant, NEW s \in Serials, PullOut(s) \/ PlugIn(s)
  PROVE  DiscoveryInvariant' /\ GraceStep
<1>1. bus \in [Serials -> Places] /\ Unplugged \in Places /\ mishaps \in 0..MaxMishaps
  BY DEF DiscoveryInvariant, DiscoveryTypeOK, Places
<1>2. mishaps' \in 0..MaxMishaps
  BY <1>1, MishapType DEF PullOut, PlugIn
<1>3. CASE PullOut(s)
  <2> DEFINE event == [action |-> "remove", serial |-> s, path |-> bus[s].path]
  <2>1. bus[s].node \in Nodes /\ bus[s].path \in Paths
    BY <1>1, <1>3 DEF PullOut, Places
  <2>2. event \in Events
    BY <2>1 DEF Events
  <2>3. HandleDeviceEvent(bus[s].node, event) /\ UNCHANGED report /\ bus' \in [Serials -> Places]
    BY <1>1, <1>3 DEF PullOut
  <2> QED BY <1>2, <2>1, <2>2, <2>3, EventArrives
<1>4. CASE PlugIn(s)
  <2>1. PICK place \in [node : Nodes, path : Paths] :
          /\ bus' = [bus EXCEPT ![s] = place]
          /\ HandleDeviceEvent(place.node,
                               [action |-> "add", serial |-> s, path |-> place.path])
    BY <1>4 DEF PlugIn
  <2>2. [action |-> "add", serial |-> s, path |-> place.path] \in Events
    BY DEF Events
  <2>3. bus' \in [Serials -> Places] /\ UNCHANGED report /\ place.node \in Nodes
    BY <1>1, <1>4, <2>1 DEF PlugIn, Places
  <2> QED BY <1>2, <2>1, <2>2, <2>3, EventArrives
<1> QED BY <1>3, <1>4

\* Steps of a pod's life that scan nothing.
LEMMA PodSteps ==
  ASSUME DiscoveryInvariant, NEW n \in Nodes,
         MonitorEnds(n) \/ CrashContainer(n) \/ RollPod(n) \/ StartPod(n)
  PROVE  DiscoveryInvariant' /\ GraceStep
<1> USE DEF DiscoveryInvariant, DiscoveryTypeOK
<1>1. CASE CrashContainer(n)
  BY <1>1, RestartKeeps, MishapType DEF CrashContainer
<1>2. CASE RollPod(n)
  <2>1. [phase |-> "pending", current |-> TRUE] \in [phase : {"pending", "booting"}, current : BOOLEAN]
    OBVIOUS
  <2>2. /\ pod' \in [Nodes -> [phase : Phases, current : BOOLEAN]]
        /\ cache' \in [Nodes -> Known]
        /\ plugin' \in [Nodes -> SUBSET (Serials \X Paths)]
        /\ typed' \in [Nodes -> BOOLEAN]
        /\ events' \in [Nodes -> Seq(Events)]
        /\ \A m \in Nodes : Len(events'[m]) <= EventBuffer
        /\ PluginInvariant' /\ GraceStep
    BY <1>2, <2>1, Forgotten DEF RollPod
  <2> QED BY <1>2, <2>2 DEF RollPod
<1>3. ASSUME NEW phase \in Phases, pod' = [pod EXCEPT ![n].phase = phase],
             phase \in {"running", "deaf"} <=> InLoop(n),
             UNCHANGED <<bus, events, cache, report, plugin, typed>>, mishaps' \in 0..MaxMishaps
      PROVE  DiscoveryInvariant' /\ GraceStep
  <2> DEFINE q == [pod[n] EXCEPT !.phase = phase]
  <2>1. q \in [phase : Phases, current : BOOLEAN] /\ q.phase = phase /\ pod' = [pod EXCEPT ![n] = q]
    BY <1>3
  <2> HIDE DEF q
  <2>2. Offers(q, cache[n], plugin[n], typed[n])
    BY <1>3, <2>1 DEF Offers, PluginInvariant, InLoop
  <2>3. MayForget(cache[n], cache[n])
    BY DEF MayForget
  <2>4. /\ pod' = [pod EXCEPT ![n] = pod'[n]] /\ pod'[n] = q
        /\ cache' = [cache EXCEPT ![n] = cache'[n]] /\ cache'[n] = cache[n]
        /\ plugin' = [plugin EXCEPT ![n] = plugin'[n]] /\ plugin'[n] = plugin[n]
        /\ typed' = [typed EXCEPT ![n] = typed'[n]] /\ typed'[n] = typed[n]
    BY <1>3, <2>1
  <2>5. cache[n] \in Known /\ plugin[n] \in SUBSET (Serials \X Paths) /\ typed[n] \in BOOLEAN
    OBVIOUS
  <2> HIDE DEF DiscoveryInvariant, DiscoveryTypeOK
  <2>6. /\ pod' \in [Nodes -> [phase : Phases, current : BOOLEAN]]
        /\ PluginInvariant' /\ GraceStep
    BY <2>1, <2>2, <2>3, <2>4, <2>5, NodeStep
  <2> QED BY <1>3, <2>6 DEF DiscoveryInvariant, DiscoveryTypeOK
<1>4. CASE MonitorEnds(n)
  BY <1>3, <1>4, MishapType DEF MonitorEnds, InLoop, Phases
<1>5. CASE StartPod(n)
  BY <1>3, <1>5 DEF StartPod, InLoop, Phases
<1> QED BY <1>1, <1>2, <1>4, <1>5

\* The initial discovery: what it found, or nothing at all.
LEMMA DiscoveryRuns ==
  ASSUME DiscoveryInvariant, NEW n \in Nodes, PerformDiscovery(n)
  PROVE  DiscoveryInvariant' /\ GraceStep
<1>1. PICK list \in BOOLEAN, scan \in BOOLEAN, patch \in BOOLEAN,
           seen \in DiscoverDevicesForSpec(n) :
        LET found == [s \in Serials |-> IF s \in seen THEN Present(bus[s].path) ELSE NoEntry]
            scanned == list /\ scan
        IN  /\ ~list => scan
            /\ ~scanned => patch
            /\ Failing(<<list, scan, patch>>)
            /\ typed' = [typed EXCEPT ![n] = list]
            /\ cache' = [cache EXCEPT ![n] = IF scanned THEN found ELSE @]
            /\ plugin' = [plugin EXCEPT ![n] = IF scanned THEN UpdateDevicePlugin(found) ELSE @]
            /\ report' = [report EXCEPT ![n] =
                            IF scanned THEN UpdatePodAnnotation(n, found, patch) ELSE @]
  BY Zenon DEF PerformDiscovery
<1> DEFINE found == [s \in Serials |-> IF s \in seen THEN Present(bus[s].path) ELSE NoEntry]
           known == IF list /\ scan THEN found ELSE Nothing
           q == [pod[n] EXCEPT !.phase = "running"]
<1>2. /\ pod[n].phase = "booting" /\ pod' = [pod EXCEPT ![n] = q]
      /\ q \in [phase : Phases, current : BOOLEAN] /\ q.phase = "running" /\ ~InLoop(n)
      /\ UNCHANGED <<bus, events>>
  <2>1. /\ pod[n].phase = "booting" /\ pod' = [pod EXCEPT ![n].phase = "running"]
        /\ UNCHANGED <<bus, events>>
    BY Zenon DEF PerformDiscovery
  <2>2. pod \in [Nodes -> [phase : Phases, current : BOOLEAN]]
    BY DEF DiscoveryInvariant, DiscoveryTypeOK
  <2> QED BY <2>1, <2>2 DEF InLoop, Phases
<1>3. cache[n] = Nothing /\ plugin[n] = {}
  BY <1>2 DEF DiscoveryInvariant, PluginInvariant, Offers
<1>4. found \in Known
  BY ScanFacts, PresentType, NothingType DEF Known, DiscoveryInvariant, DiscoveryTypeOK
<1>5. mishaps' \in 0..MaxMishaps
  BY <1>1, FailingType, FiniteCalls DEF DiscoveryInvariant, DiscoveryTypeOK
<1>6. report' \in [Nodes -> Known \cup {NoReport}]
  <2>1. UpdatePodAnnotation(n, found, patch) \in Known \cup {NoReport}
    BY <1>4 DEF UpdatePodAnnotation, DiscoveryInvariant, DiscoveryTypeOK
  <2> HIDE DEF found
  <2> QED BY <1>1, <2>1 DEF DiscoveryInvariant, DiscoveryTypeOK, found
<1> HIDE DEF found, q
<1>7. /\ pod' = [pod EXCEPT ![n] = pod'[n]] /\ pod'[n] = q
      /\ cache' = [cache EXCEPT ![n] = cache'[n]] /\ cache'[n] = known
      /\ plugin' = [plugin EXCEPT ![n] = plugin'[n]] /\ plugin'[n] = UpdateDevicePlugin(known)
      /\ typed' = [typed EXCEPT ![n] = typed'[n]] /\ typed'[n] = list
  BY <1>1, <1>2, <1>3, OfferOfNothing DEF found, DiscoveryInvariant, DiscoveryTypeOK
<1>8. known \in Known /\ UpdateDevicePlugin(known) \in SUBSET (Serials \X Paths)
  BY <1>4, NothingType, OfferType
<1> HIDE DEF known
<1>9. Offers(q, known, UpdateDevicePlugin(known), list)
  BY <1>2 DEF Offers
<1>10. /\ pod' \in [Nodes -> [phase : Phases, current : BOOLEAN]]
       /\ cache' \in [Nodes -> Known]
       /\ plugin' \in [Nodes -> SUBSET (Serials \X Paths)]
       /\ typed' \in [Nodes -> BOOLEAN]
       /\ PluginInvariant' /\ GraceStep
  BY <1>2, <1>7, <1>8, <1>9, NodeStep
<1> QED BY <1>2, <1>5, <1>6, <1>10 DEF DiscoveryInvariant, DiscoveryTypeOK

\* A hotplug event: the plugin follows the cache, and a device is forgotten
\* only for the one that took its path.
LEMMA EventHandled ==
  ASSUME DiscoveryInvariant, NEW n \in Nodes, HandleUSBEvent(n)
  PROVE  DiscoveryInvariant' /\ GraceStep
<1> DEFINE event == Head(events[n])
           idle == event.action = "remove" /\ FindDeviceIndex(n, event) = {}
<1>1. PICK known \in IF event.action = "add"
                        THEN HandleDeviceAdd(n, event)
                        ELSE HandleDeviceRemove(n, event),
           patch \in BOOLEAN :
        /\ Failing(<<patch>>)
        /\ cache' = [cache EXCEPT ![n] = known]
        /\ report' = [report EXCEPT ![n] =
                        IF idle THEN @ ELSE UpdatePodAnnotation(n, known, patch)]
        /\ plugin' = [plugin EXCEPT ![n] =
                        IF idle \/ ~typed[n] THEN @ ELSE UpdateDevicePlugin(known)]
  BY DEF HandleUSBEvent
<1>2. /\ InLoop(n) /\ events' = [events EXCEPT ![n] = Tail(events[n])]
      /\ UNCHANGED <<bus, pod, typed>>
      /\ events[n] \in Seq(Events) /\ events[n] # <<>>
  BY DEF HandleUSBEvent, DiscoveryInvariant, DiscoveryTypeOK
<1>3. event \in Events
  BY <1>2
<1>4. events' \in [Nodes -> Seq(Events)] /\ \A m \in Nodes : Len(events'[m]) <= EventBuffer
  <2> DEFINE rest == Tail(events[n])
  <2>1. rest \in Seq(Events) /\ Len(rest) <= EventBuffer
    BY <1>2, DiscoveryAssumption DEF DiscoveryInvariant, DiscoveryTypeOK
  <2>2. events' = [events EXCEPT ![n] = rest]
    BY <1>2
  <2> HIDE DEF rest
  <2> QED BY <2>1, <2>2 DEF DiscoveryInvariant, DiscoveryTypeOK
<1> HIDE DEF event
<1>5. cache \in [Nodes -> Known] /\ cache[n] \in Known /\ typed[n] \in BOOLEAN
      /\ event.serial \in Serials /\ event.action \in {"add", "remove"}
  BY <1>3 DEF DiscoveryInvariant, DiscoveryTypeOK, Events
<1>6. /\ known \in Known /\ (idle => known = cache[n])
      /\ MayForget(cache[n], known)
  <2>1. CASE event.action = "add"
    <3>1. /\ known \in Known /\ known[event.serial] = Present(event.path)
          /\ \A s \in Serials : known[s] = NoEntry /\ cache[n][s] # NoEntry
               => s # event.serial /\ cache[n][s].path = event.path
      BY <1>1, <1>3, <1>5, <2>1, AddFacts
    <3> QED BY <1>5, <2>1, <3>1 DEF MayForget
  <2>2. CASE event.action = "remove"
    BY <1>1, <1>3, <1>5, <2>2, RemoveFacts DEF MayForget
  <2> QED BY <1>5, <2>1, <2>2
<1> HIDE DEF idle
<1>7. mishaps' \in 0..MaxMishaps
  BY <1>1, FailingType, FiniteCalls DEF DiscoveryInvariant, DiscoveryTypeOK
<1>8. report' \in [Nodes -> Known \cup {NoReport}]
  BY <1>1, <1>6 DEF UpdatePodAnnotation, DiscoveryInvariant, DiscoveryTypeOK
<1> DEFINE offered == IF idle \/ ~typed[n] THEN plugin[n] ELSE UpdateDevicePlugin(known)
<1>9. offered \in SUBSET (Serials \X Paths)
  BY <1>6, OfferType DEF DiscoveryInvariant, DiscoveryTypeOK
<1>10. Offers(pod[n], known, offered, typed[n])
  <2>1. Offers(pod[n], cache[n], plugin[n], typed[n]) /\ pod[n].phase \in {"running", "deaf"}
    BY <1>2 DEF DiscoveryInvariant, PluginInvariant, InLoop
  <2> QED BY <1>6, <2>1 DEF Offers
<1>11. /\ pod' = [pod EXCEPT ![n] = pod'[n]] /\ pod'[n] = pod[n]
       /\ cache' = [cache EXCEPT ![n] = cache'[n]] /\ cache'[n] = known
       /\ plugin' = [plugin EXCEPT ![n] = plugin'[n]] /\ plugin'[n] = offered
       /\ typed' = [typed EXCEPT ![n] = typed'[n]] /\ typed'[n] = typed[n]
       /\ pod[n] \in [phase : Phases, current : BOOLEAN]
  BY <1>1, <1>2 DEF DiscoveryInvariant, DiscoveryTypeOK
<1> HIDE DEF offered
<1>12. /\ cache' \in [Nodes -> Known]
       /\ plugin' \in [Nodes -> SUBSET (Serials \X Paths)]
       /\ PluginInvariant' /\ GraceStep
  BY <1>5, <1>6, <1>9, <1>10, <1>11, NodeStep
<1> QED BY <1>2, <1>4, <1>7, <1>8, <1>12 DEF DiscoveryInvariant, DiscoveryTypeOK

\* The periodic scan: the merge marks as lost what the cleanup does not touch
\* before the grace period is over, and the cleanup changes no offer.
LEMMA DevicesReconciled ==
  ASSUME DiscoveryInvariant, NEW n \in Nodes, ReconcileDevices(n)
  PROVE  DiscoveryInvariant' /\ GraceStep
<1>1. PICK scan \in BOOLEAN, patch \in BOOLEAN, cleanPatch \in BOOLEAN,
           seen \in DiscoverDevicesForSpec(n) :
       LET merged == IF scan THEN MergeScanIntoCache(n, seen) ELSE cache[n]
           kept == CleanupStaleDevices(merged)
           afterMerge == IF merged # cache[n]
                           THEN UpdatePodAnnotation(n, merged, patch) ELSE report[n]
       IN  /\ merged = cache[n] => patch
           /\ kept = merged => cleanPatch
           /\ Failing(<<scan, patch, cleanPatch>>)
           /\ cache' = [cache EXCEPT ![n] = kept]
           /\ report' = [report EXCEPT ![n] =
                           IF kept # merged /\ cleanPatch THEN kept ELSE afterMerge]
           /\ plugin' = [plugin EXCEPT ![n] =
                           IF merged # cache[n] THEN UpdateDevicePlugin(merged) ELSE @]
  BY Zenon DEF ReconcileDevices
<1>2. InLoop(n) /\ UNCHANGED <<bus, events, pod, typed>>
  BY Zenon DEF ReconcileDevices
<1> DEFINE merged == IF scan THEN MergeScanIntoCache(n, seen) ELSE cache[n]
           kept == CleanupStaleDevices(merged)
           afterMerge == IF merged # cache[n]
                           THEN UpdatePodAnnotation(n, merged, patch) ELSE report[n]
           offered == IF merged # cache[n] THEN UpdateDevicePlugin(merged) ELSE plugin[n]
<1>3. /\ bus \in [Serials -> Places] /\ cache \in [Nodes -> Known] /\ cache[n] \in Known
      /\ typed[n] \in BOOLEAN /\ pod[n] \in [phase : Phases, current : BOOLEAN]
      /\ report[n] \in Known \cup {NoReport} /\ plugin[n] \in SUBSET (Serials \X Paths)
  BY DEF DiscoveryInvariant, DiscoveryTypeOK
<1>4. /\ merged \in Known
      /\ \A s \in Serials : cache[n][s] # NoEntry =>
           /\ merged[s] # NoEntry
           /\ IsLost(merged[s]) => merged[s] = cache[n][s] \/ merged[s].age = 0
  <2>1. CASE scan
    <3>1. merged = MergeScanIntoCache(n, seen)
      BY <2>1
    <3> QED BY <1>3, <3>1, MergeFacts
  <2>2. CASE ~scan
    BY <1>3, <2>2
  <2> QED BY <2>1, <2>2
<1>5. /\ cache' = [cache EXCEPT ![n] = kept]
      /\ report' = [report EXCEPT ![n] =
                      IF kept # merged /\ cleanPatch THEN kept ELSE afterMerge]
      /\ plugin' = [plugin EXCEPT ![n] = offered]
  BY <1>1
<1>6. mishaps' \in 0..MaxMishaps
  BY <1>1, FailingType, FiniteCalls DEF DiscoveryInvariant, DiscoveryTypeOK
<1> HIDE DEF merged
<1>7. /\ kept \in Known
      /\ \A s \in Serials :
           /\ \/ kept[s] = merged[s]
              \/ kept[s] = NoEntry /\ IsLost(merged[s]) /\ merged[s].age > Grace
           /\ kept[s].available = merged[s].available
           /\ merged[s].available => kept[s].path = merged[s].path
  BY <1>4, CleanupFacts
<1>8. offered \in SUBSET (Serials \X Paths) /\ afterMerge \in Known \cup {NoReport}
  BY <1>3, <1>4, OfferType DEF UpdatePodAnnotation
<1> HIDE DEF kept, afterMerge
<1>9. MayForget(cache[n], kept)
  <2> SUFFICES ASSUME NEW s \in Serials, cache[n][s] # NoEntry, kept[s] = NoEntry
               PROVE  IsLost(cache[n][s]) /\ cache[n][s].age > Grace
    BY DEF MayForget
  <2>1. merged[s] # NoEntry /\ IsLost(merged[s]) /\ merged[s].age > Grace
    BY <1>4, <1>7
  <2>2. merged[s].age # 0
    BY <2>1, DiscoveryAssumption
  <2> QED BY <1>4, <2>1, <2>2
<1>10. UpdateDevicePlugin(kept) = UpdateDevicePlugin(merged)
  <2>1. \A s \in Serials : /\ merged[s].available = kept[s].available
                           /\ merged[s].available => merged[s].path = kept[s].path
    BY <1>7
  <2> QED BY <2>1, OfferDepends
<1>11. Offers(pod[n], kept, offered, typed[n])
  <2>1. Offers(pod[n], cache[n], plugin[n], typed[n]) /\ pod[n].phase \in {"running", "deaf"}
    BY <1>2 DEF DiscoveryInvariant, PluginInvariant, InLoop
  <2> QED BY <1>10, <2>1 DEF Offers
<1> HIDE DEF offered
<1>12. report' \in [Nodes -> Known \cup {NoReport}]
  BY <1>5, <1>7, <1>8 DEF DiscoveryInvariant, DiscoveryTypeOK
<1>13. /\ pod' = [pod EXCEPT ![n] = pod'[n]] /\ pod'[n] = pod[n]
       /\ cache' = [cache EXCEPT ![n] = cache'[n]] /\ cache'[n] = kept
       /\ plugin' = [plugin EXCEPT ![n] = plugin'[n]] /\ plugin'[n] = offered
       /\ typed' = [typed EXCEPT ![n] = typed'[n]] /\ typed'[n] = typed[n]
  BY <1>2, <1>5, SMTT(30) DEF DiscoveryInvariant, DiscoveryTypeOK
<1>14. /\ cache' \in [Nodes -> Known]
       /\ plugin' \in [Nodes -> SUBSET (Serials \X Paths)]
       /\ PluginInvariant' /\ GraceStep
  BY <1>3, <1>7, <1>8, <1>9, <1>11, <1>13, NodeStep
<1> QED BY <1>2, <1>6, <1>12, <1>14 DEF DiscoveryInvariant, DiscoveryTypeOK

\* A new template changes no process.
LEMMA TemplateChanges ==
  ASSUME DiscoveryInvariant, EnsureDiscoveryDaemonSet
  PROVE  DiscoveryInvariant' /\ GraceStep
<1> USE DEF EnsureDiscoveryDaemonSet
<1>1. /\ pod' \in [Nodes -> [phase : Phases, current : BOOLEAN]]
      /\ \A n \in Nodes : pod'[n].phase = pod[n].phase
  BY DEF DiscoveryInvariant, DiscoveryTypeOK
<1>2. DiscoveryTypeOK'
  BY <1>1, MishapType DEF DiscoveryInvariant, DiscoveryTypeOK
<1>3. PluginInvariant'
  BY <1>1 DEF DiscoveryInvariant, PluginInvariant, Offers, UpdateDevicePlugin
<1>4. GraceStep
  BY DEF GraceStep, MayForget
<1> QED BY <1>2, <1>3, <1>4 DEF DiscoveryInvariant

LEMMA DiscoveryStepKeeps ==
  ASSUME DiscoveryInvariant, DiscoveryStep
  PROVE  DiscoveryInvariant' /\ GraceStep
BY BusSteps, PodSteps, DiscoveryRuns, EventHandled, DevicesReconciled, TemplateChanges
   DEF DiscoveryStep

\* A tick ages what is lost and changes no offer.
LEMMA DiscoveryTickKeeps ==
  ASSUME DiscoveryInvariant, DiscoveryTick
  PROVE  DiscoveryInvariant' /\ GraceStep
<1>1. cache \in [Nodes -> Known] /\ report \in [Nodes -> Known \cup {NoReport}]
  BY DEF DiscoveryInvariant, DiscoveryTypeOK
<1>2. /\ cache' = [n \in Nodes |-> Older(cache[n])]
      /\ report' = [n \in Nodes |-> Older(report[n])]
      /\ UNCHANGED <<bus, events, pod, plugin, typed, mishaps>>
  BY DEF DiscoveryTick
<1>3. cache' \in [Nodes -> Known]
  BY <1>1, <1>2, OlderFacts
<1>4. report' \in [Nodes -> Known \cup {NoReport}]
  BY <1>1, <1>2, OlderFacts, OlderNoReport
<1>5. ASSUME NEW n \in Nodes
      PROVE  /\ cache'[n] = Older(cache[n])
             /\ UpdateDevicePlugin(cache'[n]) = UpdateDevicePlugin(cache[n])
             /\ cache[n] = Nothing => cache'[n] = Nothing
             /\ MayForget(cache[n], cache'[n])
  <2>1. cache'[n] = Older(cache[n]) /\ cache[n] \in Known /\ Older(cache[n]) \in Known
    BY <1>1, <1>2, OlderFacts
  <2>2. \A s \in Serials : /\ Older(cache[n])[s] = NoEntry <=> cache[n][s] = NoEntry
                           /\ Older(cache[n])[s].available = cache[n][s].available
                           /\ Older(cache[n])[s].path = cache[n][s].path
    BY <2>1, OlderFacts
  <2>3. UpdateDevicePlugin(cache'[n]) = UpdateDevicePlugin(cache[n])
    BY <2>1, <2>2, OfferDepends
  <2>4. cache[n] = Nothing => cache'[n] = Nothing
    BY <2>1, <2>2 DEF Nothing, Known
  <2> QED BY <2>1, <2>2, <2>3, <2>4 DEF MayForget
<1>6. PluginInvariant'
  <2> SUFFICES ASSUME NEW n \in Nodes
               PROVE  Offers(pod[n], cache'[n], plugin[n], typed[n])
    BY <1>2 DEF PluginInvariant, Offers, UpdateDevicePlugin
  <2>1. Offers(pod[n], cache[n], plugin[n], typed[n])
    BY DEF DiscoveryInvariant, PluginInvariant
  <2> QED BY <1>5, <2>1 DEF Offers
<1>7. GraceStep
  BY <1>5 DEF GraceStep
<1> QED BY <1>2, <1>3, <1>4, <1>6, <1>7 DEF DiscoveryInvariant, DiscoveryTypeOK
-----------------------------------------------------------------------------
\* The pool and the agents.

Targets == [serial : Serials, node : Nodes]
Reconciles ==
  [pc : {"idle", "ensure", "create", "reap", "stale"}, devices : Aggregate,
   todo : SUBSET Serials, target : Targets \cup {NoTarget},
   deferred : BOOLEAN, failed : BOOLEAN]

(* The inductive invariant: the path of a new agent is one that a bus can  *)
(* assign because the entry it comes from is that of an available device.  *)
AgentInvariant ==
  /\ deploy \in [Serials -> Agents]
  /\ rec \in Reconciles
  /\ rec.pc = "create" => rec.target \in Targets
  /\ CreationIsFresh

PoolInvariant == pool \in [phase : PoolPhases, devices : Aggregate] /\ poolAge \in Ages

FleetInvariant == DiscoveryInvariant /\ PoolInvariant /\ AgentInvariant

KeptStep ==
  \A s \in Serials :
    /\ deploy[s] # NoAgent /\ deploy'[s] = NoAgent
    /\ \E n \in Nodes : rec.devices[n][s].available
    => /\ rec'.pc = "create" /\ rec'.target.serial = s
       /\ rec.devices[rec'.target.node][s].available
       /\ DiscoveryCurrentOnNode(rec'.target.node)
       /\ deploy[s].node # rec'.target.node \/ deploy[s].outdated

LEMMA NothingFetched ==
  /\ NoDevices \in Aggregate
  /\ NoReconcile \in Reconciles /\ NoReconcile.pc = "idle"
BY NothingType DEF NoDevices, Aggregate, NoReconcile, Reconciles, NoTarget

\* An agent that is deployed has a node.
LEMMA AgentFacts ==
  ASSUME NEW a \in Agents
  PROVE  /\ a # NoAgent => a \in [node : Nodes, path : Paths, outdated : BOOLEAN]
         /\ a.node \in Nodes => a # NoAgent
         /\ NoAgent \in Agents
<1>1. NoAgent.node = "none"
  BY DEF NoAgent
<1> QED BY <1>1, DiscoveryAssumption DEF Agents

\* A step that changes nothing of the discovery pods but the number of mishaps.
LEMMA DiscoveryStays ==
  ASSUME DiscoveryInvariant, UNCHANGED <<bus, events, pod, cache, report, plugin, typed>>,
         mishaps' \in 0..MaxMishaps
  PROVE  DiscoveryInvariant' /\ GraceStep
BY QuietStep DEF DiscoveryInvariant, DiscoveryTypeOK

LEMMA CallFails ==
  ASSUME DiscoveryInvariant, Failing(<<FALSE>>)
  PROVE  mishaps' \in 0..MaxMishaps
BY FailingType, FiniteCalls DEF DiscoveryInvariant, DiscoveryTypeOK

LEMMA DeletesFail ==
  ASSUME DiscoveryInvariant, NEW kept \in SUBSET Serials, Failing([s \in kept |-> FALSE])
  PROVE  mishaps' \in 0..MaxMishaps
<1>1. IsFiniteSet(DOMAIN [s \in kept |-> FALSE])
  BY DiscoveryAssumption, FS_Subset
<1> QED BY <1>1, FailingType DEF DiscoveryInvariant, DiscoveryTypeOK

\* The serials a status lists.
LEMMA DiscoveredFacts ==
  ASSUME NEW devices \in Aggregate
  PROVE  /\ Discovered(devices) \in SUBSET Serials
         /\ \A s \in Serials, n \in Nodes :
              /\ devices[n][s] \in Entries
              /\ devices[n][s].available =>
                   s \in Discovered(devices) /\ devices[n][s].path \in Paths
                     /\ devices[n][s] # NoEntry /\ ~IsLost(devices[n][s])
<1>1. \A s \in Serials, n \in Nodes : devices[n][s] \in Entries
  BY DEF Aggregate, Known
<1>2. \A s \in Serials, n \in Nodes : devices[n][s].available =>
        devices[n][s] # NoEntry /\ devices[n][s].path \in Paths /\ ~IsLost(devices[n][s])
  BY <1>1, EntryFields DEF IsLost
<1> QED BY <1>1, <1>2 DEF Discovered

LEMMA PoolReconciled ==
  ASSUME FleetInvariant, ReconcilePool
  PROVE  FleetInvariant' /\ GraceStep /\ KeptStep
<1>1. /\ UNCHANGED <<bus, events, pod, cache, report, plugin, typed>>
      /\ UNCHANGED <<poolAge, deploy, rec>>
  BY DEF ReconcilePool
<1>2. CollectPodReports \in Aggregate
  BY NothingType DEF CollectPodReports, Aggregate, FleetInvariant, DiscoveryInvariant, DiscoveryTypeOK
<1>3. AggregateDevices \subseteq PoolPhases
  BY DEF AggregateDevices, PoolPhases
<1>4. mishaps' \in 0..MaxMishaps
  BY CallFails DEF ReconcilePool, FleetInvariant, DiscoveryInvariant, DiscoveryTypeOK
<1>5. pool' \in [phase : PoolPhases, devices : Aggregate]
  BY <1>2, <1>3, NothingFetched DEF ReconcilePool, UpdatePoolStatus, PoolPhases
<1>6. PoolInvariant'
  BY <1>1, <1>5 DEF PoolInvariant, FleetInvariant
<1>7. AgentInvariant'
  BY <1>1 DEF AgentInvariant, FleetInvariant, CreationIsFresh
<1>8. DiscoveryInvariant' /\ GraceStep
  BY <1>1, <1>4, DiscoveryStays DEF FleetInvariant
<1>9. KeptStep
  BY <1>1 DEF KeptStep
<1> QED BY <1>6, <1>7, <1>8, <1>9 DEF FleetInvariant

LEMMA ReconcileBegins ==
  ASSUME FleetInvariant, BeginReconcile
  PROVE  AgentInvariant' /\ KeptStep
<1>1. pool.devices \in Aggregate /\ Discovered(pool.devices) \in SUBSET Serials
  BY DiscoveredFacts DEF FleetInvariant, PoolInvariant
<1>2. UNCHANGED deploy
  BY SMTT(30) DEF BeginReconcile
<1>3. rec' \in Reconciles /\ rec'.pc \in {"ensure", "stale"}
  BY <1>1, NothingFetched DEF BeginReconcile, NoReconcile, Reconciles
<1> QED BY <1>2, <1>3 DEF AgentInvariant, FleetInvariant, CreationIsFresh, KeptStep

\* Leaving a serial, whatever the outcome, keeps the reconcile well formed.
LEMMA LeavingSerial ==
  ASSUME AgentInvariant, NEW s \in Serials
  PROVE  /\ Done(s) \in Reconciles /\ Done(s).pc = rec.pc
         /\ Deferred(s) \in Reconciles /\ Deferred(s).pc = rec.pc
         /\ Failed(s) \in Reconciles /\ Failed(s).pc = rec.pc
<1>1. rec \in Reconciles
  BY DEF AgentInvariant
<1>2. Done(s) \in Reconciles /\ Done(s).pc = rec.pc
  BY <1>1 DEF Done, Reconciles
<1>3. Deferred(s) \in Reconciles /\ Deferred(s).pc = rec.pc
  BY <1>2 DEF Deferred, Reconciles
<1>4. Failed(s) \in Reconciles /\ Failed(s).pc = rec.pc
  BY <1>2 DEF Failed, Reconciles
<1> QED BY <1>2, <1>3, <1>4

LEMMA AgentEnsured ==
  ASSUME FleetInvariant, NEW s \in Serials, NEW n \in Nodes, EnsureAgentOnNode(s, n),
         rec.pc = "ensure", s \in rec.todo, rec.devices[n][s].available
  PROVE  AgentInvariant' /\ KeptStep /\ mishaps' \in 0..MaxMishaps
<1> DEFINE creating == [rec EXCEPT !.pc = "create", !.target = [serial |-> s, node |-> n]]
<1>1. rec \in Reconciles /\ deploy \in [Serials -> Agents] /\ mishaps \in 0..MaxMishaps
  BY DEF FleetInvariant, AgentInvariant, DiscoveryInvariant, DiscoveryTypeOK
<1>2. /\ creating \in Reconciles /\ creating.pc = "create" /\ creating.devices = rec.devices
      /\ creating.todo = rec.todo
      /\ creating.target = [serial |-> s, node |-> n] /\ creating.target \in Targets
  BY <1>1 DEF Reconciles, Targets
<1> HIDE DEF creating
<1>3. CASE rec' \in {Done(s), Deferred(s), Failed(s)} /\ UNCHANGED deploy
  <2>1. rec' \in Reconciles /\ rec'.pc = "ensure"
    BY <1>3, LeavingSerial DEF FleetInvariant
  <2> QED BY <1>1, <1>3, <2>1, CallFails
          DEF AgentInvariant, CreationIsFresh, KeptStep, EnsureAgentOnNode, FleetInvariant
<1>4. CASE /\ rec' = creating /\ UNCHANGED mishaps
           /\ \/ deploy[s] = NoAgent /\ UNCHANGED deploy
              \/ /\ deploy[s].node # n \/ AgentNeedsUpdate(s)
                 /\ DiscoveryCurrentOnNode(n)
                 /\ deploy' = [deploy EXCEPT ![s] = NoAgent]
  <2>1. /\ deploy' \in [Serials -> Agents] /\ deploy'[s] = NoAgent
        /\ \A t \in Serials \ {s} : deploy'[t] = deploy[t]
    BY <1>1, <1>4, AgentFacts
  <2>2. AgentInvariant'
    BY <1>2, <1>4, <2>1, SMTT(30) DEF AgentInvariant, CreationIsFresh
  <2>3. KeptStep
    BY <1>2, <1>4, <2>1 DEF KeptStep, AgentNeedsUpdate
  <2> QED BY <1>1, <1>4, <2>2, <2>3
<1> QED BY <1>3, <1>4 DEF EnsureAgentOnNode, creating

LEMMA AgentDeployed ==
  ASSUME FleetInvariant, NEW s \in Serials, EnsureAgentDeployment(s)
  PROVE  AgentInvariant' /\ KeptStep /\ mishaps' \in 0..MaxMishaps
<1> DEFINE active == {n \in Nodes : rec.devices[n][s].available}
           lost == {n \in Nodes : IsLost(rec.devices[n][s])}
<1>1. /\ rec.pc = "ensure" /\ s \in rec.todo
      /\ \/ \E a \in active, l \in lost :
              IF rec.devices[l][s].age < Grace
                THEN EnsureAgentOnNode(s, a) ELSE SkipSerial(s)
         \/ /\ lost = {}
            /\ \E a \in active : EnsureAgentOnNode(s, a)
         \/ /\ active = {}
            /\ \E l \in lost :
                 IF rec.devices[l][s].age > Grace THEN DeleteAgent(s) ELSE SkipSerial(s)
  BY Zenon DEF EnsureAgentDeployment
<1>2. \A a \in active : a \in Nodes /\ rec.devices[a][s].available
  OBVIOUS
<1>3. active = {} => \A n \in Nodes : ~rec.devices[n][s].available
  OBVIOUS
<1>4. \/ \E a \in active : EnsureAgentOnNode(s, a)
      \/ SkipSerial(s)
      \/ active = {} /\ DeleteAgent(s)
  <2> HIDE DEF active, lost
  <2> QED BY <1>1
<1> HIDE DEF active, lost
<1>5. /\ rec \in Reconciles /\ deploy \in [Serials -> Agents] /\ mishaps \in 0..MaxMishaps
      /\ DiscoveryInvariant /\ AgentInvariant
  BY DEF FleetInvariant, AgentInvariant, DiscoveryInvariant, DiscoveryTypeOK
<1>6. ASSUME NEW a \in active, EnsureAgentOnNode(s, a)
      PROVE  AgentInvariant' /\ KeptStep /\ mishaps' \in 0..MaxMishaps
  BY <1>1, <1>2, <1>6, AgentEnsured
<1>7. ASSUME rec' \in {Done(s), Failed(s)}, deploy' \in [Serials -> Agents]
      PROVE  AgentInvariant'
  <2>1. rec' \in Reconciles /\ rec'.pc = "ensure"
    BY <1>1, <1>5, <1>7, LeavingSerial
  <2> QED BY <1>7, <2>1 DEF AgentInvariant, CreationIsFresh
<1>8. CASE SkipSerial(s)
  BY <1>5, <1>7, <1>8 DEF SkipSerial, KeptStep
<1>9. CASE active = {} /\ DeleteAgent(s)
  <2>1. CASE /\ deploy' = [deploy EXCEPT ![s] = NoAgent]
             /\ rec' = Done(s) /\ UNCHANGED mishaps
    <3>1. deploy' \in [Serials -> Agents] /\ \A t \in Serials \ {s} : deploy'[t] = deploy[t]
      BY <1>5, <2>1, AgentFacts
    <3>2. KeptStep
      BY <1>3, <1>9, <3>1 DEF KeptStep
    <3> QED BY <1>5, <1>7, <2>1, <3>1, <3>2
  <2>2. CASE rec' = Failed(s) /\ Failing(<<FALSE>>) /\ UNCHANGED deploy
    <3>1. KeptStep
      BY <2>2 DEF KeptStep
    <3> QED BY <1>5, <1>7, <2>2, <3>1, CallFails
  <2> QED BY <1>9, <2>1, <2>2 DEF DeleteAgent
<1> QED BY <1>4, <1>6, <1>8, <1>9

LEMMA AgentCreated ==
  ASSUME FleetInvariant, CreateAgentDeployment
  PROVE  AgentInvariant' /\ KeptStep /\ mishaps' \in 0..MaxMishaps
<1> DEFINE s == rec.target.serial
           n == rec.target.node
           Back(r) == [r EXCEPT !.pc = "ensure", !.target = NoTarget]
           agent == [node |-> n, path |-> rec.devices[n][s].path, outdated |-> FALSE]
<1>1. /\ rec.pc = "create"
      /\ \/ /\ deploy' = [deploy EXCEPT ![s] = agent]
            /\ rec' = Back(Done(s))
            /\ UNCHANGED mishaps
         \/ /\ rec' = Back(Failed(s))
            /\ Failing(<<FALSE>>)
            /\ UNCHANGED deploy
         \/ /\ rec' = Back(Deferred(s))
            /\ UNCHANGED <<deploy, mishaps>>
  BY Zenon DEF CreateAgentDeployment
<1>2. /\ rec \in Reconciles /\ deploy \in [Serials -> Agents] /\ mishaps \in 0..MaxMishaps
      /\ DiscoveryInvariant /\ AgentInvariant /\ rec.target \in Targets /\ CreationIsFresh
  BY <1>1 DEF FleetInvariant, AgentInvariant, DiscoveryInvariant, DiscoveryTypeOK
<1>3. s \in Serials /\ n \in Nodes /\ rec.devices[n][s].available /\ rec.devices \in Aggregate
  BY <1>1, <1>2 DEF CreationIsFresh, Targets, Reconciles
<1>4. agent \in Agents /\ agent # NoAgent
  <2>1. rec.devices[n][s].path \in Paths
    BY <1>3, DiscoveredFacts, SMTT(30)
  <2>2. agent \in Agents /\ agent.node \in Nodes
    BY <1>3, <2>1 DEF Agents
  <2> QED BY <2>2, AgentFacts
<1>5. ASSUME NEW r \in Reconciles
      PROVE  Back(r) \in Reconciles /\ Back(r).pc = "ensure"
  BY DEF Reconciles
<1> HIDE DEF s, n, Back, agent
<1>6. rec' \in Reconciles /\ rec'.pc = "ensure"
  BY <1>1, <1>2, <1>3, <1>5, LeavingSerial
<1>7. deploy' \in [Serials -> Agents] /\ \A t \in Serials : deploy'[t] = NoAgent => deploy[t] = NoAgent
  BY <1>1, <1>2, <1>3, <1>4
<1>8. mishaps' \in 0..MaxMishaps
  BY <1>1, <1>2, CallFails
<1> QED BY <1>6, <1>7, <1>8 DEF AgentInvariant, CreationIsFresh, KeptStep

LEMMA EnsureFinished ==
  ASSUME FleetInvariant, FinishEnsure
  PROVE  AgentInvariant' /\ KeptStep
<1>1. rec \in Reconciles /\ UNCHANGED deploy
  BY DEF FleetInvariant, AgentInvariant, FinishEnsure
<1>2. rec' \in Reconciles /\ rec'.pc \in {"idle", "reap"}
  BY <1>1, NothingFetched DEF FinishEnsure, Reconciles
<1> QED BY <1>1, <1>2 DEF AgentInvariant, FleetInvariant, CreationIsFresh, KeptStep

\* The agents that are reaped have no device in the status, available or lost.
LEMMA OrphansReaped ==
  ASSUME FleetInvariant, ReapOrphanedAgents
  PROVE  AgentInvariant' /\ KeptStep /\ mishaps' \in 0..MaxMishaps
<1> DEFINE orphans == {s \in Serials : deploy[s] # NoAgent} \ Discovered(rec.devices)
<1>1. PICK kept \in SUBSET orphans :
        /\ Failing([s \in kept |-> FALSE])
        /\ deploy' = [s \in Serials |-> IF s \in orphans \ kept THEN NoAgent ELSE deploy[s]]
  BY Zenon DEF ReapOrphanedAgents
<1>2. rec \in Reconciles /\ deploy \in [Serials -> Agents] /\ rec.devices \in Aggregate
  BY DEF FleetInvariant, AgentInvariant, Reconciles
<1>3. rec' \in Reconciles /\ rec'.pc = "stale"
  BY <1>2 DEF ReapOrphanedAgents, Reconciles
<1>4. deploy' \in [Serials -> Agents]
  BY <1>1, <1>2, AgentFacts
<1>5. KeptStep
  BY <1>1, <1>2, DiscoveredFacts DEF KeptStep
<1>6. mishaps' \in 0..MaxMishaps
  BY <1>1, DeletesFail DEF FleetInvariant
<1> QED BY <1>3, <1>4, <1>5, <1>6 DEF AgentInvariant, CreationIsFresh

\* With a device available in the status, no agent is stale.
LEMMA StaleCleaned ==
  ASSUME FleetInvariant, CleanupStaleAgents
  PROVE  AgentInvariant' /\ KeptStep /\ mishaps' \in 0..MaxMishaps
<1>1. /\ rec \in Reconciles /\ deploy \in [Serials -> Agents] /\ rec.devices \in Aggregate
      /\ mishaps \in 0..MaxMishaps
  BY DEF FleetInvariant, AgentInvariant, Reconciles, DiscoveryInvariant, DiscoveryTypeOK
<1>2. rec' \in Reconciles /\ rec'.pc = "idle"
  BY NothingFetched DEF CleanupStaleAgents
<1>3. CASE UNCHANGED <<deploy, mishaps>>
  BY <1>1, <1>2, <1>3 DEF AgentInvariant, CreationIsFresh, KeptStep
<1>4. CASE StaleAgents(rec.devices)
  <2>1. PICK kept \in SUBSET {s \in Serials : deploy[s] # NoAgent} :
          /\ Failing([s \in kept |-> FALSE])
          /\ deploy' = [s \in Serials |-> IF s \in kept THEN deploy[s] ELSE NoAgent]
    BY <1>4, Zenon DEF CleanupStaleAgents
  <2>2. deploy' \in [Serials -> Agents]
    BY <1>1, <2>1, AgentFacts
  <2>3. ASSUME NEW s \in Serials, NEW n \in Nodes
        PROVE  ~rec.devices[n][s].available
    <3> SUFFICES ASSUME rec.devices[n][s].available PROVE FALSE
      OBVIOUS
    <3> DEFINE e == <<n, s>>
    <3>1. e \in Nodes \X Serials /\ e[1] = n /\ e[2] = s
      OBVIOUS
    <3>2. rec.devices[n][s] # NoEntry /\ ~IsLost(rec.devices[n][s])
      BY <1>1, DiscoveredFacts
    <3>3. \A d \in Nodes \X Serials :
            rec.devices[d[1]][d[2]] # NoEntry => IsLost(rec.devices[d[1]][d[2]])
      BY <1>4 DEF StaleAgents
    <3> QED BY <3>1, <3>2, <3>3
  <2>4. KeptStep
    BY <2>3 DEF KeptStep
  <2>5. mishaps' \in 0..MaxMishaps
    BY <2>1, DeletesFail DEF FleetInvariant
  <2> QED BY <1>2, <2>2, <2>4, <2>5 DEF AgentInvariant, CreationIsFresh
<1> QED BY <1>3, <1>4 DEF CleanupStaleAgents

LEMMA ReconcileStepKeeps ==
  ASSUME FleetInvariant, ReconcileStep
  PROVE  FleetInvariant' /\ GraceStep /\ KeptStep
<1>1. /\ UNCHANGED <<bus, events, pod, cache, report, plugin, typed>>
      /\ UNCHANGED <<pool, poolAge>>
  BY Zenon DEF ReconcileStep, BeginReconcile, EnsureAgentDeployment, CreateAgentDeployment,
         FinishEnsure, ReapOrphanedAgents, CleanupStaleAgents, discoveryVars
<1>2. mishaps \in 0..MaxMishaps
  BY DEF FleetInvariant, DiscoveryInvariant, DiscoveryTypeOK
<1>3. BeginReconcile \/ FinishEnsure => mishaps' \in 0..MaxMishaps
  BY <1>2 DEF BeginReconcile, FinishEnsure, discoveryVars
<1>4. AgentInvariant' /\ KeptStep /\ mishaps' \in 0..MaxMishaps
  BY <1>3, ReconcileBegins, AgentDeployed, AgentCreated, EnsureFinished, OrphansReaped, StaleCleaned
     DEF ReconcileStep
<1>5. DiscoveryInvariant' /\ GraceStep
  BY <1>1, <1>4, DiscoveryStays DEF FleetInvariant
<1>6. PoolInvariant'
  BY <1>1 DEF PoolInvariant, FleetInvariant
<1> QED BY <1>4, <1>5, <1>6 DEF FleetInvariant

LEMMA OperatorUpgraded ==
  ASSUME FleetInvariant, UpgradeOperator
  PROVE  FleetInvariant' /\ GraceStep /\ KeptStep
<1>1. /\ UNCHANGED <<bus, events, pod, cache, report, plugin, typed>>
      /\ UNCHANGED <<pool, poolAge>>
      /\ rec' = NoReconcile
      /\ deploy' = [s \in Serials |->
                      IF deploy[s] = NoAgent THEN NoAgent ELSE [deploy[s] EXCEPT !.outdated = TRUE]]
  BY DEF UpgradeOperator
<1>2. ASSUME NEW s \in Serials
      PROVE  deploy'[s] \in Agents /\ (deploy'[s] = NoAgent => deploy[s] = NoAgent)
  <2>1. deploy[s] \in Agents
    BY DEF FleetInvariant, AgentInvariant
  <2>2. CASE deploy[s] = NoAgent
    BY <1>1, <2>1, <2>2
  <2>3. CASE deploy[s] # NoAgent
    <3>1. deploy[s] \in [node : Nodes, path : Paths, outdated : BOOLEAN]
      BY <2>1, <2>3, AgentFacts
    <3>2. deploy'[s] = [deploy[s] EXCEPT !.outdated = TRUE]
      BY <1>1, <2>3
    <3>3. deploy'[s] \in Agents /\ deploy'[s].node \in Nodes
      BY <3>1, <3>2 DEF Agents
    <3> QED BY <3>3, AgentFacts
  <2> QED BY <2>2, <2>3
<1>3. deploy' \in [Serials -> Agents]
  <2>1. \A s \in Serials : deploy'[s] \in Agents
    BY <1>2
  <2> QED BY <1>1, <2>1
<1>4. AgentInvariant' /\ KeptStep
  BY <1>1, <1>2, <1>3, NothingFetched DEF AgentInvariant, CreationIsFresh, KeptStep
<1>5. mishaps' \in 0..MaxMishaps
  BY MishapType DEF UpgradeOperator, FleetInvariant, DiscoveryInvariant, DiscoveryTypeOK
<1>6. DiscoveryInvariant' /\ GraceStep
  BY <1>1, <1>5, DiscoveryStays DEF FleetInvariant
<1>7. PoolInvariant'
  BY <1>1 DEF PoolInvariant, FleetInvariant
<1> QED BY <1>4, <1>6, <1>7 DEF FleetInvariant

\* A tick leaves what is available so, in the status a reconcile works from too.
LEMMA TickKeeps ==
  ASSUME FleetInvariant, Tick
  PROVE  FleetInvariant' /\ GraceStep /\ KeptStep
<1> DEFINE OlderAll(devices) == [n \in Nodes |-> Older(devices[n])]
<1>1. /\ pool' = [pool EXCEPT !.devices = OlderAll(pool.devices)]
      /\ rec' = [rec EXCEPT !.devices = OlderAll(rec.devices)]
      /\ poolAge' = IF poolAge < AgeCap THEN poolAge + 1 ELSE poolAge
      /\ UNCHANGED deploy
  BY DEF Tick
<1>2. ASSUME NEW devices \in Aggregate
      PROVE  /\ OlderAll(devices) \in Aggregate
             /\ \A n \in Nodes, s \in Serials :
                  OlderAll(devices)[n][s].available = devices[n][s].available
  BY OlderFacts DEF Aggregate
<1> HIDE DEF OlderAll
<1>3. DiscoveryInvariant' /\ GraceStep
  BY DiscoveryTickKeeps DEF Tick, FleetInvariant
<1>4. poolAge' \in Ages
  BY <1>1, AgeFacts DEF FleetInvariant, PoolInvariant
<1>5. pool' \in [phase : PoolPhases, devices : Aggregate]
  BY <1>1, <1>2 DEF FleetInvariant, PoolInvariant
<1>6. /\ rec' \in Reconciles /\ rec'.pc = rec.pc /\ rec'.target = rec.target /\ rec'.todo = rec.todo
      /\ rec'.devices = OlderAll(rec.devices) /\ rec.devices \in Aggregate
  BY <1>1, <1>2 DEF FleetInvariant, AgentInvariant, Reconciles
<1>7. AgentInvariant'
  BY <1>1, <1>2, <1>6 DEF FleetInvariant, AgentInvariant, CreationIsFresh, Targets
<1>8. KeptStep
  BY <1>1 DEF KeptStep
<1> QED BY <1>3, <1>4, <1>5, <1>7, <1>8 DEF FleetInvariant, PoolInvariant

LEMMA FleetStepKeeps ==
  ASSUME FleetInvariant, [FleetNext]_allVars
  PROVE  FleetInvariant' /\ GraceStep /\ KeptStep
<1>1. CASE DiscoveryStep /\ UNCHANGED fleetVars
  <2>1. DiscoveryInvariant' /\ GraceStep
    BY <1>1, DiscoveryStepKeeps DEF FleetInvariant
  <2>2. UNCHANGED <<pool, poolAge, deploy, rec>>
    BY <1>1 DEF fleetVars
  <2>3. PoolInvariant' /\ AgentInvariant'
    BY <2>2 DEF FleetInvariant, PoolInvariant, AgentInvariant, CreationIsFresh
  <2>4. KeptStep
    BY <2>2 DEF KeptStep
  <2> QED BY <2>1, <2>3, <2>4 DEF FleetInvariant
<1>2. CASE UNCHANGED allVars
  <2>1. /\ UNCHANGED <<bus, events, pod, cache, report, plugin, typed, mishaps>>
        /\ UNCHANGED <<pool, poolAge, deploy, rec>>
    BY <1>2 DEF allVars, discoveryVars, fleetVars
  <2>2. DiscoveryInvariant' /\ GraceStep
    <3>1. mishaps' \in 0..MaxMishaps
      BY <2>1, SMTT(30) DEF FleetInvariant, DiscoveryInvariant, DiscoveryTypeOK
    <3> QED BY <2>1, <3>1, DiscoveryStays DEF FleetInvariant
  <2>3. PoolInvariant' /\ AgentInvariant'
    BY <2>1, ZenonT(30) DEF FleetInvariant, PoolInvariant, AgentInvariant, CreationIsFresh
  <2>4. KeptStep
    BY <2>1 DEF KeptStep
  <2> QED BY <2>2, <2>3, <2>4 DEF FleetInvariant
<1> QED BY <1>1, <1>2, PoolReconciled, ReconcileStepKeeps, OperatorUpgraded, TickKeeps DEF FleetNext

\* Where a device that is on a node is plugged in.
LEMMA PlaceFacts ==
  ASSUME NEW place \in Places
  PROVE  /\ place.node \in Nodes \/ place # Unplugged => place \in [node : Nodes, path : Paths]
         /\ place.path \in Paths \/ place = Unplugged
<1>1. Unplugged.node \notin Nodes
  BY DiscoveryAssumption DEF Unplugged
<1> QED BY <1>1 DEF Places

LEMMA FreshFleet == FleetInit => FleetInvariant
<1> SUFFICES ASSUME FleetInit PROVE FleetInvariant
  OBVIOUS
<1>1. DiscoveryTypeOK
  BY NothingType, DiscoveryAssumption DEF FleetInit, DiscoveryInit, DiscoveryTypeOK, Phases
<1>2. PluginInvariant
  BY DEF FleetInit, DiscoveryInit, PluginInvariant, Offers
<1>3. PoolInvariant
  BY NothingFetched, AgeFacts DEF FleetInit, PoolInvariant, PoolPhases
<1>4. AgentInvariant
  BY NothingFetched DEF FleetInit, AgentInvariant, CreationIsFresh, Agents
<1> QED BY <1>1, <1>2, <1>3, <1>4 DEF FleetInvariant, DiscoveryInvariant

LEMMA SettledFleet == Settled => FleetInvariant
<1> SUFFICES ASSUME Settled PROVE FleetInvariant
  OBVIOUS
<1> DEFINE known(n) == [s \in Serials |->
                          IF bus[s].node = n THEN Present(bus[s].path) ELSE NoEntry]
<1>1. /\ bus \in [Serials -> Places]
      /\ events = [n \in Nodes |-> <<>>]
      /\ pod = [n \in Nodes |-> [phase |-> "running", current |-> TRUE]]
      /\ cache = [n \in Nodes |-> known(n)]
      /\ report = cache
      /\ plugin = [n \in Nodes |-> UpdateDevicePlugin(cache[n])]
      /\ typed = [n \in Nodes |-> TRUE]
      /\ mishaps \in 0..MaxMishaps
      /\ pool = [phase |-> "Ready", devices |-> cache]
      /\ poolAge = AgeCap
      /\ deploy = [s \in Serials |->
                     IF bus[s] = Unplugged THEN NoAgent
                     ELSE [node |-> bus[s].node, path |-> bus[s].path, outdated |-> FALSE]]
      /\ rec = NoReconcile
  BY Zenon DEF Settled
<1>2. ASSUME NEW n \in Nodes
      PROVE  known(n) \in Known
  <2>1. ASSUME NEW s \in Serials
        PROVE  known(n)[s] \in Entries
    BY <1>1, PlaceFacts, PresentType, NothingType
  <2> QED BY <2>1 DEF Known
<1>3. cache \in [Nodes -> Known]
  <2> HIDE DEF known
  <2> QED BY <1>1, <1>2, SMTT(30)
<1> HIDE DEF known
<1>4. DiscoveryTypeOK
  <2>1. plugin \in [Nodes -> SUBSET (Serials \X Paths)]
    BY <1>1, <1>3, OfferType
  <2>2. /\ events \in [Nodes -> Seq(Events)] /\ \A n \in Nodes : Len(events[n]) <= EventBuffer
        /\ pod \in [Nodes -> [phase : Phases, current : BOOLEAN]] /\ typed \in [Nodes -> BOOLEAN]
    BY <1>1, DiscoveryAssumption DEF Phases
  <2> QED BY <1>1, <1>3, <2>1, <2>2 DEF DiscoveryTypeOK
<1>5. PluginInvariant
  BY <1>1, <1>3 DEF PluginInvariant, Offers
<1>6. PoolInvariant
  BY <1>1, <1>3, AgeFacts DEF PoolInvariant, PoolPhases, Aggregate
<1>7. deploy \in [Serials -> Agents]
  <2>1. ASSUME NEW s \in Serials
        PROVE  (IF bus[s] = Unplugged THEN NoAgent
                ELSE [node |-> bus[s].node, path |-> bus[s].path, outdated |-> FALSE]) \in Agents
    <3>1. CASE bus[s] = Unplugged
      BY <3>1 DEF Agents
    <3>2. CASE bus[s] # Unplugged
      <4>1. bus[s].node \in Nodes /\ bus[s].path \in Paths
        BY <1>1, <3>2, PlaceFacts, SMTT(30)
      <4> QED BY <3>2, <4>1 DEF Agents
    <3> QED BY <3>1, <3>2
  <2> QED BY <1>1, <2>1
<1>8. AgentInvariant
  BY <1>1, <1>7, NothingFetched DEF AgentInvariant, CreationIsFresh
<1> QED BY <1>4, <1>5, <1>6, <1>8 DEF FleetInvariant, DiscoveryInvariant

LEMMA FleetInvariantHolds == FleetSpec => []FleetInvariant
<1>1. FleetStart => FleetInvariant
  BY FreshFleet, SettledFleet DEF FleetStart
<1>2. FleetInvariant /\ [FleetNext]_allVars => FleetInvariant'
  BY FleetStepKeeps
<1> QED BY <1>1, <1>2, PTL DEF FleetSpec

(* In an installation of any size, from an empty start or a settled one,   *)
(* the caches, reports, status and Deployments stay well formed: the       *)
(* event channel is never longer than its buffer, and an agent is only     *)
(* ever created with a path that a bus assigned (createAgentDeployment).   *)
THEOREM FleetTypes == FleetSpec => []FleetTypeOK
<1>1. FleetInvariant => FleetTypeOK
  BY DEF FleetInvariant, DiscoveryInvariant, PoolInvariant, AgentInvariant, FleetTypeOK,
         Reconciles, Targets
<1> QED BY <1>1, FleetInvariantHolds, PTL

(* The grace period of cleanupStaleDevices is honoured by every process in *)
(* its main loop, for any number of nodes, devices and paths, any buffer   *)
(* and any grace period.                                                   *)
THEOREM GraceHonoured == FleetSpec => GraceIsHonoured
<1>1. FleetInvariant /\ [FleetNext]_allVars =>
        [\A n \in Nodes, s \in Serials :
           InLoop(n) /\ InLoop(n)' /\ cache[n][s] # NoEntry /\ cache'[n][s] = NoEntry
             => \/ IsLost(cache[n][s]) /\ cache[n][s].age > Grace
                \/ \E t \in Serials \ {s} :
                     cache'[n][t] = Present(cache[n][s].path)]_discoveryVars
  BY FleetStepKeeps DEF GraceStep, MayForget
<1> QED BY <1>1, FleetInvariantHolds, PTL DEF FleetSpec, GraceIsHonoured

(* The device plugin of a process never offers anything but what its cache *)
(* calls available, although events, scans and clean-ups update the two in *)
(* different ways (updateDevicePluginByName, updateDevicePluginByType).    *)
THEOREM PluginFollowsCache == FleetSpec => []PluginOffersCache
<1>1. FleetInvariant => PluginOffersCache
  BY DEF FleetInvariant, DiscoveryInvariant, PluginInvariant, Offers, PluginOffersCache, InLoop
<1> QED BY <1>1, FleetInvariantHolds, PTL

(* Between the deletion of an agent and its creation elsewhere, whatever   *)
(* happens, no other Deployment of that name appears and the status of the *)
(* reconcile still has the device as available on the target node.         *)
THEOREM CreationsFresh == FleetSpec => []CreationIsFresh
<1>1. FleetInvariant => CreationIsFresh
  BY DEF FleetInvariant, AgentInvariant
<1> QED BY <1>1, FleetInvariantHolds, PTL

(* No reconcile takes away the agent of a device that its status has as    *)
(* available, unless it is about to create that agent on a node with the   *)
(* device and a current discovery pod.                                     *)
THEOREM AvailableKept == FleetSpec => AvailableDevicesKeepAgents
<1>1. FleetInvariant /\ [FleetNext]_allVars =>
       [\A s \in Serials :
          /\ deploy[s] # NoAgent /\ deploy'[s] = NoAgent
          /\ \E n \in Nodes : rec.devices[n][s].available
          => /\ rec'.pc = "create" /\ rec'.target.serial = s
             /\ rec.devices[rec'.target.node][s].available
             /\ DiscoveryCurrentOnNode(rec'.target.node)
             /\ deploy[s].node # rec'.target.node \/ deploy[s].outdated]_allVars
  BY FleetStepKeeps DEF KeptStep
<1> QED BY <1>1, FleetInvariantHolds, PTL DEF FleetSpec, AvailableDevicesKeepAgents
=============================================================================
