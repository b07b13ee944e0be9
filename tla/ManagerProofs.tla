---------------------------- MODULE ManagerProofs ----------------------------
(***************************************************************************)
(* Two parts of the manager that goroutines share.  The connections to the *)
(* agents: their types and owners, for any number of devices, addresses,   *)
(* callers and connections.  And the runnable of the mirror: its types,    *)
(* and that no event waits without a timer or a callback, for every number *)
(* of triggers, every capacity of the channel and any number of failures.  *)
(***************************************************************************)
EXTENDS ManagerClients, MirrorRunnable, FiniteSetTheorems, TLAPS

CallType ==
  [step : CallSteps, todo : SUBSET Devices, dev : Devices \cup {NoDevice},
   ip : IPs \cup {NoIP}, tries : 0..(MaxRetries - 1), got : Conns \cup {NoConn},
   clients : [Devices -> Conns \cup {NoConn}]]

\* A call that is in the pool knows its device and its IP, and from the new
\* connection on its client.  Only requests of the proxy wait for its mutex.
Formed(k, c) ==
  /\ c.step \in {"attempt", "dialing", "checking", "removing"}
       => c.dev \in Devices /\ c.ip \in IPs
  /\ c.step \in {"dialing", "checking", "removing"} => c.got \in Conns
  /\ c.step = "locking" => k \in Proxies

ClientTypes == ClientsTypeOK /\ \A k \in Callers : Formed(k, call[k])

-----------------------------------------------------------------------------
(* Numbers of connections *)

\* A nonempty set of numbers up to n has a least one.
LEMMA LeastNumber ==
  ASSUME NEW n \in Nat, NEW S \in SUBSET (1..n), S # {}
  PROVE  \E c \in S : \A d \in S : c <= d
<1> DEFINE T == {U \in SUBSET (1..n) : \E x \in S : U = 1..x}
<1>1. T \subseteq FiniteSubsetsOf(1..n)
  BY FS_FiniteSubsetsOfFinite, FS_Interval
<1>2. T # {}
  <2>1. PICK x \in S : TRUE
    OBVIOUS
  <2>2. 1..x \subseteq 1..n
    OBVIOUS
  <2> QED BY <2>2
<1>3. IsWellFoundedOn(StrictSubsetOrdering(1..n), FiniteSubsetsOf(1..n))
  BY FS_StrictSubsetOrderingWellFounded
<1>4. PICK B \in T : \A C \in T : ~(<<C, B>> \in StrictSubsetOrdering(1..n))
  <2> HIDE DEF T
  <2> QED BY <1>1, <1>2, <1>3, WFMin
<1>5. PICK x \in S : B = 1..x
  OBVIOUS
<1>6. ASSUME NEW y \in S, y < x
      PROVE  FALSE
  <2>1. 1..y \in T /\ 1..y \subseteq 1..x /\ x \in 1..x /\ x \notin 1..y
    BY <1>6
  <2>2. <<1..y, 1..x>> \in StrictSubsetOrdering(1..n)
    BY <2>1, <1>5 DEF StrictSubsetOrdering
  <2> QED BY <1>4, <1>5, <2>1, <2>2
<1> QED BY <1>6

\* The number of a new connection is one that nothing refers to.
LEMMA NewConnIsUnused ==
  ASSUME Unused # {}
  PROVE  NewConn \in Unused /\ NewConn \in Conns
<1>1. Unused \in SUBSET (1..MaxConns)
  BY DEF Unused, Conns
<1>2. \E c \in Unused : \A d \in Unused : c <= d
  BY <1>1, LeastNumber, ClientsAssumption
<1>3. NewConn \in Unused
  BY <1>2 DEF NewConn
<1> QED BY <1>1, <1>3 DEF Conns

-----------------------------------------------------------------------------
(* Types *)

LEMMA MishapType ==
  ASSUME ClientTypes, Mishap
  PROVE  mishaps' \in 0..MaxMishaps
BY ClientsAssumption DEF ClientTypes, ClientsTypeOK, Mishap

LEMMA CheckType ==
  ASSUME ClientTypes, NEW c, NEW ok, IsConnected(c, ok)
  PROVE  mishaps' \in 0..MaxMishaps
BY MishapType DEF IsConnected, ClientTypes, ClientsTypeOK

LEMMA IdleType ==
  IdleCall \in CallType /\ (\A k : Formed(k, IdleCall)) /\ IdleCall.step = "idle"
BY ClientsAssumption DEF IdleCall, CallType, Formed, CallSteps, NoClients

LEMMA DoneType ==
  ASSUME ClientTypes, NEW k \in Callers
  PROVE  DeviceDone(k) \in CallType /\ Formed(k, DeviceDone(k))
         /\ DeviceDone(k).step = "collecting"
<1>1. call[k] \in CallType
  BY DEF ClientTypes, ClientsTypeOK, CallType
<1>2. 0 \in 0..(MaxRetries - 1) /\ "collecting" \in CallSteps
  BY ClientsAssumption DEF CallSteps
<1> QED BY <1>1, <1>2 DEF DeviceDone, CallType, Formed

LEMMA NextTryType ==
  ASSUME ClientTypes, NEW k \in Callers,
         call[k].step \in {"attempt", "dialing", "checking", "removing"}
  PROVE  NextTry(k) \in CallType /\ Formed(k, NextTry(k))
         /\ NextTry(k).step \in {"attempt", "collecting"}
<1>1. CASE call[k].tries + 1 < MaxRetries
  <2>1. call[k] \in CallType /\ Formed(k, call[k])
    BY DEF ClientTypes, ClientsTypeOK, CallType
  <2>2. call[k].tries + 1 \in 0..(MaxRetries - 1) /\ "attempt" \in CallSteps
    BY <1>1, <2>1, ClientsAssumption DEF CallSteps, CallType
  <2> QED BY <1>1, <2>1, <2>2 DEF NextTry, CallType, Formed
<1>2. CASE ~(call[k].tries + 1 < MaxRetries)
  BY <1>2, DoneType DEF NextTry
<1> QED BY <1>1, <1>2

LEMMA DeliverType ==
  ASSUME ClientTypes, NEW k \in Callers, Deliver(k),
         call[k].step \in {"checking", "removing"}
  PROVE  /\ \E c \in CallType : /\ Formed(k, c) /\ c.step = "collecting"
                                /\ call' = [call EXCEPT ![k] = c]
         /\ cached' \in [Devices -> Conns \cup {NoConn}]
<1> DEFINE c == [DeviceDone(k) EXCEPT !.clients[call[k].dev] = call[k].got]
<1>1. c \in CallType /\ Formed(k, c) /\ c.step = "collecting"
  BY DoneType DEF CallType, Formed, ClientTypes, ClientsTypeOK
<1>2. cached' \in [Devices -> Conns \cup {NoConn}]
  BY DEF Deliver, ClientTypes, ClientsTypeOK
<1> QED BY <1>1, <1>2 DEF Deliver

\* One call moves on, and what else changes keeps its type.
LEMMA TypesByCall ==
  ASSUME ClientTypes, NEW k \in Callers, NEW c \in CallType, Formed(k, c),
         call' = [call EXCEPT ![k] = c],
         podIP' = podIP, answering' = answering,
         conn' \in [Conns -> IPs \cup {NoIP}],
         pool' \in [IPs -> Conns \cup {NoConn}],
         poolLock' \in Callers \cup {Nobody},
         cached' \in [Devices -> Conns \cup {NoConn}],
         cacheLock' \in Proxies \cup {Nobody},
         mishaps' \in 0..MaxMishaps
  PROVE  ClientTypes'
<1>1. call' \in [Callers -> CallType]
  BY DEF ClientTypes, ClientsTypeOK, CallType
<1>2. \A j \in Callers : Formed(j, call'[j])
  BY DEF ClientTypes, ClientsTypeOK
<1>3. ClientsTypeOK'
  BY <1>1 DEF ClientTypes, ClientsTypeOK, CallType
<1> QED BY <1>2, <1>3 DEF ClientTypes, Formed

LEMMA CallerTypes ==
  ASSUME ClientTypes, NEW k \in Callers
  PROVE  /\ call \in [Callers -> CallType] /\ call[k] \in CallType /\ Formed(k, call[k])
         /\ conn \in [Conns -> IPs \cup {NoIP}]
         /\ pool \in [IPs -> Conns \cup {NoConn}]
         /\ poolLock \in Callers \cup {Nobody}
         /\ cached \in [Devices -> Conns \cup {NoConn}]
         /\ cacheLock \in Proxies \cup {Nobody}
         /\ mishaps \in 0..MaxMishaps
BY DEF ClientTypes, ClientsTypeOK, CallType

LEMMA BeginTypes ==
  ASSUME ClientTypes, NEW k \in Callers,
         \/ k \in Proxies /\ BeginRequest(k)
         \/ LockCache(k)
         \/ \E s \in Devices : BeginCall(k, s)
         \/ Collected(k) \/ Return(k)
  PROVE  ClientTypes'
<1>0. PICK c \in CallType : Formed(k, c) /\ call' = [call EXCEPT ![k] = c]
  <2>1. CASE k \in Proxies /\ BeginRequest(k)
    <3>1. [call[k] EXCEPT !.step = "locking", !.todo = Devices] \in CallType
          /\ Formed(k, [call[k] EXCEPT !.step = "locking", !.todo = Devices])
      BY <2>1, CallerTypes DEF CallType, Formed, CallSteps
    <3> QED BY <2>1, <3>1, CallerTypes DEF BeginRequest
  <2>2. CASE LockCache(k)
    <3>1. [call[k] EXCEPT !.step = "collecting"] \in CallType
          /\ Formed(k, [call[k] EXCEPT !.step = "collecting"])
      BY CallerTypes DEF CallType, Formed, CallSteps
    <3> QED BY <2>2, <3>1, CallerTypes DEF LockCache
  <2>3. CASE \E s \in Devices : BeginCall(k, s)
    <3>1. PICK s \in Devices : BeginCall(k, s)
      BY <2>3
    <3>2. [call[k] EXCEPT !.step = "collecting", !.dev = s] \in CallType
          /\ Formed(k, [call[k] EXCEPT !.step = "collecting", !.dev = s])
      BY CallerTypes DEF CallType, Formed, CallSteps
    <3> QED BY <3>1, <3>2, CallerTypes DEF BeginCall
  <2>4. CASE Collected(k)
    <3>1. [IdleCall EXCEPT !.step = "using", !.clients = call[k].clients] \in CallType
          /\ Formed(k, [IdleCall EXCEPT !.step = "using", !.clients = call[k].clients])
      BY CallerTypes, IdleType DEF CallType, Formed, CallSteps
    <3> QED BY <2>4, <3>1, IdleType DEF Collected
  <2>5. CASE Return(k)
    BY <2>5, IdleType DEF Return
  <2> QED BY <2>1, <2>2, <2>3, <2>4, <2>5
<1>1. /\ podIP' = podIP /\ answering' = answering /\ conn' = conn /\ pool' = pool
      /\ poolLock' = poolLock /\ cached' = cached /\ mishaps' = mishaps
  BY DEF BeginRequest, LockCache, BeginCall, Collected, Return, podVars, poolVars, cacheVars
<1>2. cacheLock' \in Proxies \cup {Nobody}
  <2>1. LockCache(k) => k \in Proxies
    BY CallerTypes DEF LockCache, Formed
  <2>2. \/ cacheLock' = cacheLock \/ cacheLock' = Nobody
        \/ LockCache(k) /\ cacheLock' = k
    BY DEF BeginRequest, LockCache, BeginCall, Collected, Return, cacheVars
  <2> QED BY <2>1, <2>2, CallerTypes
<1> QED BY <1>0, <1>1, <1>2, CallerTypes, TypesByCall

LEMMA LookUpTypes ==
  ASSUME ClientTypes, NEW k \in Callers, NEW s \in Devices, LookUpCached(k, s)
  PROVE  ClientTypes'
<1>1. PICK ok \in BOOLEAN : /\ IsConnected(cached[s], ok)
        /\ IF ok
            THEN /\ call' = [call EXCEPT ![k].todo = @ \ {s}, ![k].clients[s] = cached[s]]
                 /\ UNCHANGED cached
            ELSE /\ call' = [call EXCEPT ![k].todo = @ \ {s}, ![k].dev = s]
                 /\ cached' = [cached EXCEPT ![s] = NoConn]
  BY DEF LookUpCached
<1>2. /\ podIP' = podIP /\ answering' = answering /\ conn' = conn /\ pool' = pool
      /\ poolLock' = poolLock /\ cacheLock' = cacheLock
      /\ call[k].step = "collecting"
  BY DEF LookUpCached, podVars, poolVars
<1>3. mishaps' \in 0..MaxMishaps
  BY <1>1, CheckType
<1>4. cached' \in [Devices -> Conns \cup {NoConn}]
  BY <1>1, CallerTypes
<1>5. PICK c \in CallType : Formed(k, c) /\ call' = [call EXCEPT ![k] = c]
  <2>1. /\ [call[k] EXCEPT !.todo = @ \ {s}, !.clients[s] = cached[s]] \in CallType
        /\ Formed(k, [call[k] EXCEPT !.todo = @ \ {s}, !.clients[s] = cached[s]])
    BY <1>2, CallerTypes DEF CallType, Formed
  <2>2. /\ [call[k] EXCEPT !.todo = @ \ {s}, !.dev = s] \in CallType
        /\ Formed(k, [call[k] EXCEPT !.todo = @ \ {s}, !.dev = s])
    BY <1>2, CallerTypes DEF CallType, Formed
  <2> QED BY <1>1, <2>1, <2>2, CallerTypes
<1> QED BY <1>2, <1>3, <1>4, <1>5, CallerTypes, TypesByCall

LEMMA CreateTypes ==
  ASSUME ClientTypes, NEW k \in Callers, CreateGRPCClient(k)
  PROVE  ClientTypes'
<1> DEFINE ip == podIP[call[k].dev]
<1>1. call[k].dev \in Devices /\ ip \in IPs \cup {NoIP}
  BY CallerTypes DEF CreateGRPCClient, CallType, ClientTypes, ClientsTypeOK
<1> DEFINE c == [call[k] EXCEPT !.ip = ip,
                                !.step = IF ip = NoIP THEN "collecting" ELSE "attempt",
                                !.dev = IF ip = NoIP THEN NoDevice ELSE @]
<1>2. call' = [call EXCEPT ![k] = c]
  BY CallerTypes DEF CreateGRPCClient, CallType
<1>3. c \in CallType /\ Formed(k, c)
  BY <1>1, CallerTypes, ZenonT(30) DEF CallType, Formed, CallSteps
<1>4. /\ podIP' = podIP /\ answering' = answering /\ conn' = conn /\ pool' = pool
      /\ poolLock' = poolLock /\ cached' = cached /\ cacheLock' = cacheLock
      /\ mishaps' = mishaps
  BY DEF CreateGRPCClient, podVars, poolVars, cacheVars
<1> HIDE DEF c
<1> QED BY <1>2, <1>3, <1>4, CallerTypes, TypesByCall

\* The two ways out of getClientAttempt's look at the pool.
Share(k) ==
  /\ pool[call[k].ip] # NoConn
  /\ call' = [call EXCEPT ![k].step = "checking", ![k].got = pool[call[k].ip]]
  /\ UNCHANGED poolVars

Dial(k) ==
  /\ poolLock = Nobody /\ Unused # {}
  /\ conn' = [c \in Conns |-> IF c = pool[call[k].ip] THEN NoIP
                              ELSE IF c = NewConn THEN call[k].ip ELSE conn[c]]
  /\ pool' = [pool EXCEPT ![call[k].ip] = NoConn]
  /\ poolLock' = k
  /\ call' = [call EXCEPT ![k].step = "dialing", ![k].got = NewConn]

LEMMA AttemptCases ==
  ASSUME ClientTypes, NEW k \in Callers, GetClientAttempt(k)
  PROVE  /\ Share(k) \/ Dial(k)
         /\ call[k].step = "attempt"
         /\ podIP' = podIP /\ answering' = answering
         /\ cached' = cached /\ cacheLock' = cacheLock
         /\ mishaps' \in 0..MaxMishaps
BY CheckType DEF GetClientAttempt, Share, Dial, podVars, cacheVars

LEMMA AttemptTypes ==
  ASSUME ClientTypes, NEW k \in Callers, GetClientAttempt(k)
  PROVE  ClientTypes'
<1>0. call[k].dev \in Devices /\ call[k].ip \in IPs
  BY AttemptCases, CallerTypes DEF Formed
<1>1. CASE Share(k)
  <2>1. pool[call[k].ip] \in Conns
    BY <1>0, <1>1, CallerTypes DEF Share
  <2> DEFINE c == [call[k] EXCEPT !.step = "checking", !.got = pool[call[k].ip]]
  <2>2. c \in CallType /\ Formed(k, c) /\ call' = [call EXCEPT ![k] = c]
    BY <1>0, <1>1, <2>1, CallerTypes DEF Share, CallType, Formed, CallSteps
  <2> HIDE DEF c
  <2>3. conn' = conn /\ pool' = pool /\ poolLock' = poolLock
    BY <1>1 DEF Share, poolVars
  <2> QED BY <2>2, <2>3, CallerTypes, AttemptCases, TypesByCall
<1>2. CASE Dial(k)
  <2>1. NewConn \in Conns
    BY <1>2, NewConnIsUnused DEF Dial
  <2> DEFINE c == [call[k] EXCEPT !.step = "dialing", !.got = NewConn]
  <2>2. c \in CallType /\ Formed(k, c) /\ call' = [call EXCEPT ![k] = c]
    BY <1>0, <1>2, <2>1, CallerTypes DEF Dial, CallType, Formed, CallSteps
  <2> HIDE DEF c
  <2>3. /\ conn' \in [Conns -> IPs \cup {NoIP}] /\ pool' \in [IPs -> Conns \cup {NoConn}]
        /\ poolLock' \in Callers \cup {Nobody}
    BY <1>0, <1>2, CallerTypes DEF Dial
  <2> QED BY <2>2, <2>3, CallerTypes, AttemptCases, TypesByCall
<1> QED BY <1>1, <1>2, AttemptCases

\* Initialize keeps the connection or closes it.
Keep(k) ==
  /\ pool' = [pool EXCEPT ![call[k].ip] = call[k].got]
  /\ call' = [call EXCEPT ![k].step = "checking"]
  /\ conn' = conn

GiveUp(k) ==
  /\ conn' = [conn EXCEPT ![call[k].got] = NoIP]
  /\ call' = [call EXCEPT ![k] = NextTry(k)]
  /\ pool' = pool

LEMMA InitializeCases ==
  ASSUME ClientTypes, NEW k \in Callers, InitializeClient(k)
  PROVE  /\ Keep(k) \/ GiveUp(k)
         /\ call[k].step = "dialing" /\ poolLock' = Nobody
         /\ podIP' = podIP /\ answering' = answering
         /\ cached' = cached /\ cacheLock' = cacheLock
         /\ mishaps' \in 0..MaxMishaps
BY CheckType DEF InitializeClient, Keep, GiveUp, podVars, cacheVars

LEMMA InitializeTypes ==
  ASSUME ClientTypes, NEW k \in Callers, InitializeClient(k)
  PROVE  ClientTypes'
<1>0. call[k].dev \in Devices /\ call[k].ip \in IPs /\ call[k].got \in Conns
  BY InitializeCases, CallerTypes DEF Formed
<1>1. CASE Keep(k)
  <2> DEFINE c == [call[k] EXCEPT !.step = "checking"]
  <2>1. c \in CallType /\ Formed(k, c) /\ call' = [call EXCEPT ![k] = c]
    BY <1>0, <1>1, CallerTypes DEF Keep, CallType, Formed, CallSteps
  <2> HIDE DEF c
  <2>2. conn' = conn /\ pool' \in [IPs -> Conns \cup {NoConn}]
    BY <1>0, <1>1, CallerTypes DEF Keep
  <2> QED BY <2>1, <2>2, CallerTypes, InitializeCases, TypesByCall
<1>2. CASE GiveUp(k)
  <2>1. conn' \in [Conns -> IPs \cup {NoIP}] /\ pool' = pool
    BY <1>0, <1>2, CallerTypes DEF GiveUp
  <2> QED BY <1>2, <2>1, NextTryType, CallerTypes, InitializeCases, TypesByCall, ZenonT(30)
      DEF GiveUp
<1> QED BY <1>1, <1>2, InitializeCases

LEMMA HealthTypes ==
  ASSUME ClientTypes, NEW k \in Callers, HealthCheck(k)
  PROVE  ClientTypes' /\ \E c \in CallType : /\ call' = [call EXCEPT ![k] = c]
                                             /\ c.step \in {"collecting", "removing"}
<1>1. PICK ok \in BOOLEAN :
        /\ IsConnected(call[k].got, ok)
        /\ IF ok THEN Deliver(k)
           ELSE call' = [call EXCEPT ![k].step = "removing"] /\ UNCHANGED cached
  BY DEF HealthCheck
<1>2. /\ podIP' = podIP /\ answering' = answering /\ conn' = conn /\ pool' = pool
      /\ poolLock' = poolLock /\ cacheLock' = cacheLock /\ call[k].step = "checking"
      /\ mishaps' \in 0..MaxMishaps
  BY <1>1, CheckType DEF HealthCheck, podVars, poolVars
<1>3. CASE ok
  BY <1>1, <1>2, <1>3, DeliverType, CallerTypes, TypesByCall
<1>4. CASE ~ok
  <2> DEFINE c == [call[k] EXCEPT !.step = "removing"]
  <2>1. c \in CallType /\ Formed(k, c) /\ call' = [call EXCEPT ![k] = c] /\ c.step = "removing"
    BY <1>1, <1>2, <1>4, CallerTypes DEF CallType, Formed, CallSteps
  <2> HIDE DEF c
  <2>2. cached' = cached
    BY <1>1, <1>4
  <2> QED BY <1>2, <2>1, <2>2, CallerTypes, TypesByCall
<1> QED BY <1>3, <1>4

LEMMA RemoveTypes ==
  ASSUME ClientTypes, NEW k \in Callers, RemoveClient(k)
  PROVE  ClientTypes' /\ \E c \in CallType : /\ call' = [call EXCEPT ![k] = c]
                                             /\ c.step \in {"collecting", "attempt"}
<1>0. call[k].ip \in IPs /\ call[k].step = "removing"
  BY CallerTypes DEF RemoveClient, Formed
<1>1. /\ podIP' = podIP /\ answering' = answering /\ poolLock' = poolLock
      /\ cacheLock' = cacheLock /\ mishaps' = mishaps
  BY DEF RemoveClient, podVars
<1>2. conn' \in [Conns -> IPs \cup {NoIP}] /\ pool' \in [IPs -> Conns \cup {NoConn}]
  BY <1>0, CallerTypes DEF RemoveClient
<1>3. CASE call' = [call EXCEPT ![k] = NextTry(k)] /\ UNCHANGED cached
  BY <1>0, <1>1, <1>2, <1>3, NextTryType, CallerTypes, TypesByCall
<1>4. CASE Deliver(k)
  BY <1>0, <1>1, <1>2, <1>4, DeliverType, CallerTypes, TypesByCall
<1> QED BY <1>3, <1>4 DEF RemoveClient

\* Steps that are not of a call.
Outside ==
  \E s \in Devices :
    PodGone(s) \/ PodStarts(s) \/ AgentStopsAnswering(s) \/ AgentAnswersAgain(s)

LEMMA OutsideTypes ==
  ASSUME ClientTypes, Outside
  PROVE  ClientTypes'
<1>1. /\ podIP' \in [Devices -> IPs \cup {NoIP}]
      /\ answering' \in [Devices -> BOOLEAN]
  <2>1. PICK s \in Devices : PodGone(s) \/ PodStarts(s) \/ AgentStopsAnswering(s)
                             \/ AgentAnswersAgain(s)
    BY DEF Outside
  <2>2. CASE PodGone(s)
    BY <2>2 DEF PodGone, ClientTypes, ClientsTypeOK
  <2>3. CASE PodStarts(s)
    BY <2>3 DEF PodStarts, ClientTypes, ClientsTypeOK
  <2>4. CASE AgentStopsAnswering(s) \/ AgentAnswersAgain(s)
    BY <2>4 DEF AgentStopsAnswering, AgentAnswersAgain, ClientTypes, ClientsTypeOK
  <2> QED BY <2>1, <2>2, <2>3, <2>4
<1>2. mishaps' \in 0..MaxMishaps
  BY MishapType DEF Outside, PodGone, PodStarts, AgentStopsAnswering, AgentAnswersAgain,
     ClientTypes, ClientsTypeOK
<1>3. /\ conn' = conn /\ pool' = pool /\ poolLock' = poolLock /\ cached' = cached
      /\ cacheLock' = cacheLock /\ call' = call
  BY DEF Outside, PodGone, PodStarts, AgentStopsAnswering, AgentAnswersAgain, poolVars,
     cacheVars
<1> QED BY <1>1, <1>2, <1>3 DEF ClientTypes, ClientsTypeOK, Formed

LEMMA StartTypes ==
  /\ ManagerStart => /\ conn \in [Conns -> IPs \cup {NoIP}]
                     /\ pool \in [IPs -> Conns \cup {NoConn}]
                     /\ poolLock \in Callers \cup {Nobody}
                     /\ cached \in [Devices -> Conns \cup {NoConn}]
                     /\ cacheLock \in Proxies \cup {Nobody}
                     /\ call \in [Callers -> CallType]
                     /\ \A k \in Callers : Formed(k, call[k])
BY IdleType DEF ManagerStart, NoClients

LEMMA RestartTypes ==
  ASSUME ClientTypes, ManagerRestarts
  PROVE  ClientTypes'
<1>1. /\ conn' \in [Conns -> IPs \cup {NoIP}] /\ pool' \in [IPs -> Conns \cup {NoConn}]
      /\ poolLock' \in Callers \cup {Nobody}
      /\ cached' \in [Devices -> Conns \cup {NoConn}]
      /\ cacheLock' \in Proxies \cup {Nobody}
  BY DEF ManagerRestarts, NoClients
<1>2. call' \in [Callers -> CallType] /\ \A k \in Callers : Formed(k, call'[k])
  BY IdleType DEF ManagerRestarts
<1>3. mishaps' \in 0..MaxMishaps /\ podIP' = podIP /\ answering' = answering
  BY MishapType DEF ManagerRestarts, podVars
<1> QED BY <1>1, <1>2, <1>3 DEF ClientTypes, ClientsTypeOK, CallType, Formed

LEMMA CallTypes ==
  ASSUME ClientTypes, NEW k \in Callers, CallStep(k)
  PROVE  ClientTypes'
BY BeginTypes, LookUpTypes, CreateTypes, AttemptTypes, InitializeTypes, HealthTypes,
   RemoveTypes DEF CallStep

LEMMA TypesStep ==
  ASSUME ClientTypes, [ClientsNext]_clientVars
  PROVE  ClientTypes'
<1>1. CASE UNCHANGED clientVars
  BY <1>1 DEF clientVars, ClientTypes, ClientsTypeOK, Formed
<1>2. Proxies \subseteq Callers /\ Others \subseteq Callers
  BY DEF Callers
<1> QED BY <1>1, <1>2, OutsideTypes, BeginTypes, CallTypes, RestartTypes
        DEF ClientsNext, Outside

-----------------------------------------------------------------------------
(* Ownership of connections *)

\* The mutex of the pool is held by the caller that tries out a new connection
\* and by nobody else; that connection is open and its IP has no other.
Dialing ==
  \A k \in Callers :
    /\ call[k].step = "dialing" <=> poolLock = k
    /\ call[k].step = "dialing" =>
         conn[call[k].got] = call[k].ip /\ pool[call[k].ip] = NoConn

PoolInvariant == Dialing /\ PoolOwnsConnections

\* A step outside the pool's mutex that leaves the pool alone.
LEMMA PoolKept ==
  ASSUME ClientTypes, PoolInvariant,
         \A j \in Callers : \/ call'[j] = call[j]
                            \/ call[j].step # "dialing" /\ call'[j].step # "dialing",
         conn' = conn, pool' = pool, poolLock' = poolLock
  PROVE  PoolInvariant'
<1>1. Dialing'
  BY DEF PoolInvariant, Dialing
<1>2. PoolOwnsConnections'
  <2>1. poolLock # Nobody => call'[poolLock] = call[poolLock]
    BY DEF PoolInvariant, Dialing, ClientTypes, ClientsTypeOK
  <2> QED BY <2>1 DEF PoolInvariant, PoolOwnsConnections
<1> QED BY <1>1, <1>2 DEF PoolInvariant

LEMMA PoolStart ==
  ASSUME ManagerStart
  PROVE  PoolInvariant
<1>1. \A k \in Callers : call[k].step # "dialing" /\ poolLock # k
  BY IdleType, ClientsAssumption DEF ManagerStart, Callers
<1> QED BY <1>1 DEF ManagerStart, PoolInvariant, Dialing, PoolOwnsConnections

\* A new connection takes the place of the one that did not answer.
LEMMA PoolDial ==
  ASSUME ClientTypes, PoolInvariant, NEW k \in Callers, call[k].step = "attempt", Dial(k)
  PROVE  PoolInvariant'
<1> DEFINE ip == call[k].ip
           old == pool[ip]
           new == NewConn
<1>1. ip \in IPs /\ old \in Conns \cup {NoConn} /\ k # Nobody
  BY CallerTypes, ClientsAssumption DEF Formed, Callers
<1>2. new \in Conns /\ conn[new] = NoIP /\ \A p \in IPs : pool[p] # new
  BY NewConnIsUnused DEF Dial, Unused, Referred
<1>3. \A j \in Callers : call[j].step # "dialing"
  BY ClientsAssumption DEF Dial, PoolInvariant, Dialing, Callers
<1>4. call'[k].step = "dialing" /\ call'[k].got = new /\ call'[k].ip = ip
  BY CallerTypes DEF Dial, CallType
<1>5. \A j \in Callers \ {k} : call'[j] = call[j]
  BY CallerTypes DEF Dial
<1>6. /\ conn'[new] = ip /\ (old # NoConn => conn'[old] = NoIP)
      /\ \A c \in Conns \ {old, new} : conn'[c] = conn[c]
  BY <1>1, <1>2 DEF Dial
<1>7. pool'[ip] = NoConn /\ \A p \in IPs \ {ip} : pool'[p] = pool[p]
  BY <1>1, CallerTypes DEF Dial
<1>8. Dialing'
  <2>1. poolLock' = k
    BY DEF Dial
  <2>2. \A j \in Callers : call'[j].step = "dialing" <=> j = k
    BY <1>3, <1>4, <1>5
  <2>3. conn'[call'[k].got] = call'[k].ip /\ pool'[call'[k].ip] = NoConn
    BY <1>4, <1>6, <1>7
  <2> QED BY <2>1, <2>2, <2>3 DEF Dialing
<1>9. \A p \in IPs : pool'[p] # NoConn => conn'[pool'[p]] = p
  BY <1>1, <1>2, <1>6, <1>7, CallerTypes DEF PoolInvariant, PoolOwnsConnections
<1>10. ASSUME NEW c \in Conns, conn'[c] # NoIP
       PROVE  pool'[conn'[c]] = c \/ c = new
  <2>1. CASE c # new
    <3>1. c # old /\ conn'[c] = conn[c]
      BY <1>1, <1>6, <1>10, <2>1, ClientsAssumption DEF Conns
    <3>2. conn[c] \in IPs /\ pool[conn[c]] = c
      BY <1>10, <3>1, CallerTypes DEF Dial, PoolInvariant, PoolOwnsConnections
    <3> QED BY <1>7, <3>1, <3>2
  <2> QED BY <2>1
<1>11. PoolOwnsConnections'
  BY <1>1, <1>4, <1>9, <1>10 DEF PoolOwnsConnections, Dial
<1> QED BY <1>8, <1>11 DEF PoolInvariant

\* The caller that lets go of the mutex has pooled its connection or closed it.
LEMMA PoolInitialize ==
  ASSUME ClientTypes, PoolInvariant, NEW k \in Callers, InitializeClient(k)
  PROVE  PoolInvariant'
<1> DEFINE ip == call[k].ip
           new == call[k].got
<1>1. /\ ip \in IPs /\ new \in Conns /\ ip # NoIP /\ k # Nobody
      /\ poolLock = k /\ conn[new] = ip /\ pool[ip] = NoConn
  BY InitializeCases, CallerTypes, ClientsAssumption DEF Formed, PoolInvariant, Dialing, Callers
<1>2. \A j \in Callers \ {k} : call'[j] = call[j] /\ call[j].step # "dialing"
  BY <1>1, InitializeCases, CallerTypes, SMTT(30) DEF Keep, GiveUp, PoolInvariant, Dialing
<1>3. call'[k].step # "dialing"
  <2>1. CASE Keep(k)
    BY <2>1, CallerTypes DEF Keep, CallType
  <2>2. CASE GiveUp(k)
    BY <2>2, CallerTypes, NextTryType, InitializeCases, SMTT(30) DEF GiveUp
  <2> QED BY <2>1, <2>2, InitializeCases
<1>4. Dialing'
  <2>1. Nobody \notin Callers
    BY ClientsAssumption DEF Callers
  <2> QED BY <1>2, <1>3, <2>1, InitializeCases DEF Dialing
<1>5. PoolOwnsConnections'
  <2>1. CASE Keep(k)
    <3>1. pool'[ip] = new /\ conn' = conn /\ \A p \in IPs \ {ip} : pool'[p] = pool[p]
      BY <1>1, <2>1, CallerTypes DEF Keep
    <3>2. \A c \in Conns : conn[c] # NoIP => pool[conn[c]] = c \/ c = new
      BY <1>1 DEF PoolInvariant, PoolOwnsConnections
    <3>3. NoConn \notin Conns
      BY ClientsAssumption DEF Conns
    <3> QED BY <1>1, <3>1, <3>2, <3>3, CallerTypes DEF PoolInvariant, PoolOwnsConnections
  <2>2. CASE GiveUp(k)
    <3>1. /\ conn'[new] = NoIP /\ pool' = pool
          /\ \A c \in Conns \ {new} : conn'[c] = conn[c]
      BY <1>1, <2>2, CallerTypes DEF GiveUp
    <3>2. \A c \in Conns : conn[c] # NoIP => pool[conn[c]] = c \/ c = new
      BY <1>1 DEF PoolInvariant, PoolOwnsConnections
    <3>3. \A p \in IPs : pool[p] # new
      BY <1>1, ClientsAssumption DEF PoolInvariant, PoolOwnsConnections, Conns
    <3> QED BY <1>1, <3>1, <3>2, <3>3, CallerTypes DEF PoolInvariant, PoolOwnsConnections
  <2> QED BY <2>1, <2>2, InitializeCases
<1> QED BY <1>4, <1>5 DEF PoolInvariant

LEMMA PoolRemove ==
  ASSUME ClientTypes, PoolInvariant, NEW k \in Callers, RemoveClient(k)
  PROVE  PoolInvariant'
<1> DEFINE ip == call[k].ip
           old == pool[ip]
<1>1. /\ ip \in IPs /\ poolLock = Nobody /\ poolLock' = Nobody
      /\ NoConn \notin Conns /\ Nobody \notin Callers
  BY CallerTypes, ClientsAssumption DEF RemoveClient, Formed, Conns, Callers
<1>2. /\ \A c \in Conns : conn'[c] = IF c = old THEN NoIP ELSE conn[c]
      /\ pool'[ip] = NoConn /\ \A p \in IPs \ {ip} : pool'[p] = pool[p]
  BY <1>1, CallerTypes DEF RemoveClient
<1>3. \A j \in Callers : call[j].step # "dialing"
  BY <1>1 DEF PoolInvariant, Dialing
<1>4. \A j \in Callers : call'[j].step # "dialing"
  BY <1>3, CallerTypes, RemoveTypes
<1>5. Dialing'
  BY <1>1, <1>4 DEF Dialing
<1>6. \A p \in IPs : pool'[p] # NoConn => conn'[pool'[p]] = p
  BY <1>1, <1>2, CallerTypes DEF PoolInvariant, PoolOwnsConnections
<1>7. \A c \in Conns : conn'[c] # NoIP => pool'[conn'[c]] = c
  <2> SUFFICES ASSUME NEW c \in Conns, conn'[c] # NoIP
               PROVE  pool'[conn'[c]] = c
    OBVIOUS
  <2>1. c # old /\ conn'[c] = conn[c] /\ conn[c] \in IPs
    BY <1>2, CallerTypes
  <2>2. pool[conn[c]] = c
    BY <1>1, <2>1 DEF PoolInvariant, PoolOwnsConnections
  <2> QED BY <1>2, <2>1, <2>2
<1>8. PoolOwnsConnections'
  BY <1>6, <1>7 DEF PoolOwnsConnections
<1> QED BY <1>5, <1>8 DEF PoolInvariant

LEMMA PoolCall ==
  ASSUME ClientTypes, PoolInvariant, NEW k \in Callers,
         \/ BeginRequest(k) \/ (\E s \in Devices : BeginCall(k, s)) \/ CallStep(k)
  PROVE  PoolInvariant'
<1>1. CASE \/ BeginRequest(k) \/ LockCache(k) \/ CreateGRPCClient(k) \/ Collected(k)
           \/ Return(k) \/ (\E s \in Devices : BeginCall(k, s) \/ LookUpCached(k, s))
  <2>1. conn' = conn /\ pool' = pool /\ poolLock' = poolLock /\ call[k].step # "dialing"
    BY <1>1 DEF BeginRequest, LockCache, CreateGRPCClient, Collected, Return, BeginCall,
       LookUpCached, poolVars
  <2>2. \A j \in Callers \ {k} : call'[j] = call[j]
    BY <1>1, CallerTypes DEF BeginRequest, LockCache, CreateGRPCClient, Collected, Return,
       BeginCall, LookUpCached
  <2>3. call'[k].step # "dialing"
    <3>1. CASE BeginRequest(k) \/ LockCache(k)
      BY <3>1, CallerTypes DEF BeginRequest, LockCache, CallType
    <3>2. CASE CreateGRPCClient(k)
      BY <3>2, CallerTypes DEF CreateGRPCClient, CallType
    <3>3. CASE Collected(k) \/ Return(k)
      <4>1. [IdleCall EXCEPT !.step = "using", !.clients = call[k].clients].step = "using"
        BY IdleType DEF CallType
      <4>2. \/ call'[k] = IdleCall
            \/ call'[k] = [IdleCall EXCEPT !.step = "using", !.clients = call[k].clients]
        BY <3>3, CallerTypes DEF Collected, Return
      <4> QED BY <4>1, <4>2, IdleType
    <3>4. CASE \E s \in Devices : BeginCall(k, s)
      BY <3>4, CallerTypes DEF BeginCall, CallType
    <3>5. CASE \E s \in Devices : LookUpCached(k, s)
      <4>1. PICK s \in Devices :
              \/ call' = [call EXCEPT ![k].todo = @ \ {s}, ![k].clients[s] = cached[s]]
              \/ call' = [call EXCEPT ![k].todo = @ \ {s}, ![k].dev = s]
        BY <3>5 DEF LookUpCached
      <4>2. call'[k].step = call[k].step
        BY <4>1, CallerTypes DEF CallType
      <4> QED BY <2>1, <4>2
    <3> QED BY <1>1, <3>1, <3>2, <3>3, <3>4, <3>5
  <2> QED BY <2>1, <2>2, <2>3, PoolKept, SMTT(30)
<1>2. CASE GetClientAttempt(k)
  <2>1. CASE Share(k)
    <3>1. conn' = conn /\ pool' = pool /\ poolLock' = poolLock /\ call[k].step # "dialing"
      BY <1>2, <2>1, AttemptCases DEF Share, poolVars
    <3>2. call'[k].step # "dialing" /\ \A j \in Callers \ {k} : call'[j] = call[j]
      BY <2>1, CallerTypes DEF Share, CallType
    <3> QED BY <3>1, <3>2, PoolKept
  <2>2. CASE Dial(k)
    BY <1>2, <2>2, AttemptCases, PoolDial
  <2> QED BY <1>2, <2>1, <2>2, AttemptCases
<1>3. CASE InitializeClient(k)
  BY <1>3, PoolInitialize
<1>4. CASE HealthCheck(k)
  <2>1. conn' = conn /\ pool' = pool /\ poolLock' = poolLock /\ call[k].step # "dialing"
    BY <1>4 DEF HealthCheck, poolVars
  <2>2. call'[k].step # "dialing" /\ \A j \in Callers \ {k} : call'[j] = call[j]
    BY <1>4, CallerTypes, HealthTypes
  <2> QED BY <2>1, <2>2, PoolKept
<1>5. CASE RemoveClient(k)
  BY <1>5, PoolRemove
<1> QED BY <1>1, <1>2, <1>3, <1>4, <1>5 DEF CallStep

LEMMA PoolStep ==
  ASSUME ClientTypes, PoolInvariant, [ClientsNext]_clientVars
  PROVE  PoolInvariant'
<1>1. CASE UNCHANGED clientVars \/ Outside
  <2>1. call' = call /\ conn' = conn /\ pool' = pool /\ poolLock' = poolLock
    BY <1>1 DEF clientVars, Outside, PodGone, PodStarts, AgentStopsAnswering,
       AgentAnswersAgain, poolVars
  <2> QED BY <2>1, PoolKept
<1>2. CASE ManagerRestarts
  <2>1. /\ poolLock' = Nobody /\ pool' = [ip \in IPs |-> NoConn]
        /\ conn' = [c \in Conns |-> NoIP]
    BY <1>2 DEF ManagerRestarts
  <2>2. \A k \in Callers : call'[k].step # "dialing" /\ k # Nobody
    BY <1>2, IdleType, ClientsAssumption DEF ManagerRestarts, Callers
  <2> QED BY <2>1, <2>2 DEF PoolInvariant, Dialing, PoolOwnsConnections
<1>3. Proxies \subseteq Callers /\ Others \subseteq Callers
  BY DEF Callers
<1> QED BY <1>1, <1>2, <1>3, PoolCall DEF ClientsNext, Outside

-----------------------------------------------------------------------------
(* The mutex of the proxy *)

CacheGuarded == \A k \in Proxies : call[k].step \in Gathering <=> cacheLock = k

\* The steps of a caller that gathers clients neither take nor release it.
LEMMA GatheringGoesOn ==
  ASSUME ClientTypes, NEW k \in Callers,
         \/ (\E s \in Devices : LookUpCached(k, s)) \/ CreateGRPCClient(k)
         \/ GetClientAttempt(k) \/ InitializeClient(k) \/ HealthCheck(k) \/ RemoveClient(k)
  PROVE  /\ call[k].step \in Gathering /\ call'[k].step \in Gathering
         /\ cacheLock' = cacheLock
         /\ \A j \in Callers \ {k} : call'[j] = call[j]
<1> USE DEF Gathering
<1>0. call \in [Callers -> CallType] /\ call[k] \in CallType
  BY CallerTypes
<1>1. ASSUME NEW s \in Devices, LookUpCached(k, s)
      PROVE  /\ call[k].step = "collecting" /\ call'[k].step = "collecting"
             /\ cacheLock' = cacheLock
             /\ \A j \in Callers \ {k} : call'[j] = call[j]
  <2>1. /\ call[k].step = "collecting" /\ cacheLock' = cacheLock
        /\ \/ call' = [call EXCEPT ![k].todo = @ \ {s}, ![k].clients[s] = cached[s]]
           \/ call' = [call EXCEPT ![k].todo = @ \ {s}, ![k].dev = s]
    BY <1>1 DEF LookUpCached
  <2> QED BY <1>0, <2>1 DEF CallType
<1>2. CASE CreateGRPCClient(k)
  BY <1>0, <1>2 DEF CreateGRPCClient, CallType, cacheVars
<1>3. CASE GetClientAttempt(k)
  <2>1. /\ call[k].step = "attempt" /\ cacheLock' = cacheLock
        /\ \/ call' = [call EXCEPT ![k].step = "checking", ![k].got = pool[call[k].ip]]
           \/ call' = [call EXCEPT ![k].step = "dialing", ![k].got = NewConn]
    BY <1>3, AttemptCases DEF Share, Dial
  <2>2. call'[k].step \in {"checking", "dialing"}
    BY <1>0, <2>1 DEF CallType
  <2>3. \A j \in Callers \ {k} : call'[j] = call[j]
    BY <1>0, <2>1
  <2> QED BY <2>1, <2>2, <2>3
<1>4. CASE InitializeClient(k)
  BY <1>0, <1>4, InitializeCases, NextTryType DEF Keep, GiveUp, CallType
<1>5. CASE HealthCheck(k)
  <2>1. call[k].step = "checking" /\ cacheLock' = cacheLock
    BY <1>5 DEF HealthCheck
  <2> QED BY <1>0, <1>5, <2>1, HealthTypes
<1>6. CASE RemoveClient(k)
  <2>1. call[k].step = "removing" /\ cacheLock' = cacheLock
    BY <1>6 DEF RemoveClient
  <2> QED BY <1>0, <1>6, <2>1, RemoveTypes
<1> QED BY <1>1, <1>2, <1>3, <1>4, <1>5, <1>6

LEMMA CacheCall ==
  ASSUME ClientTypes, CacheGuarded, NEW k \in Callers, CallStep(k)
  PROVE  CacheGuarded'
<1> USE DEF CacheGuarded
<1>0. /\ call \in [Callers -> CallType] /\ call[k] \in CallType /\ Formed(k, call[k])
      /\ Proxies \subseteq Callers /\ Nobody \notin Callers
  BY CallerTypes, ClientsAssumption DEF Callers
<1>1. CASE LockCache(k)
  <2>1. /\ k \in Proxies /\ cacheLock = Nobody /\ cacheLock' = k
        /\ call'[k].step = "collecting"
        /\ \A j \in Callers \ {k} : call'[j] = call[j]
    BY <1>0, <1>1 DEF LockCache, Formed, CallType
  <2> QED BY <1>0, <2>1 DEF Gathering
<1>2. CASE Collected(k)
  <2>1. /\ call[k].step = "collecting"
        /\ cacheLock' = IF k \in Proxies THEN Nobody ELSE cacheLock
        /\ \A j \in Callers \ {k} : call'[j] = call[j]
    BY <1>0, <1>2 DEF Collected
  <2>2. call'[k].step \in {"idle", "using"}
    <3>1. [IdleCall EXCEPT !.step = "using", !.clients = call[k].clients].step = "using"
      BY IdleType DEF CallType
    <3>2. \/ call'[k] = IdleCall
          \/ call'[k] = [IdleCall EXCEPT !.step = "using", !.clients = call[k].clients]
      BY <1>0, <1>2 DEF Collected
    <3> QED BY <3>1, <3>2, IdleType
  <2> QED BY <1>0, <2>1, <2>2 DEF Gathering
<1>3. CASE Return(k)
  <2>1. /\ call[k].step = "using" /\ cacheLock' = cacheLock /\ call'[k].step = "idle"
        /\ \A j \in Callers \ {k} : call'[j] = call[j]
    BY <1>0, <1>3, IdleType DEF Return, cacheVars
  <2> QED BY <1>0, <2>1 DEF Gathering
<1>4. CASE \/ (\E s \in Devices : LookUpCached(k, s)) \/ CreateGRPCClient(k)
           \/ GetClientAttempt(k) \/ InitializeClient(k) \/ HealthCheck(k) \/ RemoveClient(k)
  <2>1. /\ call[k].step \in Gathering /\ call'[k].step \in Gathering
        /\ cacheLock' = cacheLock
        /\ \A j \in Callers \ {k} : call'[j] = call[j]
    BY <1>4, GatheringGoesOn
  <2> QED BY <1>0, <2>1
<1> QED BY <1>1, <1>2, <1>3, <1>4 DEF CallStep

LEMMA CacheStep ==
  ASSUME ClientTypes, CacheGuarded, [ClientsNext]_clientVars
  PROVE  CacheGuarded'
<1>0. Proxies \subseteq Callers /\ Others \subseteq Callers /\ Proxies \cap Others = {}
  BY ClientsAssumption DEF Callers
<1>1. CASE UNCHANGED clientVars \/ Outside
  <2>1. call' = call /\ cacheLock' = cacheLock
    BY <1>1 DEF clientVars, Outside, PodGone, PodStarts, AgentStopsAnswering,
       AgentAnswersAgain, cacheVars
  <2> QED BY <2>1 DEF CacheGuarded
<1>2. CASE ManagerRestarts
  <2>1. cacheLock' = Nobody /\ \A k \in Callers : call'[k].step = "idle" /\ k # Nobody
    BY <1>2, IdleType, ClientsAssumption DEF ManagerRestarts, Callers
  <2> QED BY <1>0, <2>1 DEF CacheGuarded, Gathering
<1>3. ASSUME NEW k \in Proxies, BeginRequest(k) PROVE CacheGuarded'
  <2>1. /\ call[k].step = "idle" /\ call'[k].step = "locking" /\ cacheLock' = cacheLock
        /\ \A j \in Callers \ {k} : call'[j] = call[j]
    BY <1>0, <1>3, CallerTypes DEF BeginRequest, CallType, cacheVars
  <2> QED BY <1>0, <2>1 DEF CacheGuarded, Gathering
<1>4. ASSUME NEW k \in Others, NEW s \in Devices, BeginCall(k, s) PROVE CacheGuarded'
  <2>1. cacheLock' = cacheLock /\ \A j \in Callers \ {k} : call'[j] = call[j]
    BY <1>0, <1>4, CallerTypes DEF BeginCall, cacheVars
  <2> QED BY <1>0, <2>1 DEF CacheGuarded
<1> QED BY <1>1, <1>2, <1>3, <1>4, CacheCall DEF ClientsNext, Outside

-----------------------------------------------------------------------------
(* Theorems *)

LEMMA ClientsAreInductive ==
  ClientsInit /\ [][ClientsNext]_clientVars => [](ClientTypes /\ PoolInvariant)
<1>1. ClientsInit => ClientTypes /\ PoolInvariant
  <2> SUFFICES ASSUME ClientsInit
               PROVE  ClientTypes /\ PoolInvariant
    OBVIOUS
  <2>1. mishaps \in 0..MaxMishaps
    BY ClientsAssumption DEF ClientsInit
  <2>2. ClientTypes
    BY <2>1, StartTypes DEF ClientsInit, ClientTypes, ClientsTypeOK, CallType
  <2>3. PoolInvariant
    BY PoolStart DEF ClientsInit
  <2> QED BY <2>2, <2>3
<1>2. ClientTypes /\ PoolInvariant /\ [ClientsNext]_clientVars => (ClientTypes /\ PoolInvariant)'
  BY TypesStep, PoolStep
<1> QED BY <1>1, <1>2, PTL

\* The model of the clients keeps its types for any number of callers: a call
\* makes no more than MaxRetries attempts, and what it carries through the pool
\* is a device, an IP and a connection.
THEOREM ClientsKeepTypes == ClientsSpec => []ClientsTypeOK
<1>1. ClientTypes => ClientsTypeOK
  BY DEF ClientTypes
<1> QED BY <1>1, ClientsAreInductive, PTL DEF ClientsSpec

\* However many callers share, replace and remove clients of the pool at once, a
\* pooled connection leads to its IP and no connection stays open unowned.
THEOREM ConnectionsAreOwned == ClientsSpec => []PoolOwnsConnections
<1>1. PoolInvariant => PoolOwnsConnections
  BY DEF PoolInvariant
<1> QED BY <1>1, ClientsAreInductive, PTL DEF ClientsSpec

\* The two mutexes cannot deadlock, for any number of devices, requests and other
\* callers: each is held exactly at the steps between its Lock and its Unlock, on
\* every way through getAllAvailableGRPCClients and GetClient, and the holder of the
\* pool's waits for none.
THEOREM LocksOrdered == ClientsSpec => []LocksAreOrdered
<1>1. ClientsInit => CacheGuarded
  BY IdleType, ClientsAssumption DEF ClientsInit, ManagerStart, CacheGuarded, Gathering,
     Callers
<1>2. ClientTypes /\ CacheGuarded /\ [ClientsNext]_clientVars => CacheGuarded'
  BY CacheStep
<1>3. PoolInvariant /\ CacheGuarded => LocksAreOrdered
  BY DEF PoolInvariant, Dialing, CacheGuarded, LocksAreOrdered
<1> QED BY <1>1, <1>2, <1>3, ClientsAreInductive, PTL DEF ClientsSpec

-----------------------------------------------------------------------------
(* When sweeps run.  The list of pending events is written by the loop and *)
(* by callbacks without a lock.  What saves it is that the loop arms the   *)
(* timer together with its write, for which it must have an event in hand. *)

(* The inductive invariant. *)
MirrorInv ==
  /\ MirrorTypeOK
  /\ phase = "received" => taken # NoTrigger
  /\ NoStrandedEvents

USE DEF Phases, Steps, SyncAges

LEMMA NoTriggerIsApart == NoTrigger \notin Triggers /\ NoTrigger \in Sweepers
BY MirrorAssumption DEF Sweepers

(* A trigger is queued if it fits, and never beyond the capacity.          *)
LEMMA TriggerTypes ==
  ASSUME MirrorTypeOK, NEW r \in Triggers, TriggerMirror(r)
  PROVE  /\ channel' \in Seq(Triggers) /\ Len(channel') <= ChanCap
         /\ owed' \in SUBSET Triggers
<1>1. channel \in Seq(Triggers) /\ Len(channel) \in Nat /\ Len(channel) <= ChanCap
  BY DEF MirrorTypeOK
<1>2. /\ Append(channel, r) \in Seq(Triggers)
      /\ Len(Append(channel, r)) = Len(channel) + 1
  BY <1>1
<1>3. CASE Len(channel) < ChanCap
  BY <1>1, <1>2, <1>3, MirrorAssumption DEF TriggerMirror, MirrorTypeOK
<1>4. CASE ~(Len(channel) < ChanCap)
  BY <1>1, <1>4 DEF TriggerMirror, MirrorTypeOK
<1> QED BY <1>3, <1>4

(* However a sweep ends, its owner covers nothing any more.                *)
LEMMA SweepTypes ==
  ASSUME MirrorTypeOK, NEW x \in Sweepers, SweepEnds(x)
  PROVE  /\ lastSync' \in SyncAges
         /\ covers' \in [Sweepers -> SUBSET Triggers]
         /\ owed' \in SUBSET Triggers
         /\ mishaps' \in 0..MaxMishaps
<1>1. mishaps \in 0..MaxMishaps /\ owed \subseteq Triggers /\ lastSync \in SyncAges
      /\ covers \in [Sweepers -> SUBSET Triggers]
  BY DEF MirrorTypeOK
<1>2. covers' \in [Sweepers -> SUBSET Triggers]
  BY <1>1 DEF SweepEnds
<1>3. CASE lastSync' = "recent" /\ owed' = owed \ covers[x] /\ UNCHANGED mishaps
  BY <1>1, <1>2, <1>3
<1>4. CASE UNCHANGED <<lastSync, owed, mishaps>>
  BY <1>1, <1>2, <1>4
<1>5. CASE Mishap /\ UNCHANGED <<lastSync, owed>>
  <2>1. mishaps' \in 0..MaxMishaps
    BY <1>1, <1>5, MirrorAssumption DEF Mishap
  <2> QED BY <1>1, <1>2, <1>5, <2>1
<1> QED BY <1>3, <1>4, <1>5 DEF SweepEnds

(* A process that holds nothing is well-typed.                             *)
LEMMA NothingHeld ==
  /\ <<>> \in Seq(Triggers) /\ Len(<<>>) <= ChanCap
  /\ [r \in Triggers |-> "free"] \in [Triggers -> Steps]
  /\ [x \in Sweepers |-> {}] \in [Sweepers -> SUBSET Triggers]
  /\ 0 \in 0..MaxMishaps
<1>1. <<>> \in Seq(Triggers) /\ Len(<<>>) = 0
  OBVIOUS
<1>2. 0 <= ChanCap /\ 0 \in 0..MaxMishaps
  BY MirrorAssumption
<1>3. [r \in Triggers |-> "free"] \in [Triggers -> Steps]
  OBVIOUS
<1>4. [x \in Sweepers |-> {}] \in [Sweepers -> SUBSET Triggers]
  OBVIOUS
<1> QED BY <1>1, <1>2, <1>3, <1>4

(* After the end of the process the invariant holds because all is empty.  *)
LEMMA GoneProcess ==
  ASSUME MirrorTypeOK, ProcessGone, mishaps' \in 0..MaxMishaps
  PROVE  MirrorInv'
<1>1. MirrorTypeOK'
  BY NothingHeld, NoTriggerIsApart DEF ProcessGone, MirrorTypeOK
<1> QED BY <1>1 DEF ProcessGone, MirrorInv, NoStrandedEvents

LEMMA MirrorInvInit == MirrorInit => MirrorInv
<1> SUFFICES ASSUME MirrorInit PROVE MirrorInv
  OBVIOUS
<1>1. MirrorTypeOK
  BY NothingHeld, NoTriggerIsApart DEF MirrorInit, MirrorTypeOK
<1> QED BY <1>1 DEF MirrorInit, MirrorInv, NoStrandedEvents

LEMMA MirrorInvStep == MirrorInv /\ [MirrorNext]_mirrorVars => MirrorInv'
<1> SUFFICES ASSUME MirrorInv, [MirrorNext]_mirrorVars PROVE MirrorInv'
  OBVIOUS
<1>0. MirrorTypeOK
  BY DEF MirrorInv
<1>a. ASSUME Mishap PROVE mishaps' \in 0..MaxMishaps
  BY <1>0, <1>a, MirrorAssumption DEF MirrorTypeOK, Mishap
<1>b. ASSUME NEW r \in Triggers, HandleMirrorSync(r) PROVE MirrorInv'
  <2>1. MirrorTypeOK'
    BY <1>0, <1>b, TriggerTypes DEF HandleMirrorSync, MirrorTypeOK
  <2> QED BY <1>b, <2>1 DEF HandleMirrorSync, MirrorInv, NoStrandedEvents, ActiveCallbacks
<1>1. ASSUME NEW r \in Triggers, HandleMirrorSync(r) \/ ControllerDivergence(r)
      PROVE  MirrorInv'
  BY <1>b, <1>1 DEF ControllerDivergence
<1>2. ASSUME NEW r \in Triggers, AgentReady(r) PROVE MirrorInv'
  <2>1. /\ channel' \in Seq(Triggers) /\ Len(channel') <= ChanCap
        /\ owed' \in SUBSET Triggers
    <3>1. CASE TriggerMirror(r)
      BY <1>0, <3>1, TriggerTypes
    <3>2. CASE UNCHANGED <<channel, owed>>
      BY <1>0, <3>2 DEF MirrorTypeOK
    <3> QED BY <1>2, <3>1, <3>2 DEF AgentReady
  <2>2. MirrorTypeOK'
    BY <1>0, <1>2, <2>1 DEF AgentReady, MirrorTypeOK
  <2> QED BY <1>2, <2>2 DEF AgentReady, MirrorInv, NoStrandedEvents, ActiveCallbacks
<1>3. ASSUME NEW r \in Triggers, ProcessPendingEvents(r) PROVE MirrorInv'
  <2>1. r \in Sweepers
    BY DEF Sweepers
  <2>2. covers' \in [Sweepers -> SUBSET Triggers]
    BY <1>0, <1>3, <2>1 DEF ProcessPendingEvents, SweepBegins, MirrorTypeOK
  <2>3. /\ callback' \in [Triggers -> Steps]
        /\ callback'[r] # "free"
    BY <1>0, <1>3 DEF ProcessPendingEvents, MirrorTypeOK
  <2>4. MirrorTypeOK'
    BY <1>0, <1>3, <2>2, <2>3 DEF ProcessPendingEvents, queueVars, MirrorTypeOK
  <2>5. ActiveCallbacks' # {}
    BY <2>3 DEF ActiveCallbacks
  <2> QED BY <1>3, <2>4, <2>5 DEF ProcessPendingEvents, queueVars, MirrorInv, NoStrandedEvents
<1>4. ASSUME NEW r \in Triggers, CallbackSweepEnds(r) PROVE MirrorInv'
  <2>1. r \in Sweepers
    BY DEF Sweepers
  <2>2. /\ callback' \in [Triggers -> Steps]
        /\ callback'[r] # "free"
    BY <1>0, <1>4 DEF CallbackSweepEnds, MirrorTypeOK
  <2>3. MirrorTypeOK'
    BY <1>0, <1>4, <2>1, <2>2, SweepTypes DEF CallbackSweepEnds, queueVars, MirrorTypeOK
  <2>4. ActiveCallbacks' # {}
    BY <2>2 DEF ActiveCallbacks
  <2> QED BY <1>4, <2>3, <2>4 DEF CallbackSweepEnds, queueVars, MirrorInv, NoStrandedEvents
<1>5. ASSUME NEW r \in Triggers, CallbackClears(r) PROVE MirrorInv'
  <2>1. <<>> \in Seq(Triggers)
    OBVIOUS
  <2>2. MirrorTypeOK'
    BY <1>0, <1>5, <2>1 DEF CallbackClears, MirrorTypeOK
  <2> QED BY <1>5, <2>2 DEF CallbackClears, MirrorInv, NoStrandedEvents
<1>6. CASE AgentsGone
  <2>1. MirrorTypeOK'
    BY <1>0, <1>6, <1>a DEF AgentsGone, queueVars, MirrorTypeOK
  <2> QED BY <1>6, <2>1 DEF AgentsGone, queueVars, MirrorInv, NoStrandedEvents, ActiveCallbacks
<1>7. CASE Start \/ AgentsAreReady
  <2>1. MirrorTypeOK'
    BY <1>0, <1>7 DEF Start, AgentsAreReady, queueVars, MirrorTypeOK
  <2> QED BY <1>7, <2>1 DEF Start, AgentsAreReady, queueVars, MirrorInv,
                           NoStrandedEvents, ActiveCallbacks
<1>8. CASE WaitFails \/ Exit \/ Crash
  <2>1. ProcessGone /\ mishaps' \in 0..MaxMishaps
    BY <1>0, <1>8, <1>a DEF WaitFails, Exit, Crash, MirrorTypeOK
  <2> QED BY <1>0, <2>1, GoneProcess
<1>9. CASE Cancel
  <2>1. MirrorTypeOK'
    BY <1>0, <1>9, <1>a DEF Cancel, queueVars, MirrorTypeOK
  <2> QED BY <1>9, <2>1 DEF Cancel, queueVars, MirrorInv, NoStrandedEvents, ActiveCallbacks
<1>10. CASE StopLoop
  <2>1. MirrorTypeOK'
    BY <1>0, <1>10, NoTriggerIsApart DEF StopLoop, MirrorTypeOK
  <2> QED BY <1>10, <2>1 DEF StopLoop, MirrorInv, NoStrandedEvents
<1>11. CASE Receive
  <2>1. channel \in Seq(Triggers) /\ channel # <<>> /\ Len(channel) <= ChanCap
    BY <1>0, <1>11 DEF Receive, MirrorTypeOK
  <2>2. /\ Head(channel) \in Triggers /\ Tail(channel) \in Seq(Triggers)
        /\ Len(Tail(channel)) <= ChanCap
    BY <2>1, MirrorAssumption
  <2>3. MirrorTypeOK' /\ taken' # NoTrigger
    BY <1>0, <1>11, <2>2, NoTriggerIsApart DEF Receive, MirrorTypeOK, Sweepers
  <2> QED BY <1>11, <2>3 DEF Receive, MirrorInv, NoStrandedEvents, ActiveCallbacks
<1>12. CASE Arm
  <2>1. taken \in Triggers
    BY <1>0, <1>12 DEF Arm, MirrorInv, MirrorTypeOK, Sweepers
  <2>2. Append(seen, taken) \in Seq(Triggers) /\ <<>> \in Seq(Triggers)
    BY <1>0, <2>1 DEF MirrorTypeOK
  <2>3. MirrorTypeOK'
    BY <1>0, <1>12, <2>1, <2>2, NoTriggerIsApart DEF Arm, MirrorTypeOK
  <2>4. timer' # NoTrigger
    BY <1>12, <2>1, NoTriggerIsApart DEF Arm
  <2> QED BY <1>12, <2>3, <2>4 DEF Arm, MirrorInv, NoStrandedEvents
<1>13. CASE TickerFires \/ TimePasses
  <2>1. MirrorTypeOK'
    BY <1>0, <1>13 DEF TickerFires, TimePasses, queueVars, MirrorTypeOK
  <2> QED BY <1>13, <2>1 DEF TickerFires, TimePasses, queueVars, MirrorInv,
                            NoStrandedEvents, ActiveCallbacks
<1>14. CASE PeriodicTick
  <2>1. MirrorTypeOK'
    BY <1>0, <1>14, NoTriggerIsApart DEF PeriodicTick, SweepBegins, queueVars, MirrorTypeOK
  <2> QED BY <1>14, <2>1 DEF PeriodicTick, queueVars, MirrorInv, NoStrandedEvents, ActiveCallbacks
<1>15. CASE PeriodicSweepEnds
  <2>1. MirrorTypeOK'
    BY <1>0, <1>15, SweepTypes, NoTriggerIsApart
    DEF PeriodicSweepEnds, queueVars, MirrorTypeOK
  <2> QED BY <1>15, <2>1 DEF PeriodicSweepEnds, queueVars, MirrorInv, NoStrandedEvents, ActiveCallbacks
<1>16. CASE TimerFires
  <2>1. timer \in Triggers
    BY <1>0, <1>16 DEF TimerFires, MirrorTypeOK, Sweepers
  <2>2. callback' \in [Triggers -> Steps] /\ callback'[timer] # "free"
    BY <1>0, <1>16, <2>1 DEF TimerFires, MirrorTypeOK
  <2>3. MirrorTypeOK'
    BY <1>0, <1>16, <2>2, NoTriggerIsApart DEF TimerFires, MirrorTypeOK
  <2>4. ActiveCallbacks' # {}
    BY <2>1, <2>2 DEF ActiveCallbacks
  <2> QED BY <1>16, <2>3, <2>4 DEF TimerFires, MirrorInv, NoStrandedEvents
<1>17. CASE UNCHANGED mirrorVars
  BY <1>17 DEF mirrorVars, MirrorInv, MirrorTypeOK, NoStrandedEvents, ActiveCallbacks
<1> QED
  BY <1>1, <1>2, <1>3, <1>4, <1>5, <1>6, <1>7, <1>8, <1>9, <1>10, <1>11, <1>12, <1>13,
     <1>14, <1>15, <1>16, <1>17 DEF MirrorNext

(* The channel of TriggerMirror never holds more than its capacity and     *)
(* every variable keeps its type, whatever is raised while sweeps run.     *)
THEOREM MirrorTypes == MirrorSpec => []MirrorTypeOK
<1>1. MirrorInv => MirrorTypeOK
  BY DEF MirrorInv
<1> QED BY <1>1, MirrorInvInit, MirrorInvStep, PTL DEF MirrorSpec

(* Whatever the order in which the loop of Start appends to pendingEvents, *)
(* callbacks clear it, sweeps fail and processes end: events that wait     *)
(* have a timer or a callback that will look at them.                      *)
THEOREM EventsAreNotStranded == MirrorSpec => []NoStrandedEvents
<1>1. MirrorInv => NoStrandedEvents
  BY DEF MirrorInv
<1> QED BY <1>1, MirrorInvInit, MirrorInvStep, PTL DEF MirrorSpec
=============================================================================
