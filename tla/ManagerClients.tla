---------------------------- MODULE ManagerClients ----------------------------
(***************************************************************************)
(* How the manager reaches the agents.  A caller (a request of the REST    *)
(* proxy, the mirror, the secret controller) finds the pod of a device by  *)
(* its labels and asks the connection pool for a client of the pod's IP.   *)
(* The pool keeps one connection per IP for all callers, behind one mutex  *)
(* that is held while a new connection is tried out.  The proxy keeps, on  *)
(* top of that, the client it last got for each serial number, behind a    *)
(* mutex of its own that it holds while it collects clients.               *)
(*                                                                         *)
(* A connection is known by a number.  conn[c] is the IP it leads to, NoIP *)
(* once it is closed; gRPC redials the IP by itself, so an open connection *)
(* answers whenever the agent at its IP does.  A number that nothing holds *)
(* any more is used again.  Reference counts and metrics are only reported *)
(* and are left out.                                                       *)
(*                                                                         *)
(* Mishaps: a pod goes away, an agent stops answering, a call times out,   *)
(* the manager restarts.                                                   *)
(***************************************************************************)
EXTENDS Mishaps, FiniteSets

CONSTANTS
  Devices,     \* the devices of the ready pools, by serial number
  Proxies,     \* requests of the REST proxy that can be under way at a time
  Others,      \* other callers that can be under way at a time
  IPs,         \* the IPs agent pods can have
  NoIP, NoConn, NoDevice, Nobody,
  MaxConns,    \* bound: connections that are referred to at a time
  MaxRetries   \* attempts of GetClient (3 in the code)

ASSUME ClientsAssumption ==
  /\ IsFiniteSet(Devices) /\ IsFiniteSet(IPs)
  /\ Proxies \cap Others = {}
  /\ NoIP \notin IPs /\ NoDevice \notin Devices
  /\ Nobody \notin Proxies \cup Others
  /\ MaxConns \in Nat /\ NoConn \notin 1..MaxConns
  /\ MaxRetries \in Nat \ {0} /\ MaxMishaps \in Nat

Conns == 1..MaxConns
Callers == Proxies \cup Others

VARIABLES
  podIP,      \* podIP[s]: the IP of the running agent pod of s
  answering,  \* answering[s]: that agent answers and its token is there
  conn,       \* conn[c]: where connection c leads
  pool,       \* pool[ip]: clients of the ConnectionPool
  poolLock,   \* who holds the mutex of the pool
  cached,     \* cached[s]: grpcClients of the proxy
  cacheLock,  \* who holds clientsMutex
  call        \* call[k]: the call of caller k

podVars == <<podIP, answering>>
poolVars == <<conn, pool, poolLock>>
cacheVars == <<cached, cacheLock>>
clientVars ==
  <<podIP, answering, conn, pool, poolLock, cached, cacheLock, call,
    mishaps>>

NoClients == [s \in Devices |-> NoConn]
IdleCall ==
  [step |-> "idle", todo |-> {}, dev |-> NoDevice, ip |-> NoIP, tries |-> 0,
   got |-> NoConn, clients |-> NoClients]

CallSteps ==
  {"idle", "locking", "collecting", "attempt", "dialing", "checking", "removing", "using"}

(* Types of the pods, the pool, the cache and the calls. *)
ClientsTypeOK ==
  /\ podIP \in [Devices -> IPs \cup {NoIP}]
  /\ answering \in [Devices -> BOOLEAN]
  /\ conn \in [Conns -> IPs \cup {NoIP}]
  /\ pool \in [IPs -> Conns \cup {NoConn}]
  /\ poolLock \in Callers \cup {Nobody}
  /\ cached \in [Devices -> Conns \cup {NoConn}]
  /\ cacheLock \in Proxies \cup {Nobody}
  /\ call \in [Callers ->
       [step : CallSteps, todo : SUBSET Devices, dev : Devices \cup {NoDevice},
        ip : IPs \cup {NoIP}, tries : 0..(MaxRetries - 1), got : Conns \cup {NoConn},
        clients : [Devices -> Conns \cup {NoConn}]]]
  /\ mishaps \in 0..MaxMishaps

(* What a manager that has just started holds. *)
ManagerStart ==
  /\ conn = [c \in Conns |-> NoIP] /\ pool = [ip \in IPs |-> NoConn]
  /\ poolLock = Nobody /\ cacheLock = Nobody
  /\ cached = NoClients
  /\ call = [k \in Callers |-> IdleCall]

(* No two pods have the same IP. *)
DistinctIPs(ips) ==
  \A s, t \in Devices : s # t => ips[s] # ips[t] \/ ips[s] = NoIP

ClientsInit ==
  /\ podIP \in {f \in [Devices -> IPs \cup {NoIP}] : DistinctIPs(f)}
  /\ answering = [s \in Devices |-> TRUE]
  /\ ManagerStart
  /\ mishaps = 0

-----------------------------------------------------------------------------
(* Pods and agents.                                                        *)

(* The pod of a device is deleted, evicted or moved. *)
PodGone(s) ==
  /\ podIP[s] # NoIP
  /\ podIP' = [podIP EXCEPT ![s] = NoIP]
  /\ Mishap
  /\ UNCHANGED <<answering, poolVars, cacheVars, call>>

(* Its Deployment starts another one, with any IP that is free. *)
PodStarts(s) ==
  /\ podIP[s] = NoIP
  /\ \E ip \in IPs :
       /\ \A t \in Devices : podIP[t] # ip
       /\ podIP' = [podIP EXCEPT ![s] = ip]
  /\ answering' = [answering EXCEPT ![s] = TRUE]
  /\ UNCHANGED <<poolVars, cacheVars, call, mishaps>>

(* The token of the agent is gone, or the agent hangs; the probes make the *)
(* kubelet restart the container, which keeps its IP.                      *)
AgentStopsAnswering(s) ==
  /\ podIP[s] # NoIP /\ answering[s]
  /\ answering' = [answering EXCEPT ![s] = FALSE]
  /\ Mishap
  /\ UNCHANGED <<podIP, poolVars, cacheVars, call>>

AgentAnswersAgain(s) ==
  /\ ~answering[s]
  /\ answering' = [answering EXCEPT ![s] = TRUE]
  /\ UNCHANGED <<podIP, poolVars, cacheVars, call, mishaps>>

(* The devices whose agent an RPC on connection c reaches: one or none. *)
Reached(c) ==
  IF c = NoConn THEN {} ELSE {s \in Devices : podIP[s] = conn[c] /\ conn[c] # NoIP}

(* An RPC on c, IsConnected for one, succeeds. *)
Answers(c) == \E s \in Reached(c) : answering[s]

(* IsConnected as the caller sees it: a call may also run into its timeout. *)
IsConnected(c, result) ==
  \/ result = Answers(c) /\ UNCHANGED mishaps
  \/ result = FALSE /\ Answers(c) /\ Mishap

-----------------------------------------------------------------------------
(* The connection pool.                                                    *)

Held(k) == {call[k].got} \cup {call[k].clients[s] : s \in Devices}
Referred ==
  {pool[ip] : ip \in IPs} \cup {cached[s] : s \in Devices}
    \cup UNION {Held(k) : k \in Callers}
Unused == {c \in Conns : conn[c] = NoIP /\ c \notin Referred}

(* The number a new connection gets. *)
NewConn == CHOOSE c \in Unused : \A d \in Unused : c <= d

(* CreateGRPCClient: the caller lists the pods of the device; without a    *)
(* running one the device is left out.                                     *)
CreateGRPCClient(k) ==
  /\ call[k].step = "collecting" /\ call[k].dev # NoDevice
  /\ LET ip == podIP[call[k].dev] IN
       call' = [call EXCEPT
         ![k].ip = ip,
         ![k].step = IF ip = NoIP THEN "collecting" ELSE "attempt",
         ![k].dev = IF ip = NoIP THEN NoDevice ELSE @]
  /\ UNCHANGED <<podVars, poolVars, cacheVars, mishaps>>

(* getClientAttempt up to the new connection: a pooled connection that     *)
(* answers is shared, one that does not is closed and replaced.            *)
GetClientAttempt(k) ==
  /\ call[k].step = "attempt" /\ poolLock = Nobody
  /\ LET ip == call[k].ip
         old == pool[ip] IN
       \E ok \in BOOLEAN :
         /\ IsConnected(old, ok)
         /\ \/ /\ old # NoConn /\ ok
               /\ call' = [call EXCEPT ![k].step = "checking", ![k].got = old]
               /\ UNCHANGED poolVars
            \/ /\ ~ok /\ Unused # {}
               /\ conn' = [c \in Conns |-> IF c = old THEN NoIP
                                           ELSE IF c = NewConn THEN ip ELSE conn[c]]
               /\ pool' = [pool EXCEPT ![ip] = NoConn]
               /\ poolLock' = k
               /\ call' = [call EXCEPT ![k].step = "dialing", ![k].got = NewConn]
  /\ UNCHANGED <<podVars, cacheVars>>

(* Done with a device; after a last attempt that failed it is left out. *)
DeviceDone(k) == [call[k] EXCEPT !.step = "collecting", !.dev = NoDevice, !.ip = NoIP,
                             !.tries = 0, !.got = NoConn]

(* Mutant of NextTry: one attempt too many. *)
NextTryOnceMore(k) ==
  IF call[k].tries < MaxRetries
    THEN [call[k] EXCEPT !.step = "attempt", !.tries = @ + 1, !.got = NoConn]
    ELSE DeviceDone(k)

(* After a failed attempt it sleeps and tries again. *)
NextTry(k) ==
  IF call[k].tries + 1 < MaxRetries
    THEN [call[k] EXCEPT !.step = "attempt", !.tries = @ + 1, !.got = NoConn]
    ELSE DeviceDone(k)

(* Initialize calls GetInfo: the connection is pooled, or closed again. *)
InitializeClient(k) ==
  /\ call[k].step = "dialing"
  /\ \E ok \in BOOLEAN :
       /\ IsConnected(call[k].got, ok)
       /\ IF ok
            THEN /\ pool' = [pool EXCEPT ![call[k].ip] = call[k].got]
                 /\ call' = [call EXCEPT ![k].step = "checking"]
                 /\ UNCHANGED conn
            ELSE /\ conn' = [conn EXCEPT ![call[k].got] = NoIP]
                 /\ call' = [call EXCEPT ![k] = NextTry(k)]
                 /\ UNCHANGED pool
  /\ poolLock' = Nobody
  /\ UNCHANGED <<podVars, cacheVars>>

(* The client is handed to the caller; the proxy keeps it too. *)
Deliver(k) ==
  /\ call' = [call EXCEPT ![k] =
       [DeviceDone(k) EXCEPT !.clients[call[k].dev] = call[k].got]]
  /\ cached' = IF k \in Proxies THEN [cached EXCEPT ![call[k].dev] = call[k].got]
                                ELSE cached

(* The health check of getClientWithRetry, outside the pool's mutex. *)
HealthCheck(k) ==
  /\ call[k].step = "checking"
  /\ \E ok \in BOOLEAN :
       /\ IsConnected(call[k].got, ok)
       /\ IF ok
            THEN Deliver(k)
            ELSE call' = [call EXCEPT ![k].step = "removing"] /\ UNCHANGED cached
  /\ UNCHANGED <<podVars, poolVars, cacheLock>>

(* Mutant of RemoveClient: the entry goes and its connection stays open. *)
RemoveClientOnly(k) ==
  /\ call[k].step = "removing" /\ poolLock = Nobody
  /\ pool' = [pool EXCEPT ![call[k].ip] = NoConn]
  /\ IF call[k].tries + 1 < MaxRetries
       THEN call' = [call EXCEPT ![k] = NextTry(k)] /\ UNCHANGED cached
       ELSE Deliver(k)
  /\ UNCHANGED <<podVars, conn, poolLock, cacheLock, mishaps>>

(* RemoveClient closes whatever is pooled for the IP by now.  After the    *)
(* last attempt the removed client is returned all the same.               *)
RemoveClient(k) ==
  /\ call[k].step = "removing" /\ poolLock = Nobody
  /\ LET old == pool[call[k].ip] IN
       /\ conn' = [c \in Conns |-> IF c = old THEN NoIP ELSE conn[c]]
       /\ pool' = [pool EXCEPT ![call[k].ip] = NoConn]
  /\ IF call[k].tries + 1 < MaxRetries
       THEN call' = [call EXCEPT ![k] = NextTry(k)] /\ UNCHANGED cached
       ELSE Deliver(k)
  /\ UNCHANGED <<podVars, poolLock, cacheLock, mishaps>>

-----------------------------------------------------------------------------
(* Callers.                                                                *)

(* The mirror or the secret controller turns to a device. *)
BeginCall(k, s) ==
  /\ call[k].step = "idle"
  /\ call' = [call EXCEPT ![k].step = "collecting", ![k].dev = s]
  /\ UNCHANGED <<podVars, poolVars, cacheVars, mishaps>>

(* A request reaches the proxy, which has found the devices. *)
BeginRequest(k) ==
  /\ call[k].step = "idle"
  /\ call' = [call EXCEPT ![k].step = "locking", ![k].todo = Devices]
  /\ UNCHANGED <<podVars, poolVars, cacheVars, mishaps>>

LockCache(k) ==
  /\ call[k].step = "locking" /\ cacheLock = Nobody
  /\ cacheLock' = k
  /\ call' = [call EXCEPT ![k].step = "collecting"]
  /\ UNCHANGED <<podVars, poolVars, cached, mishaps>>

(* Mutant of LookUpCached: a cached client is not asked whether it is      *)
(* still connected.                                                        *)
LookUpCachedBlindly(k, s) ==
  /\ call[k].step = "collecting" /\ call[k].dev = NoDevice /\ s \in call[k].todo
  /\ IF cached[s] # NoConn
       THEN /\ call' = [call EXCEPT ![k].todo = @ \ {s}, ![k].clients[s] = cached[s]]
            /\ UNCHANGED cached
       ELSE /\ call' = [call EXCEPT ![k].todo = @ \ {s}, ![k].dev = s]
            /\ UNCHANGED cached
  /\ UNCHANGED <<podVars, poolVars, cacheLock, mishaps>>

(* getAllAvailableGRPCClients, one device: a cached client that answers is *)
(* taken, another one is dropped (its Close leaves the connection to the   *)
(* pool) and a new one is created.                                         *)
LookUpCached(k, s) ==
  /\ call[k].step = "collecting" /\ call[k].dev = NoDevice /\ s \in call[k].todo
  /\ \E ok \in BOOLEAN :
       /\ IsConnected(cached[s], ok)
       /\ IF ok
            THEN /\ call' = [call EXCEPT ![k].todo = @ \ {s}, ![k].clients[s] = cached[s]]
                 /\ UNCHANGED cached
            ELSE /\ call' = [call EXCEPT ![k].todo = @ \ {s}, ![k].dev = s]
                 /\ cached' = [cached EXCEPT ![s] = NoConn]
  /\ UNCHANGED <<podVars, poolVars, cacheLock>>

(* Mutant of Collected: the early return of a request without clients does *)
(* not unlock.                                                             *)
CollectedLocked(k) ==
  /\ call[k].step = "collecting" /\ call[k].dev = NoDevice /\ call[k].todo = {}
  /\ call' = [call EXCEPT ![k] =
       IF call[k].clients = NoClients
         THEN IdleCall
         ELSE [IdleCall EXCEPT !.step = "using", !.clients = call[k].clients]]
  /\ cacheLock' = IF k \in Proxies /\ call[k].clients # NoClients
                    THEN Nobody ELSE cacheLock
  /\ UNCHANGED <<podVars, poolVars, cached, mishaps>>

(* All devices looked at: the proxy lets go of its mutex.  A caller with   *)
(* no client at all has failed.                                            *)
Collected(k) ==
  /\ call[k].step = "collecting" /\ call[k].dev = NoDevice /\ call[k].todo = {}
  /\ call' = [call EXCEPT ![k] =
       IF call[k].clients = NoClients
         THEN IdleCall
         ELSE [IdleCall EXCEPT !.step = "using", !.clients = call[k].clients]]
  /\ cacheLock' = IF k \in Proxies THEN Nobody ELSE cacheLock
  /\ UNCHANGED <<podVars, poolVars, cached, mishaps>>

(* The RPCs the caller was after, each answered or failed, and the end. *)
Return(k) ==
  /\ call[k].step = "using"
  /\ call' = [call EXCEPT ![k] = IdleCall]
  /\ UNCHANGED <<podVars, poolVars, cacheVars, mishaps>>

ManagerRestarts ==
  /\ Mishap
  /\ conn' = [c \in Conns |-> NoIP] /\ pool' = [ip \in IPs |-> NoConn]
  /\ poolLock' = Nobody /\ cacheLock' = Nobody
  /\ cached' = NoClients
  /\ call' = [k \in Callers |-> IdleCall]
  /\ UNCHANGED podVars

-----------------------------------------------------------------------------
CallStep(k) ==
  \/ LockCache(k) \/ (\E s \in Devices : LookUpCached(k, s)) \/ CreateGRPCClient(k)
  \/ GetClientAttempt(k) \/ InitializeClient(k) \/ HealthCheck(k) \/ RemoveClient(k)
  \/ Collected(k) \/ Return(k)

ClientsNext ==
  \/ \E s \in Devices :
       \/ PodGone(s) \/ PodStarts(s) \/ AgentStopsAnswering(s) \/ AgentAnswersAgain(s)
       \/ \E k \in Others : BeginCall(k, s)
  \/ \E k \in Proxies : BeginRequest(k)
  \/ \E k \in Callers : CallStep(k)
  \/ ManagerRestarts

(* Every step of a call is bounded by a timeout, a mutex that is free is   *)
(* handed to a waiter in the end (Go's mutexes do not starve a waiter),    *)
(* and pods and agents come back.                                          *)
ClientsFairness ==
  /\ \A k \in Callers : SF_clientVars(CallStep(k))
  /\ WF_clientVars(\E s \in Devices : PodStarts(s) \/ AgentAnswersAgain(s))

ClientsSpec == ClientsInit /\ [][ClientsNext]_clientVars /\ ClientsFairness

-----------------------------------------------------------------------------
(* The pool owns its connections: a pooled one is open and leads to the IP *)
(* it is filed under, and an open one is pooled or being tried out by the  *)
(* holder of the mutex.  So an IP never has two pooled connections, and no *)
(* connection is left open that nobody will close.                         *)
PoolOwnsConnections ==
  /\ \A ip \in IPs : pool[ip] # NoConn => conn[pool[ip]] = ip
  /\ \A c \in Conns :
       conn[c] # NoIP =>
         \/ pool[conn[c]] = c
         \/ poolLock # Nobody /\ call[poolLock].step = "dialing" /\ call[poolLock].got = c

(* The steps at which a caller looks up and creates clients. *)
Gathering == {"collecting", "attempt", "dialing", "checking", "removing"}

(* Nobody waits in a circle: a request of the proxy holds clientsMutex     *)
(* exactly while it gathers clients, whichever way it leaves (a device     *)
(* without a pod, attempts used up, no client at all), and the mutex of    *)
(* the pool is held exactly by the caller that tries out a connection,     *)
(* which waits for neither.  So clientsMutex is taken before the pool's    *)
(* and never the other way round, and no mutex is left behind.             *)
LocksAreOrdered ==
  /\ \A k \in Proxies : call[k].step \in Gathering <=> cacheLock = k
  /\ \A k \in Callers : call[k].step = "dialing" <=> poolLock = k

(* Every call comes back, although callers wait for each other's mutexes   *)
(* while agents do not answer.                                             *)
EveryCallReturns ==
  \A k \in Callers : call[k].step # "idle" ~> call[k].step = "idle"

(* Pods and agents come back in the end, and a caller that is then left to *)
(* itself uses only clients that answer: closed connections, connections   *)
(* to IPs of pods that are gone and clients removed behind its back are    *)
(* weeded out by the checks on the way.  (Callers that are not alone can   *)
(* close each other's connections for ever.)                               *)
LoneCallerRecovers ==
  \A k \in Callers :
    <>[](\A j \in Callers \ {k} : call[j].step = "idle") =>
      <>[](\A s \in Devices :
             call[k].step = "using" /\ call[k].clients[s] # NoConn
               => Answers(call[k].clients[s]))

(* Does not hold: the client cached for a serial number leads, in the end, *)
(* to the agent of that device (proxy_client.go on grpcClients).  When a   *)
(* pod is given the IP of another one, the old client answers again, and   *)
(* nothing asks it which device it serves.                                 *)
CachedClientsReachTheirDevice ==
  <>[](\A k \in Proxies, s \in Devices :
         call[k].step = "using" => Reached(call[k].clients[s]) \subseteq {s})
=============================================================================
