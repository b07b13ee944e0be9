---------------------------- MODULE AgentProcess ----------------------------
(***************************************************************************)
(* One HSM agent and the token it serves: start-up with auto-provisioning, *)
(* the PKCS#11 session with its lock, the requests of the manager, the     *)
(* probes of the kubelet, and the restarts that follow from failed probes. *)
(* The token is known by what the agent can tell: whether it answers,      *)
(* whether its user PIN is set, how many login attempts are left, and      *)
(* which value of one secret it stores.                                    *)
(*                                                                         *)
(* Mishaps: the device is unplugged or wedged, the process crashes, an API *)
(* call fails, the PIN in the Secret changes.                              *)
(***************************************************************************)
EXTENDS Mishaps, FiniteSets

CONSTANTS
  Reads,       \* requests in flight that read
  Writes,      \* requests in flight that change the token
  Values,      \* contents of the secret
  Pins,        \* user PINs
  NoPin,       \* a blank token, or an empty PIN cache
  NoValue,     \* no object of the secret
  Torn,        \* some of its objects
  Nobody,      \* no request
  MaxTries,    \* wrong PINs a token accepts before it locks
  LiveLimit,   \* failed liveness probes before a restart
  ReadyLimit   \* failed readiness probes before the pod is not ready

Requests == Reads \cup Writes

ASSUME AgentAssumption ==
  /\ NoPin \notin Pins
  /\ {NoValue, Torn} \cap Values = {}
  /\ NoValue # Torn
  /\ Nobody \notin Requests
  /\ MaxTries \in Nat \ {0}
  /\ LiveLimit \in Nat \ {0}
  /\ ReadyLimit \in Nat \ {0}
  /\ MaxMishaps \in Nat

VARIABLES
  config,     \* --require-hardware, spec.pkcs11.autoProvision, library found
  device,     \* does the device answer
  token,      \* PIN, login attempts left and content, kept by the device
  pinSecret,  \* the PIN in the Secret spec.pkcs11.pinSecret names
  phase,      \* where Run is
  client,     \* hsmClient: PKCS11Client or MockClient
  connected,  \* PKCS11Client.connected
  session,    \* PKCS11Client.session
  searching,  \* the request whose object search the session is in
  pinCache,   \* KubernetesPINProvider.cachedPIN
  call,       \* the requests in flight
  fails,      \* consecutive failed probes, as the kubelet counts them
  ready,      \* the Ready condition of the pod
  acked       \* the last acknowledged content that nothing has touched since

process == <<phase, client, connected, session, searching, pinCache, call>>
kubelet == <<fails, ready>>
vars == <<config, device, token, pinSecret, process, kubelet, acked, mishaps>>

-----------------------------------------------------------------------------
(* State *)

Idle == [kind |-> "idle", step |-> "none", arg |-> NoValue]
Running(r) == call[r].step \notin {"none", "waiting"}
HoldsRead(r) == Running(r) /\ call[r].kind = "read"
HoldsWrite(r) == Running(r) /\ call[r].kind # "read"
Starting == {"getPIN", "login", "autoProvision", "provision", "relogin"}

AgentInit ==
  /\ config \in [require : BOOLEAN, auto : BOOLEAN, library : BOOLEAN]
  /\ device = "present"
  /\ pinSecret \in Pins
  /\ token \in [pin : {NoPin, pinSecret}, tries : {MaxTries}, data : {NoValue}]
  /\ phase = "down" /\ client = "none" /\ connected = FALSE /\ session = "none"
  /\ searching = Nobody /\ pinCache = NoPin
  /\ call = [r \in Requests |-> Idle]
  /\ fails = [live |-> 0, ready |-> 0] /\ ready = FALSE
  /\ acked = NoValue /\ mishaps = 0

-----------------------------------------------------------------------------
(* The device and the cluster around the agent *)

(* The device falls off the bus: its sessions are gone for good. *)
Unplug ==
  /\ device # "absent" /\ Mishap
  /\ device' = "absent"
  /\ session' = IF session = "live" THEN "dead" ELSE session
  /\ UNCHANGED <<config, token, pinSecret, phase, client, connected, searching,
                 pinCache, call, kubelet, acked>>

Plug ==
  /\ device = "absent"
  /\ device' = "present"
  /\ UNCHANGED <<config, token, pinSecret, process, kubelet, acked, mishaps>>

(* Every PKCS#11 call hangs until the reader is opened again. *)
Wedge ==
  /\ device = "present" /\ Mishap
  /\ device' = "wedged"
  /\ UNCHANGED <<config, token, pinSecret, process, kubelet, acked>>

(* Somebody edits the Secret that holds the PIN. *)
UpdatePinSecret(p) ==
  /\ p # pinSecret /\ Mishap
  /\ pinSecret' = p
  /\ UNCHANGED <<config, device, token, process, kubelet, acked>>

-----------------------------------------------------------------------------
(* Exit *)

(* The process is gone: its memory, its session and its requests with it. *)
ProcessGone ==
  /\ phase' = "down" /\ client' = "none" /\ connected' = FALSE
  /\ session' = "none" /\ searching' = Nobody /\ pinCache' = NoPin
  /\ call' = [r \in Requests |-> Idle]
  /\ fails' = [live |-> 0, ready |-> 0] /\ ready' = FALSE

Crash ==
  /\ phase # "down" /\ Mishap
  /\ ProcessGone
  /\ UNCHANGED <<config, device, token, pinSecret, acked>>

(* An error return of Run during start-up. *)
ExitWithError ==
  /\ ProcessGone
  /\ UNCHANGED <<config, device, token, pinSecret, acked>>

-----------------------------------------------------------------------------
(* Start-up *)

(* From here on the probes are answered by the health server. *)
Serve(kind) ==
  /\ phase' = "serving"
  /\ client' = kind
  /\ connected' = TRUE

(* The in-memory client, refused when real hardware is required. *)
FallBackToMock ==
  \/ /\ config.require
     /\ ExitWithError
  \/ /\ ~config.require
     /\ Serve("mock")
     /\ UNCHANGED <<config, device, token, pinSecret, session, searching,
                    pinCache, call, kubelet, acked>>

(* The library is looked up; without it the choice is between the mock and *)
(* an error.                                                               *)
StartWithoutLibrary ==
  /\ phase = "down" /\ ~config.library
  /\ FallBackToMock
  /\ UNCHANGED mishaps

(* pcscd starts and opens the reader, which ends a wedge. *)
StartPCSCD ==
  /\ phase = "down" /\ config.library
  /\ phase' = "getPIN"
  /\ device' = IF device = "wedged" THEN "present" ELSE device
  /\ UNCHANGED <<config, token, pinSecret, client, connected, session, searching,
                 pinCache, call, kubelet, acked, mishaps>>

PCSCDFails ==
  /\ phase = "getPIN" /\ Mishap
  /\ ExitWithError

(* Mutant of GetPIN: the Secret is read every time. *)
GetPINUncached == pinSecret

(* The PIN from the cache, else from the Secret.  Ten minutes of life are  *)
(* longer than a start-up, the only time a PIN is asked for.               *)
GetPIN == IF pinCache # NoPin THEN pinCache ELSE pinSecret

FetchPIN ==
  /\ phase = "getPIN"
  /\ \/ /\ pinCache' = GetPIN
        /\ phase' = "login"
        /\ UNCHANGED mishaps
     \/ /\ Mishap
        /\ phase' = "autoProvision"
        /\ UNCHANGED pinCache
  /\ UNCHANGED <<config, device, token, pinSecret, client, connected, session,
                 searching, call, kubelet, acked>>

(* C_Login: the right PIN restores the attempts, a wrong one uses one up;  *)
(* a token without a user PIN refuses before it counts.                    *)
LoggedIn(p) == device = "present" /\ token.tries > 0 /\ token.pin = p

(* Mutant of AfterLogin: a locked token goes on counting. *)
AfterLoginLocked(p) ==
  IF device # "present" \/ token.pin = NoPin THEN token
  ELSE [token EXCEPT !.tries = IF token.pin = p THEN MaxTries ELSE token.tries - 1]

AfterLogin(p) ==
  IF device # "present" \/ token.pin = NoPin \/ token.tries = 0 THEN token
  ELSE [token EXCEPT !.tries = IF token.pin = p THEN MaxTries ELSE token.tries - 1]

(* Initialize: find the slot, open a session, log in. *)
Initialize ==
  /\ phase = "login" /\ device # "wedged"
  /\ token' = AfterLogin(GetPIN)
  /\ \/ /\ LoggedIn(GetPIN)
        /\ Serve("pkcs11") /\ session' = "live"
     \/ /\ ~LoggedIn(GetPIN)
        /\ phase' = "autoProvision"
        /\ UNCHANGED <<client, connected, session>>
  /\ UNCHANGED <<config, device, pinSecret, searching, pinCache, call, kubelet,
                 acked, mishaps>>

(* Mutant of IsTokenBlank: whatever does not let us in is blank. *)
IsTokenBlankIfRefused == device = "present"

(* Exactly one token without a user PIN. *)
IsTokenBlank == device = "present" /\ token.pin = NoPin

(* The decision after a failed Initialize.  An HSMDevice that cannot be    *)
(* loaded counts as one that did not ask for provisioning.                 *)
AttemptAutoProvision ==
  /\ phase = "autoProvision" /\ device # "wedged"
  /\ \/ /\ config.auto /\ IsTokenBlank
        /\ phase' = "provision"
        /\ UNCHANGED <<config, device, token, pinSecret, client, connected, session,
                       searching, pinCache, call, kubelet, acked, mishaps>>
     \/ /\ config.auto /\ ~IsTokenBlank
        /\ ExitWithError
        /\ UNCHANGED mishaps
     \/ /\ ~config.auto
        /\ FallBackToMock
        /\ UNCHANGED mishaps
     \/ /\ config.auto /\ Mishap
        /\ FallBackToMock

(* sc-hsm-tool erases the token and sets the user PIN. *)
Provision ==
  /\ phase = "provision" /\ device = "present"
  /\ pinCache' = GetPIN
  /\ token' = [pin |-> GetPIN, tries |-> MaxTries, data |-> NoValue]
  /\ phase' = "relogin"
  /\ UNCHANGED <<config, device, pinSecret, client, connected, session, searching,
                 call, kubelet, acked, mishaps>>

(* The PIN cannot be read, the device is gone, or the 30 s are over. *)
ProvisionFails ==
  /\ phase = "provision"
  /\ \/ device # "present" /\ UNCHANGED mishaps
     \/ device = "present" /\ Mishap
  /\ ExitWithError

InitializeAgain ==
  /\ phase = "relogin" /\ device # "wedged"
  /\ \/ /\ LoggedIn(GetPIN)
        /\ Serve("pkcs11") /\ session' = "live"
        /\ token' = AfterLogin(GetPIN)
        /\ UNCHANGED <<config, device, pinSecret, searching, pinCache, call, kubelet,
                       acked, mishaps>>
     \/ /\ ~LoggedIn(GetPIN)
        /\ ProcessGone
        /\ token' = AfterLogin(GetPIN)
        /\ UNCHANGED <<config, device, pinSecret, acked, mishaps>>

-----------------------------------------------------------------------------
(* Requests *)

(* A handler of the gRPC server: refused unless the client is connected,   *)
(* then parked on the lock of the client.                                  *)
Handle(r, kind, arg) ==
  /\ phase = "serving" /\ client = "pkcs11" /\ connected
  /\ call[r] = Idle
  /\ call' = [call EXCEPT ![r] = [kind |-> kind, step |-> "waiting", arg |-> arg]]
  /\ UNCHANGED <<config, device, token, pinSecret, phase, client, connected, session,
                 searching, pinCache, kubelet, acked>>

ReadSecret(r) == Handle(r, "read", NoValue) /\ UNCHANGED mishaps
ReadMetadata(r) == Handle(r, "read", NoValue) /\ UNCHANGED mishaps
ListSecrets(r) == Handle(r, "read", NoValue) /\ UNCHANGED mishaps
GetChecksum(r) == Handle(r, "read", NoValue) /\ UNCHANGED mishaps
WriteSecret(r, v) == Handle(r, "write", v) /\ UNCHANGED mishaps
DeleteSecret(r) == Handle(r, "delete", NoValue) /\ UNCHANGED mishaps
DeleteSecretKey(r) == Handle(r, "deleteKey", NoValue) /\ UNCHANGED mishaps
ChangePIN(r, old, new) == old # new /\ Handle(r, "changePIN", <<old, new>>) /\ Mishap

(* The request is answered and its lock released. *)
Returns(r) == call' = [call EXCEPT ![r] = Idle]

(* The mock is written and read within one call. *)
MockWrite(v) ==
  /\ phase = "serving" /\ client = "mock"
  /\ acked' = v
  /\ UNCHANGED <<config, device, token, pinSecret, process, kubelet, mishaps>>

(* A call into the library returns only if the device is not wedged, and   *)
(* without an error only on a live session of a device that is there.      *)
Answers == device # "wedged"
Works == device = "present" /\ session = "live"

(* The lock of the client can be had. *)
Unlocked(r) ==
  /\ ~ \E q \in Requests : HoldsWrite(q)
  /\ call[r].kind # "read" => ~ \E q \in Requests : HoldsRead(q)

(* The lock is there and the flag, looked at again, says disconnected; or  *)
(* the library refuses: the request returns an error and nothing else.     *)
Fails(r) ==
  /\ \/ call[r].step = "waiting" /\ Unlocked(r) /\ (~connected \/ (Answers /\ ~Works))
     \/ call[r].step \in {"destroy", "create", "createRest"} /\ Answers /\ ~Works
  /\ Returns(r)
  /\ UNCHANGED <<config, device, token, pinSecret, phase, client, connected, session,
                 searching, pinCache, kubelet, acked, mishaps>>

(* The lock and C_FindObjectsInit: one search at a time on a session, and  *)
(* readers share it.  A call that hangs is shown as one still waiting.     *)
FindObjectsInit(r) ==
  /\ call[r].step = "waiting" /\ call[r].kind # "changePIN"
  /\ Unlocked(r) /\ connected /\ Works
  /\ \/ /\ searching = Nobody
        /\ searching' = r
        /\ call' = [call EXCEPT ![r].step = "search"]
     \/ /\ searching # Nobody
        /\ Returns(r)
        /\ UNCHANGED searching
  /\ UNCHANGED <<config, device, token, pinSecret, phase, client, connected, session,
                 pinCache, kubelet, acked, mishaps>>

(* Does the request go on to destroy objects?  A read does not, and a key  *)
(* that is not there is an error.                                          *)
Destroys(r) ==
  \/ call[r].kind \in {"write", "delete"}
  \/ /\ call[r].kind = "deleteKey"
     /\ token.data # NoValue

(* Mutant of FindObjectsFinal: an error of the search skips the final call. *)
FindObjectsFinalIfFound(r) ==
  /\ call[r].step = "search" /\ Answers
  /\ searching' = IF Works THEN Nobody ELSE searching
  /\ IF Works /\ Destroys(r)
     THEN call' = [call EXCEPT ![r].step = "destroy"]
     ELSE Returns(r)
  /\ UNCHANGED <<config, device, token, pinSecret, phase, client, connected, session,
                 pinCache, kubelet, acked, mishaps>>

(* C_FindObjects and C_FindObjectsFinal: the search is left in every case. *)
(* A read returns; the others destroy what was found.                      *)
FindObjectsFinal(r) ==
  /\ call[r].step = "search" /\ Answers
  /\ searching' = Nobody
  /\ IF Works /\ Destroys(r)
     THEN call' = [call EXCEPT ![r].step = "destroy"]
     ELSE Returns(r)
  /\ UNCHANGED <<config, device, token, pinSecret, phase, client, connected, session,
                 pinCache, kubelet, acked, mishaps>>

(* C_DestroyObject for one object after the other.  A deletion is then     *)
(* acknowledged; a failure between two objects leaves some of them.        *)
DestroyObjects(r) ==
  /\ call[r].step = "destroy" /\ Works
  /\ acked' = NoValue
  /\ \/ /\ token.data \in Values
        /\ token' = [token EXCEPT !.data = Torn]
        /\ UNCHANGED call
     \/ /\ token' = [token EXCEPT !.data = NoValue]
        /\ IF call[r].kind = "write"
           THEN call' = [call EXCEPT ![r].step = "create"]
           ELSE Returns(r)
  /\ UNCHANGED <<config, device, pinSecret, phase, client, connected, session,
                 searching, pinCache, kubelet, mishaps>>

(* C_CreateObject for each key, the metadata last. *)
CreateObject(r) ==
  /\ call[r].step = "create" /\ Works
  /\ token' = [token EXCEPT !.data = Torn]
  /\ call' = [call EXCEPT ![r].step = "createRest"]
  /\ UNCHANGED <<config, device, pinSecret, phase, client, connected, session,
                 searching, pinCache, kubelet, acked, mishaps>>

WriteMetadata(r) ==
  /\ call[r].step = "createRest" /\ Works
  /\ token' = [token EXCEPT !.data = call[r].arg]
  /\ acked' = call[r].arg
  /\ Returns(r)
  /\ UNCHANGED <<config, device, pinSecret, phase, client, connected, session,
                 searching, pinCache, kubelet, mishaps>>

InvalidateCache == pinCache' = NoPin

(* The lock and C_SetPIN; a success empties the cache of the PIN provider. *)
SetPIN(r) ==
  /\ call[r].step = "waiting" /\ call[r].kind = "changePIN"
  /\ Unlocked(r) /\ connected /\ Works
  /\ IF token.tries > 0 /\ token.pin = call[r].arg[1]
     THEN /\ token' = [token EXCEPT !.pin = call[r].arg[2], !.tries = MaxTries]
          /\ InvalidateCache
     ELSE /\ token' = [token EXCEPT !.tries = IF @ = 0 THEN 0 ELSE @ - 1]
          /\ UNCHANGED pinCache
  /\ Returns(r)
  /\ UNCHANGED <<config, device, pinSecret, phase, client, connected, session,
                 searching, kubelet, acked, mishaps>>

Proceed(r) ==
  \/ Fails(r) \/ FindObjectsInit(r) \/ FindObjectsFinal(r)
  \/ DestroyObjects(r) \/ CreateObject(r) \/ WriteMetadata(r) \/ SetPIN(r)

-----------------------------------------------------------------------------
(* Probes *)

(* Mutant of ProbeToken: the cached flag instead of the token. *)
ProbeTokenFlag(ok) ==
  /\ ok = (phase = "serving" /\ connected)
  /\ UNCHANGED connected

(* Mutant of ProbeToken: GetInfo does not look at the flag. *)
ProbeTokenLive(ok) ==
  /\ ok = (phase = "serving" /\ (client = "mock" \/ device = "present"))
  /\ connected' = (connected /\ device # "absent")

(* C_GetTokenInfo looks at the token in the slot and not at the session;   *)
(* of its errors, those of a device that is gone count as a lost token.    *)
GetTokenInfo == device = "present"
IsTokenLostError == device = "absent"

(* GetInfo: the flag, then the token.  A lost token clears the flag. *)
GetInfo(ok) ==
  /\ ok = (connected /\ GetTokenInfo)
  /\ connected' = (connected /\ ~IsTokenLostError)

(* A request for GetInfo runs to its end within one hold of the lock; like *)
(* a probe it clears the flag when the token is gone.                      *)
ServeGetInfo ==
  /\ phase = "serving" /\ client = "pkcs11" /\ connected
  /\ device # "wedged" /\ ~ \E q \in Requests : HoldsWrite(q)
  /\ \E ok \in BOOLEAN : GetInfo(ok)
  /\ UNCHANGED <<config, device, token, pinSecret, phase, client, session, searching,
                 pinCache, call, kubelet, acked, mishaps>>

(* GetInfo within three seconds; it waits for the lock and for the device. *)
ProbeToken(ok) ==
  \/ /\ phase # "serving"
     /\ ~ok /\ UNCHANGED connected
  \/ /\ phase = "serving" /\ client = "mock"
     /\ ok /\ UNCHANGED connected
  \/ /\ phase = "serving" /\ client = "pkcs11"
     /\ \/ device = "wedged" \/ \E q \in Requests : HoldsWrite(q)
     /\ ~ok /\ UNCHANGED connected
  \/ /\ phase = "serving" /\ client = "pkcs11"
     /\ device # "wedged" /\ ~ \E q \in Requests : HoldsWrite(q)
     /\ GetInfo(ok)

Capped(n, limit) == IF n < limit THEN n + 1 ELSE limit

(* A start-up that nothing blocks is over (pcscd 5 s, the rest 30 s) before *)
(* the probe that would end it (15 s, then every 20 s).                    *)
LivenessProbe ==
  /\ phase \notin {"down", "stopping"} /\ fails.live < LiveLimit
  /\ phase \in Starting /\ device # "wedged" => fails.live + 1 < LiveLimit
  /\ \E ok \in BOOLEAN :
       /\ ProbeToken(ok)
       /\ fails' = [fails EXCEPT !.live = IF ok THEN 0 ELSE @ + 1]
  /\ UNCHANGED <<config, device, token, pinSecret, phase, client, session, searching,
                 pinCache, call, ready, acked, mishaps>>

ReadinessProbe ==
  /\ phase \notin {"down", "stopping"}
  /\ \E ok \in BOOLEAN :
       /\ ProbeToken(ok)
       /\ fails' = [fails EXCEPT !.ready = IF ok THEN 0 ELSE Capped(@, ReadyLimit)]
       /\ ready' = (ok \/ (ready /\ fails'.ready < ReadyLimit))
  /\ UNCHANGED <<config, device, token, pinSecret, phase, client, session, searching,
                 pinCache, call, acked, mishaps>>

(* SIGTERM.  The handler is installed after start-up; before that the      *)
(* process just dies.  GracefulStop waits for the requests in flight.      *)
Terminate ==
  /\ fails.live = LiveLimit
  /\ \/ /\ phase \in Starting
        /\ ExitWithError
     \/ /\ phase = "serving"
        /\ phase' = "stopping" /\ ready' = FALSE
        /\ UNCHANGED <<config, device, token, pinSecret, client, connected, session,
                       searching, pinCache, call, fails, acked>>
  /\ UNCHANGED mishaps

(* The requests are done: the session is closed and pcscd stopped. *)
Close ==
  /\ phase = "stopping"
  /\ \A r \in Requests : call[r] = Idle
  /\ ExitWithError
  /\ UNCHANGED mishaps

(* SIGKILL after the grace period. *)
Killed ==
  /\ phase = "stopping"
  /\ \E r \in Requests : call[r] # Idle
  /\ ExitWithError
  /\ UNCHANGED mishaps

-----------------------------------------------------------------------------
StartUp ==
  \/ StartWithoutLibrary \/ StartPCSCD \/ FetchPIN \/ Initialize
  \/ AttemptAutoProvision \/ Provision \/ InitializeAgain

AgentNext ==
  \/ Unplug \/ Plug \/ Wedge \/ Crash
  \/ \E p \in Pins : UpdatePinSecret(p)
  \/ StartUp \/ PCSCDFails \/ ProvisionFails
  \/ \E v \in Values : MockWrite(v)
  \/ \E r \in Reads : ReadSecret(r) \/ ReadMetadata(r) \/ ListSecrets(r) \/ GetChecksum(r)
  \/ \E r \in Writes :
       \/ DeleteSecret(r) \/ DeleteSecretKey(r)
       \/ \E v \in Values : WriteSecret(r, v)
       \/ \E old, new \in Pins : ChangePIN(r, old, new)
  \/ \E r \in Requests : Proceed(r)
  \/ ServeGetInfo
  \/ LivenessProbe \/ ReadinessProbe \/ Terminate \/ Close \/ Killed

(* The kubelet probes, kills and restarts; a process that can go on does.  *)
(* Nothing is assumed of the device or of the callers.                     *)
AgentFairness ==
  /\ WF_vars(StartUp) /\ WF_vars(ProvisionFails)
  /\ \A r \in Requests : WF_vars(Proceed(r))
  /\ WF_vars(LivenessProbe) /\ WF_vars(ReadinessProbe)
  /\ WF_vars(Terminate) /\ WF_vars(Close) /\ WF_vars(Killed)

AgentSpec == AgentInit /\ [][AgentNext]_vars /\ AgentFairness

-----------------------------------------------------------------------------
(* Properties *)

(* What every variable ranges over; a search belongs to a request. *)
AgentTypeOK ==
  /\ config \in [require : BOOLEAN, auto : BOOLEAN, library : BOOLEAN]
  /\ device \in {"present", "absent", "wedged"}
  /\ token \in [pin : Pins \cup {NoPin}, tries : 0..MaxTries,
                data : Values \cup {NoValue, Torn}]
  /\ pinSecret \in Pins /\ pinCache \in Pins \cup {NoPin}
  /\ phase \in Starting \cup {"down", "serving", "stopping"}
  /\ client \in {"none", "pkcs11", "mock"} /\ session \in {"none", "live", "dead"}
  /\ connected \in BOOLEAN /\ ready \in BOOLEAN
  /\ searching \in Requests \cup {Nobody}
  /\ DOMAIN call = Requests
  /\ fails \in [live : 0..LiveLimit, ready : 0..ReadyLimit]
  /\ acked \in Values \cup {NoValue} /\ mishaps \in 0..MaxMishaps

(* An acknowledged write stays on the token through lost devices, failed   *)
(* probes, restarts and new start-ups, until a later write or deletion     *)
(* touches it: the agent never erases a token that holds secrets and never *)
(* acknowledges what only a mock remembers, if hardware is required.       *)
AckedWritesSurvive ==
  config.require /\ acked # NoValue => token.data = acked

(* The session is in a search only while the request that started it is    *)
(* between its FindObjectsInit and its FindObjectsFinal.  A search left    *)
(* open would make every later write of the process fail.                  *)
NoSearchLeftOpen ==
  searching # Nobody => call[searching].step = "search"

(* The login that follows provisioning uses the PIN that was just set,     *)
(* whatever happened to the Secret meanwhile: it never costs an attempt.   *)
ProvisionedTokenAcceptsLogin ==
  [][phase = "relogin" => token'.tries = token.tries]_vars

(* A token that is gone or wedged takes its agent out of service: the pod  *)
(* is not ready, unless the device comes back first or the agent was       *)
(* allowed to serve a mock.                                                *)
LostTokenEndsReadiness ==
  config.require /\ device # "present" ~> (device = "present" \/ ~ready)

(* If the device stays, the token is not locked and the Secret holds its   *)
(* PIN, the agent does not stay disconnected: probes, restart and start-up *)
(* bring it back.                                                          *)
AgentComesBack ==
  <>[](/\ device = "present" /\ config.library
       /\ token.tries > 0 /\ token.pin = pinSecret)
    => []<>(phase = "serving" /\ connected)

(* Does not hold, although the comment of isTokenLostError asks for it: an *)
(* invalidated session ends in a restart of the agent that opens a new     *)
(* one.  The probe looks at the token in the slot, so a device that is     *)
(* back before the next probe leaves a session that fails every request    *)
(* and is never replaced.                                                  *)
DeadSessionsAreReplaced ==
  session = "dead" ~> session # "dead"

=============================================================================
