------------------------------ MODULE PkiStore ------------------------------
(***************************************************************************)
(* The mutual-TLS material between manager and agents: replicas of the     *)
(* manager that all ensure it at start-up, the leader that rotates it      *)
(* every twelve hours, the Secrets it lives in, and an agent that serves   *)
(* with it.  One unit of time is the rotation interval.                    *)
(*                                                                         *)
(* Mishaps: an API call fails, a replica crashes.                          *)
(***************************************************************************)
EXTENDS Mishaps

CONSTANTS
  Replicas,     \* pods of the manager
  Authorities,  \* certificate authorities that can be generated
  NoCA,         \* no authority
  NoLeaf,       \* no leaf certificate
  NoLeader,     \* no leader
  Validity,     \* LeafValidity, in rotation intervals
  RenewBefore   \* validity that remains when a leaf is renewed

ASSUME PkiAssumption ==
  /\ NoCA \notin Authorities
  /\ NoLeader \notin Replicas
  /\ Validity \in Nat \ {0}
  /\ RenewBefore \in Nat
  /\ RenewBefore < Validity
  /\ MaxMishaps \in Nat

VARIABLES
  external,  \* --agent-tls-cert-manager: somebody else issues
  caSecret,  \* the authority in the CA Secret
  leaf,      \* the leaves in the server and the client Secret
  proc,      \* the replicas
  leader,    \* the replica that holds the lease
  settled,   \* the leader has led for a whole interval
  due,       \* the rotation ticker has fired
  agent      \* trusted authority and server leaf of an agent

pkiVars == <<external, caSecret, leaf, proc, leader, settled, due, agent, mishaps>>

-----------------------------------------------------------------------------
(* State *)

Names == {"server", "client"}
Leaves == [ca : Authorities, life : 0..Validity]
Calls == {"getCA", "createCA", "reloadCA", "getServer", "putServer",
          "getClient", "putClient", "readBundle"}

(* pc: the next call; boot: start-up, not rotation; ca: the authority in   *)
(* use; seen: what Get said of the Secret that is about to be written;     *)
(* roots, held: ClientTLS.rootCAs and ClientTLS.leaf.                      *)
Off == [pc |-> "down", boot |-> TRUE, ca |-> NoCA, seen |-> "none",
        roots |-> NoCA, held |-> NoLeaf]
Up(r) == ~proc[r].boot

Older(l) == IF l = NoLeaf \/ l.life = 0 THEN l ELSE [l EXCEPT !.life = l.life - 1]

PkiInit ==
  /\ external \in BOOLEAN
  /\ caSecret = NoCA /\ leaf = [n \in Names |-> NoLeaf]
  /\ proc = [r \in Replicas |-> Off]
  /\ leader = NoLeader /\ settled = FALSE /\ due = FALSE
  /\ agent = [ca |-> NoCA, leaf |-> NoLeaf]
  /\ mishaps = 0

-----------------------------------------------------------------------------
(* EnsurePKI, one step per API call *)

(* The first call: with an external issuer nothing is written. *)
FirstCall == IF external THEN "readBundle" ELSE "getCA"

StartReplica(r) ==
  /\ proc[r].pc = "down"
  /\ proc' = [proc EXCEPT ![r].pc = FirstCall]
  /\ UNCHANGED <<external, caSecret, leaf, leader, settled, due, agent, mishaps>>

(* An error: start-up ends the process, a rotation waits for its next tick.*)
AfterError(r) ==
  IF proc[r].boot THEN Off
  ELSE [proc[r] EXCEPT !.pc = "up", !.ca = NoCA, !.seen = "none"]

Abort(r) == proc' = [proc EXCEPT ![r] = AfterError(r)]

CallFails(r) ==
  /\ proc[r].pc \in Calls /\ Mishap
  /\ Abort(r)
  /\ UNCHANGED <<external, caSecret, leaf, leader, settled, due, agent>>

(* GenerateCA draws a key that nobody has. *)
Unused(c) == c # caSecret /\ \A r \in Replicas : proc[r].ca # c

(* ensureCA: load the authority, or generate one. *)
GetCA(r) ==
  /\ proc[r].pc = "getCA"
  /\ \/ /\ caSecret # NoCA
        /\ proc' = [proc EXCEPT ![r].pc = "getServer", ![r].ca = caSecret]
     \/ /\ caSecret = NoCA
        /\ \E c \in Authorities :
             /\ Unused(c)
             /\ proc' = [proc EXCEPT ![r].pc = "createCA", ![r].ca = c]
  /\ UNCHANGED <<external, caSecret, leaf, leader, settled, due, agent, mishaps>>

(* Mutant of CreateCA: the loser of the race keeps what it generated. *)
CreateCAKeepsOwn(r) ==
  /\ proc[r].pc = "createCA"
  /\ caSecret' = IF caSecret = NoCA THEN proc[r].ca ELSE caSecret
  /\ proc' = [proc EXCEPT ![r].pc = "getServer"]
  /\ UNCHANGED <<external, leaf, leader, settled, due, agent, mishaps>>

(* Create: who comes second loads the authority of the first. *)
CreateCA(r) ==
  /\ proc[r].pc = "createCA"
  /\ \/ /\ caSecret = NoCA
        /\ caSecret' = proc[r].ca
        /\ proc' = [proc EXCEPT ![r].pc = "getServer"]
     \/ /\ caSecret # NoCA
        /\ proc' = [proc EXCEPT ![r].pc = "reloadCA", ![r].ca = NoCA]
        /\ UNCHANGED caSecret
  /\ UNCHANGED <<external, leaf, leader, settled, due, agent, mishaps>>

ReloadCA(r) ==
  /\ proc[r].pc = "reloadCA"
  /\ proc' = [proc EXCEPT ![r].pc = "getServer", ![r].ca = caSecret]
  /\ UNCHANGED <<external, caSecret, leaf, leader, settled, due, agent, mishaps>>

(* Mutant of NeedsRotation: a leaf is renewed once it has expired. *)
NeedsRotationExpired(l) == IF l = NoLeaf THEN TRUE ELSE l.life = 0

(* Missing, or within RenewBefore of its expiry. *)
NeedsRotation(l) == IF l = NoLeaf THEN TRUE ELSE l.life <= RenewBefore

(* Mutant of IssueLeaf: one interval longer than asked for. *)
IssueLeafLonger(c) == [ca |-> c, life |-> Validity + 1]

(* issueLeaf: signed by the authority, valid from now on. *)
IssueLeaf(c) == [ca |-> c, life |-> Validity]

(* Mutant of Bundled: a rotation forgets SwapLeaf. *)
BundledAtBoot(r, l) ==
  [proc[r] EXCEPT !.pc = "up", !.boot = FALSE, !.ca = NoCA, !.seen = "none",
                  !.roots = IF proc[r].boot THEN proc[r].ca ELSE proc[r].roots,
                  !.held = IF proc[r].boot THEN l ELSE proc[r].held]

(* The client leaf goes into memory: into a new ClientTLS at start-up,     *)
(* with the authority as the roots; by SwapLeaf in a rotation, which       *)
(* leaves the roots alone.                                                 *)
Bundled(r, l) ==
  [proc[r] EXCEPT !.pc = "up", !.boot = FALSE, !.ca = NoCA, !.seen = "none",
                  !.roots = IF proc[r].boot THEN proc[r].ca ELSE proc[r].roots,
                  !.held = l]

(* getOrIssueLeaf up to the decision: the stored leaf is kept, or a write  *)
(* follows that is a create or an update.                                  *)
GetLeaf(r, n) ==
  /\ proc[r].pc = (IF n = "server" THEN "getServer" ELSE "getClient")
  /\ proc' = [proc EXCEPT ![r] =
       IF NeedsRotation(leaf[n])
       THEN [proc[r] EXCEPT !.pc = IF n = "server" THEN "putServer" ELSE "putClient",
                            !.seen = IF leaf[n] = NoLeaf THEN "absent" ELSE "current"]
       ELSE IF n = "server" THEN [proc[r] EXCEPT !.pc = "getClient"]
       ELSE Bundled(r, leaf[n])]
  /\ UNCHANGED <<external, caSecret, leaf, leader, settled, due, agent, mishaps>>

(* A write of somebody else makes what was read of the Secret stale. *)
Writing(n) == IF n = "server" THEN "putServer" ELSE "putClient"
Outdated(n, q) ==
  IF proc[q].pc = Writing(n) THEN [proc[q] EXCEPT !.seen = "stale"] ELSE proc[q]

(* Mutant of MayWrite: an existing Secret is created again. *)
MayWriteCreate(r, n) == leaf[n] = NoLeaf

(* Create needs an absent Secret, Update an unchanged one. *)
MayWrite(r, n) ==
  \/ proc[r].seen = "absent" /\ leaf[n] = NoLeaf
  \/ proc[r].seen = "current"

(* getOrIssueLeaf: issue and store.  AlreadyExists and Conflict are errors.*)
PutLeaf(r, n) ==
  /\ proc[r].pc = Writing(n)
  /\ \/ /\ MayWrite(r, n)
        /\ LET l == IssueLeaf(proc[r].ca)
           IN  /\ leaf' = [leaf EXCEPT ![n] = l]
               /\ proc' = [q \in Replicas |->
                    IF q # r THEN Outdated(n, q)
                    ELSE IF n = "client" THEN Bundled(r, l)
                    ELSE [proc[r] EXCEPT !.pc = "getClient", !.seen = "none"]]
     \/ /\ ~MayWrite(r, n)
        /\ Abort(r)
        /\ UNCHANGED leaf
  /\ UNCHANGED <<external, caSecret, leader, settled, due, agent, mishaps>>

(* readExternalBundle: the client Secret with its ca.crt, or an error. *)
ReadExternalBundle(r) ==
  /\ proc[r].pc = "readBundle"
  /\ IF leaf["client"] = NoLeaf THEN Abort(r)
     ELSE proc' = [proc EXCEPT ![r] =
            [Bundled(r, leaf["client"]) EXCEPT
               !.roots = IF proc[r].boot THEN leaf["client"].ca ELSE proc[r].roots]]
  /\ UNCHANGED <<external, caSecret, leaf, leader, settled, due, agent, mishaps>>

EnsurePKI(r) ==
  \/ GetCA(r) \/ CreateCA(r) \/ ReloadCA(r) \/ ReadExternalBundle(r)
  \/ \E n \in Names : GetLeaf(r, n) \/ PutLeaf(r, n)

-----------------------------------------------------------------------------
(* The leader *)

(* A replica that is up takes a free lease; its ticker starts from zero. *)
TakeLease(r) ==
  /\ leader = NoLeader /\ Up(r)
  /\ leader' = r /\ settled' = FALSE /\ due' = FALSE
  /\ UNCHANGED <<external, caSecret, leaf, proc, agent, mishaps>>

(* rotateOnce: EnsurePKI once more. *)
RotateOnce ==
  /\ due /\ leader # NoLeader /\ proc[leader].pc = "up"
  /\ due' = FALSE
  /\ proc' = [proc EXCEPT ![leader].pc = FirstCall]
  /\ UNCHANGED <<external, caSecret, leaf, leader, settled, agent, mishaps>>

CrashReplica(r) ==
  /\ proc[r].pc # "down" /\ Mishap
  /\ proc' = [proc EXCEPT ![r] = Off]
  /\ leader' = IF leader = r THEN NoLeader ELSE leader
  /\ due' = (due /\ leader # r)
  /\ UNCHANGED <<external, caSecret, leaf, settled, agent>>

-----------------------------------------------------------------------------
(* Everything else *)

(* cert-manager keeps both Secrets filled from one authority. *)
ExternalIssue(n) ==
  /\ external
  /\ NeedsRotation(leaf[n])
  /\ \E c \in Authorities :
       /\ caSecret \in {NoCA, c}
       /\ caSecret' = c
       /\ leaf' = [leaf EXCEPT ![n] = IssueLeaf(c)]
  /\ UNCHANGED <<external, proc, leader, settled, due, agent, mishaps>>

(* An agent starts once the server Secret can be mounted: it reads the     *)
(* authority it trusts once.                                               *)
AgentStarts ==
  /\ leaf["server"] # NoLeaf /\ agent.ca = NoCA
  /\ agent' = [ca |-> leaf["server"].ca, leaf |-> leaf["server"]]
  /\ UNCHANGED <<external, caSecret, leaf, proc, leader, settled, due, mishaps>>

(* The kubelet updates the mounted files and the certwatcher reloads them. *)
AgentReloads ==
  /\ agent.ca # NoCA /\ agent.leaf # leaf["server"]
  /\ agent' = [agent EXCEPT !.leaf = leaf["server"]]
  /\ UNCHANGED <<external, caSecret, leaf, proc, leader, settled, due, mishaps>>

(* Half a day is long: calls, restarts, elections, mounts and the work of  *)
(* the issuer are over.                                                    *)
Quiet ==
  /\ ~due
  /\ \A r \in Replicas : proc[r].pc = "up"
  /\ agent.ca # NoCA /\ agent.leaf = leaf["server"]
  /\ leader # NoLeader
  /\ external => \A n \in Names : ~NeedsRotation(leaf[n])

HalfADay ==
  /\ Quiet
  /\ leaf' = [n \in Names |-> Older(leaf[n])]
  /\ proc' = [r \in Replicas |-> [proc[r] EXCEPT !.held = Older(proc[r].held)]]
  /\ agent' = [agent EXCEPT !.leaf = Older(agent.leaf)]
  /\ settled' = TRUE
  /\ due' = settled
  /\ UNCHANGED <<external, caSecret, leader, mishaps>>

-----------------------------------------------------------------------------
PkiNext ==
  \/ \E r \in Replicas :
       \/ StartReplica(r) \/ EnsurePKI(r) \/ CallFails(r) \/ TakeLease(r) \/ CrashReplica(r)
  \/ RotateOnce
  \/ \E n \in Names : ExternalIssue(n)
  \/ AgentStarts \/ AgentReloads
  \/ HalfADay

PkiFairness ==
  /\ \A r \in Replicas : WF_pkiVars(StartReplica(r) \/ EnsurePKI(r))
  /\ WF_pkiVars(\E r \in Replicas : TakeLease(r))
  /\ WF_pkiVars(RotateOnce) /\ WF_pkiVars(HalfADay)
  /\ \A n \in Names : WF_pkiVars(ExternalIssue(n))
  /\ WF_pkiVars(AgentStarts) /\ WF_pkiVars(AgentReloads)

PkiSpec == PkiInit /\ [][PkiNext]_pkiVars /\ PkiFairness

-----------------------------------------------------------------------------
(* Properties *)

(* What every variable ranges over. *)
PkiTypeOK ==
  /\ external \in BOOLEAN /\ settled \in BOOLEAN /\ due \in BOOLEAN
  /\ caSecret \in Authorities \cup {NoCA}
  /\ leaf \in [Names -> Leaves \cup {NoLeaf}]
  /\ proc \in [Replicas ->
       [pc : Calls \cup {"down", "up"}, boot : BOOLEAN,
        ca : Authorities \cup {NoCA}, seen : {"none", "absent", "current", "stale"},
        roots : Authorities \cup {NoCA}, held : Leaves \cup {NoLeaf}]]
  /\ leader \in Replicas \cup {NoLeader}
  /\ agent \in [ca : Authorities \cup {NoCA}, leaf : Leaves \cup {NoLeaf}]
  /\ mishaps \in 0..MaxMishaps

(* Manager and agents trust each other: whatever is stored, presented or   *)
(* trusted anywhere comes from the one authority of the CA Secret, however *)
(* many replicas started together, crashed half way or rotated at once.    *)
OneAuthority ==
  /\ \A n \in Names : leaf[n] # NoLeaf => leaf[n].ca = caSecret
  /\ \A r \in Replicas :
       /\ proc[r].roots \in {NoCA, caSecret}
       /\ proc[r].held # NoLeaf => proc[r].held.ca = caSecret
  /\ agent.ca \in {NoCA, caSecret}
  /\ agent.leaf # NoLeaf => agent.leaf.ca = caSecret

(* The agent never presents an expired certificate: rotation is early      *)
(* enough for the failures and elections between two rotations.            *)
ServedLeafIsValid ==
  agent.leaf # NoLeaf => agent.leaf.life > 0

(* A start-up race costs a restart at most: every replica comes up and     *)
(* stays up once nothing fails any more.                                   *)
ReplicasComeUp ==
  \A r \in Replicas : <>[]Up(r)

(* The client certificate of a leader that took over after a long time as  *)
(* a standby may have expired; the first rotation replaces it.             *)
LeaderRegainsValidLeaf ==
  \A r \in Replicas :
    (leader = r /\ proc[r].held.life = 0) ~> (leader # r \/ proc[r].held.life > 0)

(* Does not hold: a leader presents a valid leaf, as Run in manager.go has *)
(* it in mind ("so the manager holds its client leaf in-memory before it   *)
(* dials any agent").  Nobody renews the leaf of a standby, and a new      *)
(* leader waits a whole interval before it looks.                          *)
LeaderHoldsValidLeaf ==
  leader # NoLeader => proc[leader].held.life > 0

=============================================================================
