---------------------------- MODULE AgentPkiProofs ----------------------------
(***************************************************************************)
(* Safety of the mutual-TLS material that manager and agents serve with,   *)
(* and of an agent with its token.  The two specifications are separate;   *)
(* no theorem is about both.                                               *)
(*                                                                         *)
(* The mutual-TLS material: its types, and that one authority signs        *)
(* everything, for any number of replicas and failures and every validity. *)
(* The inductive invariant adds what a replica has in hand between two API *)
(* calls: after ensureCA the authority it holds is the one of the CA       *)
(* Secret, which is set once and never again.  The second half proves that *)
(* rotation is early enough, which needs an account of the intervals the   *)
(* server leaf can lose before somebody looks at it.                       *)
(***************************************************************************)
EXTENDS PkiStore, AgentProcess, TLAPS

(* Past ensureCA: the calls that sign with the authority in hand. *)
Signing == {"getServer", "putServer", "getClient", "putClient"}

(* The inductive invariant. *)
PkiInv ==
  /\ PkiTypeOK
  /\ OneAuthority
  /\ \A r \in Replicas :
       /\ proc[r].pc \in Signing => proc[r].ca = caSecret /\ caSecret # NoCA
       /\ proc[r].pc = "createCA" => proc[r].ca # NoCA
       /\ proc[r].pc = "reloadCA" => caSecret # NoCA

Procs ==
  [pc : Calls \cup {"down", "up"}, boot : BOOLEAN,
   ca : Authorities \cup {NoCA}, seen : {"none", "absent", "current", "stale"},
   roots : Authorities \cup {NoCA}, held : Leaves \cup {NoLeaf}]

(* What the invariant says of one replica, for the authority c.            *)
Sound(p, c) ==
  /\ p \in Procs
  /\ p.roots \in {NoCA, c}
  /\ p.held # NoLeaf => p.held.ca = c
  /\ p.pc \in Signing => p.ca = c /\ c # NoCA
  /\ p.pc = "createCA" => p.ca # NoCA
  /\ p.pc = "reloadCA" => c # NoCA

SoundLeaf(l, c) == l \in Leaves \cup {NoLeaf} /\ (l # NoLeaf => l.ca = c)

(* The invariant without the replicas.                                     *)
Rest ==
  /\ external \in BOOLEAN /\ settled \in BOOLEAN /\ due \in BOOLEAN
  /\ caSecret \in Authorities \cup {NoCA}
  /\ leaf \in [Names -> Leaves \cup {NoLeaf}]
  /\ leader \in Replicas \cup {NoLeader}
  /\ agent \in [ca : Authorities \cup {NoCA}, leaf : Leaves \cup {NoLeaf}]
  /\ mishaps \in 0..MaxMishaps
  /\ \A n \in Names : SoundLeaf(leaf[n], caSecret)
  /\ agent.ca \in {NoCA, caSecret}
  /\ SoundLeaf(agent.leaf, caSecret)

LEMMA InvByParts ==
  PkiInv <=> /\ Rest
             /\ proc \in [Replicas -> Procs]
             /\ \A r \in Replicas : Sound(proc[r], caSecret)
BY DEF PkiInv, PkiTypeOK, OneAuthority, Rest, Sound, SoundLeaf, Procs

LEMMA InvByPartsNext ==
  ASSUME Rest', proc' \in [Replicas -> Procs],
         \A r \in Replicas : Sound(proc'[r], caSecret')
  PROVE  PkiInv'
BY DEF PkiInv, PkiTypeOK, OneAuthority, Rest, Sound, SoundLeaf, Procs

LEMMA OffIsSound == ASSUME NEW c PROVE Sound(Off, c)
BY DEF Sound, Off, Procs, Signing, Calls

(* A leaf issued by the authority in hand, and a leaf that grows older.    *)
LEMMA IssuedIsSound ==
  ASSUME NEW c \in Authorities PROVE SoundLeaf(IssueLeaf(c), c)
BY PkiAssumption DEF SoundLeaf, IssueLeaf, Leaves

LEMMA OlderIsSound ==
  ASSUME NEW c, NEW l, SoundLeaf(l, c) PROVE SoundLeaf(Older(l), c)
<1>1. CASE l = NoLeaf \/ l.life = 0
  BY <1>1 DEF Older, SoundLeaf
<1>2. CASE ~(l = NoLeaf \/ l.life = 0)
  <2>1. l \in Leaves /\ l.ca = c /\ l.life \in 0..Validity /\ l.life # 0
    BY <1>2 DEF SoundLeaf, Leaves
  <2>2. l.life - 1 \in 0..Validity
    BY <2>1, PkiAssumption
  <2>3. [l EXCEPT !.life = l.life - 1] \in Leaves
        /\ [l EXCEPT !.life = l.life - 1].ca = c
    BY <2>1, <2>2 DEF Leaves
  <2> QED BY <1>2, <2>3 DEF Older, SoundLeaf
<1> QED BY <1>1, <1>2

(* Loading a leaf into memory, by a replica that holds the authority.      *)
LEMMA BundledIsSound ==
  ASSUME NEW r \in Replicas, Sound(proc[r], caSecret), NEW l, SoundLeaf(l, caSecret),
         proc[r].ca = caSecret
  PROVE  Sound(Bundled(r, l), caSecret)
BY ZenonT(30) DEF Bundled, Sound, SoundLeaf, Procs, Signing, Calls

(* An error leaves a replica sound.                                        *)
LEMMA AfterErrorIsSound ==
  ASSUME NEW r \in Replicas, Sound(proc[r], caSecret)
  PROVE  Sound(AfterError(r), caSecret)
<1>1. CASE proc[r].boot
  BY <1>1, OffIsSound DEF AfterError
<1>2. CASE ~proc[r].boot
  BY <1>2 DEF AfterError, Sound, Procs, Signing, Calls
<1> QED BY <1>1, <1>2

LEMMA PkiInvInit == PkiInit => PkiInv
<1> SUFFICES ASSUME PkiInit PROVE PkiInv
  OBVIOUS
<1>0. 0 \in 0..MaxMishaps
  BY PkiAssumption
<1>a. leaf \in [Names -> Leaves \cup {NoLeaf}] /\ \A n \in Names : leaf[n] = NoLeaf
  BY DEF PkiInit
<1>b. /\ agent \in [ca : Authorities \cup {NoCA}, leaf : Leaves \cup {NoLeaf}]
      /\ agent.ca = NoCA /\ agent.leaf = NoLeaf
  BY DEF PkiInit
<1>c. /\ external \in BOOLEAN /\ settled \in BOOLEAN /\ due \in BOOLEAN
      /\ caSecret \in Authorities \cup {NoCA} /\ leader \in Replicas \cup {NoLeader}
      /\ mishaps \in 0..MaxMishaps
  BY <1>0 DEF PkiInit
<1>1. Rest
  BY <1>a, <1>b, <1>c DEF Rest, SoundLeaf
<1>2. \A r \in Replicas : proc[r] = Off
  BY DEF PkiInit
<1>3. \A r \in Replicas : Sound(proc[r], caSecret)
  BY <1>2, OffIsSound
<1>4. proc \in [Replicas -> Procs]
  BY <1>3 DEF PkiInit, Sound
<1> QED BY <1>1, <1>3, <1>4, InvByParts

(* A step of one replica that leaves the authority alone.                  *)
LEMMA OneReplica ==
  ASSUME PkiInv, Rest', NEW r \in Replicas, NEW p, Sound(p, caSecret),
         proc' = [proc EXCEPT ![r] = p], caSecret' = caSecret
  PROVE  PkiInv'
<1>1. \A q \in Replicas : Sound(proc[q], caSecret)
  BY InvByParts
<1>2. proc \in [Replicas -> Procs] /\ p \in Procs
  BY InvByParts DEF Sound
<1>3. proc' \in [Replicas -> Procs]
  BY <1>2
<1>4. \A q \in Replicas : proc'[q] = IF q = r THEN p ELSE proc[q]
  BY <1>2
<1>5. \A q \in Replicas : Sound(proc'[q], caSecret')
  BY <1>1, <1>4
<1> QED BY <1>3, <1>5, InvByPartsNext

(* The authority is drawn once: what was sound before is sound after.      *)
LEMMA FirstAuthority ==
  ASSUME PkiInv, caSecret = NoCA, NEW c \in Authorities
  PROVE  /\ \A r \in Replicas : Sound(proc[r], c)
         /\ \A n \in Names : leaf[n] = NoLeaf
         /\ agent.ca = NoCA /\ agent.leaf = NoLeaf
<1>1. c # NoCA /\ NoCA \notin Authorities
  BY PkiAssumption
<1>2. Rest /\ \A r \in Replicas : Sound(proc[r], caSecret)
  BY InvByParts
<1>3. ASSUME NEW l, SoundLeaf(l, caSecret) PROVE l = NoLeaf
  BY <1>1, <1>3 DEF SoundLeaf, Leaves
<1>4. ASSUME NEW r \in Replicas PROVE Sound(proc[r], c)
  <2>1. Sound(proc[r], NoCA)
    BY <1>2
  <2>2. proc[r].held = NoLeaf
    BY <2>1, <1>3 DEF Sound, SoundLeaf, Procs
  <2> QED BY <1>1, <2>1, <2>2 DEF Sound
<1> QED BY <1>2, <1>3, <1>4 DEF Rest

LEMMA StartAndErrors ==
  ASSUME PkiInv, NEW r \in Replicas, StartReplica(r) \/ CallFails(r) \/ CrashReplica(r)
  PROVE  PkiInv'
<1>1. Rest /\ Sound(proc[r], caSecret)
  BY InvByParts
<1>2. Rest'
  <2>1. Mishap => mishaps' \in 0..MaxMishaps
    BY <1>1, PkiAssumption DEF Mishap, Rest
  <2> QED BY <1>1, <2>1 DEF StartReplica, CallFails, CrashReplica, Rest
<1>3. CASE StartReplica(r)
  <2>1. proc' = [proc EXCEPT ![r] = [proc[r] EXCEPT !.pc = FirstCall]]
    BY <1>3 DEF StartReplica
  <2>2. Sound([proc[r] EXCEPT !.pc = FirstCall], caSecret)
    BY <1>1 DEF Sound, Procs, FirstCall, Signing, Calls
  <2> QED BY <1>2, <1>3, <2>1, <2>2, OneReplica DEF StartReplica
<1>4. CASE CallFails(r)
  BY <1>1, <1>2, <1>4, AfterErrorIsSound, OneReplica DEF CallFails, Abort
<1>5. CASE CrashReplica(r)
  BY <1>2, <1>5, OffIsSound, OneReplica DEF CrashReplica
<1> QED BY <1>3, <1>4, <1>5

LEMMA EnsuresAuthority ==
  ASSUME PkiInv, NEW r \in Replicas, GetCA(r) \/ CreateCA(r) \/ ReloadCA(r)
  PROVE  PkiInv'
<1>1. Rest /\ Sound(proc[r], caSecret) /\ proc \in [Replicas -> Procs]
  BY InvByParts
<1>2. CASE GetCA(r)
  <2>1. Rest'
    BY <1>1, <1>2 DEF GetCA, Rest
  <2>2. CASE caSecret # NoCA
    <3> DEFINE new == [proc[r] EXCEPT !.pc = "getServer", !.ca = caSecret]
    <3>1. proc' = [proc EXCEPT ![r] = new]
      BY <1>1, <1>2, <2>2 DEF GetCA, Procs
    <3>2. Sound(new, caSecret)
      BY <1>1, <2>2 DEF Sound, Procs, Signing, Calls, Rest
    <3> QED BY <1>2, <2>1, <3>1, <3>2, OneReplica DEF GetCA
  <2>3. CASE caSecret = NoCA
    <3>1. PICK c \in Authorities :
            proc' = [proc EXCEPT ![r].pc = "createCA", ![r].ca = c]
      BY <1>2, <2>3 DEF GetCA
    <3> DEFINE new == [proc[r] EXCEPT !.pc = "createCA", !.ca = c]
    <3>2. proc' = [proc EXCEPT ![r] = new]
      BY <1>1, <3>1 DEF Procs
    <3>3. Sound(new, caSecret)
      BY <1>1, PkiAssumption DEF Sound, Procs, Signing, Calls
    <3> QED BY <1>2, <2>1, <3>2, <3>3, OneReplica DEF GetCA
  <2> QED BY <2>2, <2>3
<1>3. CASE CreateCA(r)
  <2>1. CASE caSecret # NoCA
    <3> DEFINE new == [proc[r] EXCEPT !.pc = "reloadCA", !.ca = NoCA]
    <3>1. proc' = [proc EXCEPT ![r] = new]
      BY <1>1, <1>3, <2>1 DEF CreateCA, Procs
    <3>2. Sound(new, caSecret)
      BY <1>1, <2>1 DEF Sound, Procs, Signing, Calls
    <3>3. Rest' /\ caSecret' = caSecret
      BY <1>1, <1>3, <2>1 DEF CreateCA, Rest
    <3> QED BY <3>1, <3>2, <3>3, OneReplica
  <2>2. CASE caSecret = NoCA
    <3> DEFINE new == [proc[r] EXCEPT !.pc = "getServer"]
               c == proc[r].ca
    <3>1. c \in Authorities /\ c # NoCA
      BY <1>1, <1>3 DEF CreateCA, Sound, Procs
    <3>2. proc' = [proc EXCEPT ![r] = new] /\ caSecret' = c
      BY <1>3, <2>2 DEF CreateCA
    <3>3. /\ \A q \in Replicas : Sound(proc[q], c)
          /\ \A n \in Names : leaf[n] = NoLeaf
          /\ agent.ca = NoCA /\ agent.leaf = NoLeaf
      BY <2>2, <3>1, FirstAuthority
    <3>4. Sound(new, c)
      BY <3>1, <3>3 DEF Sound, Procs, Signing, Calls
    <3>5. proc' \in [Replicas -> Procs]
      BY <1>1, <3>2, <3>4 DEF Sound
    <3>6. \A q \in Replicas : proc'[q] = IF q = r THEN new ELSE proc[q]
      BY <1>1, <3>2
    <3>7. \A q \in Replicas : Sound(proc'[q], caSecret')
      BY <3>2, <3>3, <3>4, <3>6
    <3>8. Rest'
      BY <1>1, <1>3, <3>1, <3>2, <3>3 DEF CreateCA, Rest, SoundLeaf
    <3> QED BY <3>5, <3>7, <3>8, InvByPartsNext
  <2> QED BY <2>1, <2>2
<1>4. CASE ReloadCA(r)
  <2> DEFINE new == [proc[r] EXCEPT !.pc = "getServer", !.ca = caSecret]
  <2>1. proc' = [proc EXCEPT ![r] = new]
    BY <1>1, <1>4 DEF ReloadCA, Procs
  <2>2. Sound(new, caSecret)
    BY <1>1, <1>4 DEF ReloadCA, Sound, Procs, Signing, Calls, Rest
  <2>3. Rest' /\ caSecret' = caSecret
    BY <1>1, <1>4 DEF ReloadCA, Rest
  <2> QED BY <2>1, <2>2, <2>3, OneReplica
<1> QED BY <1>2, <1>3, <1>4

(* What getOrIssueLeaf decides to do next.                                 *)
LEMMA LeafIsRead ==
  ASSUME PkiInv, NEW r \in Replicas, NEW n \in Names, GetLeaf(r, n)
  PROVE  PkiInv'
<1>1. Rest /\ Sound(proc[r], caSecret)
  BY InvByParts
<1>2. proc[r].pc \in Signing /\ proc[r].ca = caSecret /\ caSecret # NoCA
  BY <1>1 DEF GetLeaf, Sound, Signing
<1>3. PICK new :
        /\ proc' = [proc EXCEPT ![r] = new]
        /\ \/ \E c \in {"putServer", "putClient"}, s \in {"absent", "current"} :
                 new = [proc[r] EXCEPT !.pc = c, !.seen = s]
           \/ new = [proc[r] EXCEPT !.pc = "getClient"]
           \/ new = Bundled(r, leaf[n])
  BY DEF GetLeaf
<1>4. Sound(new, caSecret)
  <2>1. CASE new = Bundled(r, leaf[n])
    BY <1>1, <1>2, <2>1, BundledIsSound DEF Rest
  <2>2. CASE new = [proc[r] EXCEPT !.pc = "getClient"]
    BY <1>1, <1>2, <2>2 DEF Sound, Procs, Signing, Calls
  <2>3. ASSUME NEW c \in {"putServer", "putClient"}, NEW s \in {"absent", "current"},
               new = [proc[r] EXCEPT !.pc = c, !.seen = s]
        PROVE  Sound(new, caSecret)
    BY <1>1, <1>2, <2>3 DEF Sound, Procs, Signing, Calls
  <2> QED BY <1>3, <2>1, <2>2, <2>3
<1>5. Rest' /\ caSecret' = caSecret
  BY <1>1 DEF GetLeaf, Rest
<1> QED BY <1>3, <1>4, <1>5, OneReplica

(* A leaf is issued and stored, or the write is refused.                   *)
LEMMA LeafIsWritten ==
  ASSUME PkiInv, NEW r \in Replicas, NEW n \in Names, PutLeaf(r, n)
  PROVE  PkiInv'
<1>1. /\ Rest /\ \A q \in Replicas : Sound(proc[q], caSecret)
      /\ proc \in [Replicas -> Procs]
  BY InvByParts
<1>2. /\ proc[r].pc \in Signing /\ proc[r].ca = caSecret
      /\ caSecret # NoCA /\ caSecret \in Authorities
  BY <1>1 DEF PutLeaf, Writing, Sound, Signing, Rest
<1>3. caSecret' = caSecret
  BY DEF PutLeaf
<1>4. CASE ~MayWrite(r, n)
  <2>1. proc' = [proc EXCEPT ![r] = AfterError(r)] /\ Rest'
    BY <1>1, <1>4 DEF PutLeaf, Abort, Rest
  <2> QED BY <1>1, <1>3, <2>1, AfterErrorIsSound, OneReplica
<1>5. CASE MayWrite(r, n)
  <2> DEFINE l == IssueLeaf(proc[r].ca)
             next == IF n = "client" THEN Bundled(r, l)
                     ELSE [proc[r] EXCEPT !.pc = "getClient", !.seen = "none"]
  <2>1. /\ leaf' = [leaf EXCEPT ![n] = l]
        /\ proc' = [q \in Replicas |-> IF q # r THEN Outdated(n, q) ELSE next]
    BY <1>5 DEF PutLeaf
  <2>2. SoundLeaf(l, caSecret)
    BY <1>2, IssuedIsSound
  <2>3. Rest'
    <3>1. /\ leaf' \in [Names -> Leaves \cup {NoLeaf}]
          /\ \A k \in Names : leaf'[k] = IF k = n THEN l ELSE leaf[k]
      BY <1>1, <2>1, <2>2 DEF Rest, SoundLeaf
    <3>2. \A k \in Names : SoundLeaf(leaf'[k], caSecret')
      BY <1>1, <1>3, <2>2, <3>1 DEF Rest
    <3> QED BY <1>1, <1>3, <3>1, <3>2 DEF PutLeaf, Rest
  <2>4. Sound(next, caSecret)
    <3>1. CASE n = "client"
      BY <1>1, <1>2, <2>2, <3>1, BundledIsSound
    <3>2. CASE n # "client"
      BY <1>1, <1>2, <3>2, ZenonT(30) DEF Sound, Procs, Signing, Calls
    <3> QED BY <3>1, <3>2
  <2>5. ASSUME NEW q \in Replicas PROVE Sound(Outdated(n, q), caSecret)
    <3>1. Sound(proc[q], caSecret)
      BY <1>1
    <3>2. CASE proc[q].pc = Writing(n)
      BY <3>1, <3>2 DEF Outdated, Writing, Sound, Procs, Signing, Calls
    <3>3. CASE proc[q].pc # Writing(n)
      BY <3>1, <3>3 DEF Outdated
    <3> QED BY <3>2, <3>3
  <2> HIDE DEF next
  <2>6. \A q \in Replicas : Sound(proc'[q], caSecret')
    BY <1>3, <2>1, <2>4, <2>5
  <2>7. proc' \in [Replicas -> Procs]
    BY <2>1, <2>4, <2>5 DEF Sound
  <2> QED BY <2>3, <2>6, <2>7, InvByPartsNext
<1> QED BY <1>4, <1>5

LEMMA ExternalBundle ==
  ASSUME PkiInv, NEW r \in Replicas, ReadExternalBundle(r)
  PROVE  PkiInv'
<1>1. Rest /\ Sound(proc[r], caSecret)
  BY InvByParts
<1>2. Rest' /\ caSecret' = caSecret
  BY <1>1 DEF ReadExternalBundle, Rest
<1>3. CASE leaf["client"] = NoLeaf
  BY <1>1, <1>2, <1>3, AfterErrorIsSound, OneReplica DEF ReadExternalBundle, Abort
<1>4. CASE leaf["client"] # NoLeaf
  <2> DEFINE l == leaf["client"]
             new == [Bundled(r, l) EXCEPT
                       !.roots = IF proc[r].boot THEN l.ca ELSE proc[r].roots]
  <2>1. proc' = [proc EXCEPT ![r] = new]
    BY <1>4 DEF ReadExternalBundle
  <2>2. l \in Leaves /\ l.ca = caSecret /\ caSecret \in Authorities
    BY <1>1, <1>4 DEF Rest, Names, SoundLeaf, Leaves
  <2> HIDE DEF l
  <2>3. Sound(new, caSecret)
    BY <1>1, <2>2, ZenonT(30) DEF Bundled, Sound, Procs, Signing, Calls
  <2> HIDE DEF new
  <2> QED BY <1>2, <2>1, <2>3, OneReplica
<1> QED BY <1>3, <1>4

(* cert-manager fills a Secret from the authority it began with.           *)
LEMMA IssuedOutside ==
  ASSUME PkiInv, NEW n \in Names, ExternalIssue(n)
  PROVE  PkiInv'
<1>1. /\ Rest /\ \A r \in Replicas : Sound(proc[r], caSecret)
      /\ proc \in [Replicas -> Procs]
  BY InvByParts
<1>2. PICK c \in Authorities :
        /\ caSecret \in {NoCA, c} /\ caSecret' = c
        /\ leaf' = [leaf EXCEPT ![n] = IssueLeaf(c)]
  BY DEF ExternalIssue
<1>3. /\ \A r \in Replicas : Sound(proc[r], c)
      /\ \A k \in Names : SoundLeaf(leaf[k], c)
      /\ agent.ca \in {NoCA, c} /\ SoundLeaf(agent.leaf, c)
  <2>1. CASE caSecret = c
    BY <1>1, <2>1 DEF Rest
  <2>2. CASE caSecret = NoCA
    BY <2>2, FirstAuthority DEF SoundLeaf
  <2> QED BY <1>2, <2>1, <2>2
<1>4. SoundLeaf(IssueLeaf(c), c)
  BY IssuedIsSound
<1>5. /\ leaf' \in [Names -> Leaves \cup {NoLeaf}]
      /\ \A k \in Names : leaf'[k] = IF k = n THEN IssueLeaf(c) ELSE leaf[k]
  BY <1>1, <1>2, <1>4 DEF Rest, SoundLeaf
<1>6. Rest'
  <2>1. \A k \in Names : SoundLeaf(leaf'[k], c)
    BY <1>3, <1>4, <1>5
  <2> QED BY <1>1, <1>2, <1>3, <1>5, <2>1 DEF ExternalIssue, Rest
<1>7. \A r \in Replicas : Sound(proc'[r], caSecret')
  BY <1>2, <1>3 DEF ExternalIssue
<1>8. proc' \in [Replicas -> Procs]
  BY <1>1 DEF ExternalIssue
<1> QED BY <1>6, <1>7, <1>8, InvByPartsNext

(* Steps that leave replicas and authority alone.                          *)
LEMMA LeaseAndAgent ==
  ASSUME PkiInv, \/ \E r \in Replicas : TakeLease(r)
                 \/ AgentStarts \/ AgentReloads \/ UNCHANGED pkiVars
  PROVE  PkiInv'
<1>1. /\ Rest /\ \A r \in Replicas : Sound(proc[r], caSecret)
      /\ proc \in [Replicas -> Procs]
  BY InvByParts
<1>2. UNCHANGED <<proc, caSecret>>
  BY DEF TakeLease, AgentStarts, AgentReloads, pkiVars
<1>3. Rest'
  <2>1. ASSUME NEW r \in Replicas, TakeLease(r) PROVE Rest'
    BY <1>1, <2>1 DEF TakeLease, Rest
  <2>2. CASE AgentStarts
    <3>1. leaf["server"] \in Leaves /\ leaf["server"].ca = caSecret
          /\ caSecret \in Authorities
      BY <1>1, <2>2 DEF AgentStarts, Rest, Names, SoundLeaf, Leaves
    <3> QED BY <1>1, <2>2, <3>1 DEF AgentStarts, Rest, SoundLeaf
  <2>3. CASE AgentReloads
    <3>1. SoundLeaf(leaf["server"], caSecret)
      BY <1>1 DEF Rest, Names
    <3>2. /\ agent' \in [ca : Authorities \cup {NoCA}, leaf : Leaves \cup {NoLeaf}]
          /\ agent'.ca = agent.ca /\ agent'.leaf = leaf["server"]
      BY <1>1, <2>3, <3>1 DEF AgentReloads, Rest, SoundLeaf
    <3> QED BY <1>1, <2>3, <3>1, <3>2 DEF AgentReloads, Rest
  <2>4. CASE UNCHANGED pkiVars
    BY <1>1, <2>4 DEF pkiVars, Rest
  <2> QED BY <2>1, <2>2, <2>3, <2>4
<1> QED BY <1>1, <1>2, <1>3, InvByPartsNext

LEMMA Rotation ==
  ASSUME PkiInv, RotateOnce
  PROVE  PkiInv'
<1>1. Rest /\ leader \in Replicas /\ Sound(proc[leader], caSecret)
  BY InvByParts DEF RotateOnce, Rest
<1> DEFINE new == [proc[leader] EXCEPT !.pc = FirstCall]
<1>2. proc' = [proc EXCEPT ![leader] = new]
  BY DEF RotateOnce
<1>3. Sound(new, caSecret)
  BY <1>1 DEF Sound, Procs, FirstCall, Signing, Calls
<1>4. Rest' /\ caSecret' = caSecret
  BY <1>1 DEF RotateOnce, Rest
<1> HIDE DEF new
<1> QED BY <1>1, <1>2, <1>3, <1>4, OneReplica

(* Everything grows older, and stays signed by whom it was.                *)
LEMMA Ageing ==
  ASSUME PkiInv, HalfADay
  PROVE  PkiInv'
<1>1. /\ Rest /\ \A r \in Replicas : Sound(proc[r], caSecret)
      /\ proc \in [Replicas -> Procs]
  BY InvByParts
<1>2. caSecret' = caSecret
  BY DEF HalfADay
<1>3. ASSUME NEW r \in Replicas
      PROVE  Sound([proc[r] EXCEPT !.held = Older(proc[r].held)], caSecret)
  <2>1. Sound(proc[r], caSecret)
    BY <1>1
  <2>2. SoundLeaf(proc[r].held, caSecret)
    BY <2>1 DEF Sound, SoundLeaf, Procs
  <2>3. SoundLeaf(Older(proc[r].held), caSecret)
    BY <2>2, OlderIsSound
  <2> QED BY <2>1, <2>3 DEF Sound, SoundLeaf, Procs
<1>4. proc' = [r \in Replicas |-> [proc[r] EXCEPT !.held = Older(proc[r].held)]]
  BY DEF HalfADay
<1>5. /\ \A r \in Replicas : Sound(proc'[r], caSecret')
      /\ proc' \in [Replicas -> Procs]
  BY <1>2, <1>3, <1>4 DEF Sound
<1>6. \A n \in Names : SoundLeaf(Older(leaf[n]), caSecret)
  BY <1>1, OlderIsSound DEF Rest
<1>7. /\ leaf' \in [Names -> Leaves \cup {NoLeaf}]
      /\ \A n \in Names : SoundLeaf(leaf'[n], caSecret')
  BY <1>2, <1>6 DEF HalfADay, SoundLeaf
<1>8. SoundLeaf(Older(agent.leaf), caSecret)
  BY <1>1, OlderIsSound DEF Rest
<1>9. /\ agent' \in [ca : Authorities \cup {NoCA}, leaf : Leaves \cup {NoLeaf}]
      /\ agent'.ca = agent.ca /\ agent'.leaf = Older(agent.leaf)
  BY <1>1, <1>8 DEF HalfADay, Rest, SoundLeaf
<1>10. Rest'
  BY <1>1, <1>2, <1>7, <1>8, <1>9 DEF HalfADay, Rest
<1> QED BY <1>5, <1>10, InvByPartsNext

LEMMA PkiInvStep == PkiInv /\ [PkiNext]_pkiVars => PkiInv'
<1> SUFFICES ASSUME PkiInv, [PkiNext]_pkiVars PROVE PkiInv'
  OBVIOUS
<1>1. ASSUME NEW r \in Replicas, EnsurePKI(r) PROVE PkiInv'
  BY <1>1, EnsuresAuthority, ExternalBundle, LeafIsRead, LeafIsWritten DEF EnsurePKI
<1> QED
  BY <1>1, StartAndErrors, LeaseAndAgent, Rotation, IssuedOutside, Ageing DEF PkiNext

(* Every variable of the PKI keeps its type: no leaf lives longer than     *)
(* LeafValidity.                                                           *)
THEOREM PkiTypes == PkiSpec => []PkiTypeOK
<1>1. PkiInv => PkiTypeOK
  BY DEF PkiInv
<1> QED BY <1>1, PkiInvInit, PkiInvStep, PTL DEF PkiSpec

(* However many replicas of the manager run EnsurePKI at the same time,    *)
(* crash between two of its calls or rotate, all leaves and all trust come *)
(* from the one authority of the CA Secret.                                *)
THEOREM AuthorityIsUnique == PkiSpec => []OneAuthority
<1>1. PkiInv => OneAuthority
  BY DEF PkiInv
<1> QED BY <1>1, PkiInvInit, PkiInvStep, PTL DEF PkiSpec

-----------------------------------------------------------------------------
(* Rotation is early enough.  The server leaf loses one interval of life   *)
(* at a time, and between two intervals a rotation, or a replica that      *)
(* starts, renews it once RenewBefore intervals are left, unless a mishap  *)
(* prevents it.  So what the leaf can lose beyond RenewBefore is bounded   *)
(* by the mishaps, and by the interval that a new leader lets pass.        *)

(* Before the decision on the server leaf.                                 *)
Before == {"down", "getCA", "createCA", "reloadCA", "getServer", "putServer"}

(* Somebody will look at the server leaf before the next interval.         *)
Pending == due \/ \E r \in Replicas : proc[r].pc \in Before

(* Intervals that can pass before the next look, if nobody is about to.    *)
Slack == IF Pending THEN 0 ELSE IF settled /\ leader # NoLeader THEN 1 ELSE 2

(* What a replica is doing.  Only a settled leader rotates; a write that   *)
(* will be refused is one that somebody else has made.                     *)
Placed(r) ==
  /\ IF external THEN proc[r].pc \in {"down", "up", "readBundle"}
     ELSE proc[r].pc # "readBundle"
  /\ ~proc[r].boot /\ proc[r].pc # "up" => leader = r /\ settled
  /\ proc[r].pc = "putServer" =>
       /\ proc[r].seen \in {"absent", "current", "stale"}
       /\ proc[r].seen = "absent" => leaf["server"] = NoLeaf
       /\ proc[r].seen = "stale" /\ leaf["server"] # NoLeaf
            => leaf["server"].life > RenewBefore

(* The leader is settled once it has led for an interval; without a mishap *)
(* there is no second leader, and no leaf has grown older under the first. *)
Led ==
  /\ due => leader # NoLeader /\ settled
  /\ mishaps = 0 => /\ settled => leader # NoLeader
                    /\ ~settled /\ leaf["server"] # NoLeaf
                         => leaf["server"].life = Validity

Enough ==
  leaf["server"] # NoLeaf =>
    IF external THEN leaf["server"].life >= RenewBefore
    ELSE leaf["server"].life + mishaps >= RenewBefore + Slack

Timely == (\A r \in Replicas : Placed(r)) /\ Led /\ Enough

(* The validity allows a leader to let an interval pass, and the time for  *)
(* the renewal is longer than the mishaps of the run.                      *)
RoomForMishaps == MaxMishaps < RenewBefore /\ RenewBefore + 1 < Validity

LEMMA ServerLeafType ==
  ASSUME PkiInv
  PROVE  /\ leaf["server"] # NoLeaf => leaf["server"] \in Leaves /\ leaf["server"].life \in Nat
         /\ mishaps \in Nat /\ RenewBefore \in Nat /\ Validity \in Nat
         /\ proc \in [Replicas -> Procs] /\ NoLeader \notin Replicas
<1>1. Rest /\ proc \in [Replicas -> Procs]
  BY InvByParts
<1>2. leaf["server"] # NoLeaf => leaf["server"] \in Leaves
  BY <1>1 DEF Rest, Names
<1> QED BY <1>1, <1>2, PkiAssumption DEF Rest, Leaves

(* One replica moves on.  If it stops being about to look at the server    *)
(* leaf, the leaf is fresh, or a mishap of a settled leader is to blame.   *)
LEMMA OneReplicaInTime ==
  ASSUME RoomForMishaps, PkiInv, Timely, NEW r \in Replicas, NEW p,
         proc' = [proc EXCEPT ![r] = p], Placed(r)',
         external' = external, leaf' = leaf, leader' = leader, settled' = settled, due' = due,
         mishaps' = mishaps \/ mishaps' = mishaps + 1,
         \/ external \/ proc[r].pc \notin Before \/ p.pc \in Before
         \/ leaf["server"] # NoLeaf => leaf["server"].life > RenewBefore
         \/ mishaps' = mishaps + 1 /\ settled /\ leader # NoLeader
  PROVE  Timely'
<1>0. /\ proc'[r] = p /\ \A q \in Replicas \ {r} : proc'[q] = proc[q]
  BY ServerLeafType
<1>1. \A q \in Replicas : Placed(q)'
  BY <1>0 DEF Timely, Placed
<1>2. Led'
  BY ServerLeafType DEF Timely, Led
<1>3. Enough'
  <2> SUFFICES ASSUME leaf["server"] # NoLeaf, ~external
               PROVE  leaf["server"].life + mishaps' >= RenewBefore + Slack'
    BY DEF Timely, Enough
  <2>1. leaf["server"].life + mishaps >= RenewBefore + Slack
    BY DEF Timely, Enough
  <2>2. CASE Pending'
    BY <2>1, <2>2, ServerLeafType DEF Slack
  <2>3. CASE ~Pending' /\ ~Pending
    BY <2>1, <2>3, ServerLeafType DEF Slack
  <2>4. CASE ~Pending' /\ Pending
    <3>1. proc[r].pc \in Before /\ p.pc \notin Before
      BY <1>0, <2>4 DEF Pending
    <3>2. CASE leaf["server"].life > RenewBefore
      <4>1. CASE mishaps' = 0
        BY <2>4, <3>2, <4>1, ServerLeafType DEF Slack, Timely, Led, RoomForMishaps
      <4>2. CASE mishaps' # 0
        BY <2>4, <3>2, <4>2, ServerLeafType DEF Slack
      <4> QED BY <4>1, <4>2
    <3>3. CASE mishaps' = mishaps + 1 /\ settled /\ leader # NoLeader
      BY <2>1, <2>4, <3>3, ServerLeafType DEF Slack
    <3> QED BY <3>1, <3>2, <3>3
  <2> QED BY <2>2, <2>3, <2>4
<1> QED BY <1>1, <1>2, <1>3 DEF Timely
LEMMA TimelyInit == PkiInit => Timely
<1> SUFFICES ASSUME PkiInit PROVE Timely
  OBVIOUS
<1>1. leaf["server"] = NoLeaf /\ \A r \in Replicas : proc[r] = Off
  BY DEF PkiInit, Names
<1> QED BY <1>1 DEF PkiInit, Timely, Placed, Led, Enough, Off

(* Steps of one replica that write no leaf.                                *)
LEMMA ErrorsInTime ==
  ASSUME RoomForMishaps, PkiInv, Timely, NEW r \in Replicas,
         proc[r].pc \in Calls, Abort(r),
         external' = external, leaf' = leaf, leader' = leader, settled' = settled, due' = due,
         \/ mishaps' = mishaps + 1
         \/ /\ mishaps' = mishaps
            /\ proc[r].pc \in Before /\ leaf["server"] # NoLeaf
                 => leaf["server"].life > RenewBefore
  PROVE  Timely'
<1> DEFINE p == AfterError(r)
<1>1. proc' = [proc EXCEPT ![r] = p] /\ proc'[r] = p
  BY ServerLeafType DEF Abort
<1>2. proc[r].boot => p.pc = "down" /\ p.boot
  BY DEF AfterError, Off
<1>3. ~proc[r].boot => p.pc = "up"
  BY ServerLeafType DEF AfterError, Procs
<1>4. ~proc[r].boot => leader # NoLeader /\ settled
  BY ServerLeafType DEF Timely, Placed, Calls
<1> HIDE DEF p
<1>5. Placed(r)'
  BY <1>1, <1>2, <1>3 DEF Placed
<1> QED BY <1>1, <1>2, <1>3, <1>4, <1>5, OneReplicaInTime DEF Before

LEMMA StartAndFailInTime ==
  ASSUME RoomForMishaps, PkiInv, Timely, NEW r \in Replicas, StartReplica(r) \/ CallFails(r)
  PROVE  Timely'
<1>1. CASE StartReplica(r)
  <2> DEFINE p == [proc[r] EXCEPT !.pc = FirstCall]
  <2>1. proc' = [proc EXCEPT ![r] = p] /\ proc'[r] = p
    BY <1>1, ServerLeafType DEF StartReplica
  <2>2. p.pc = FirstCall /\ p.boot = proc[r].boot
    BY ServerLeafType DEF Procs
  <2> HIDE DEF p
  <2>3. Placed(r)'
    BY <1>1, <2>1, <2>2 DEF StartReplica, FirstCall, Timely, Placed
  <2> QED BY <1>1, <2>1, <2>2, <2>3, OneReplicaInTime DEF StartReplica, FirstCall, Before
<1>2. CASE CallFails(r)
  BY <1>2, ErrorsInTime DEF CallFails, Mishap
<1> QED BY <1>1, <1>2

LEMMA AuthorityInTime ==
  ASSUME RoomForMishaps, PkiInv, Timely, NEW r \in Replicas,
         GetCA(r) \/ CreateCA(r) \/ ReloadCA(r)
  PROVE  Timely'
<1>1. PICK c, a : /\ proc' = [proc EXCEPT ![r] = [proc[r] EXCEPT !.pc = c, !.ca = a]]
                  /\ c \in {"getServer", "createCA", "reloadCA"}
  <2>1. proc[r] \in Procs /\ proc \in [Replicas -> Procs]
    BY ServerLeafType, SMTT(30)
  <2>2. CASE GetCA(r)
    <3>1. \E c \in {"getServer", "createCA"} : \E a :
            proc' = [proc EXCEPT ![r].pc = c, ![r].ca = a]
      BY <2>2 DEF GetCA
    <3>2. \A c, a : [proc EXCEPT ![r].pc = c, ![r].ca = a]
                      = [proc EXCEPT ![r] = [proc[r] EXCEPT !.pc = c, !.ca = a]]
      BY <2>1 DEF Procs
    <3> QED BY <3>1, <3>2, ZenonT(30)
  <2>3. CASE CreateCA(r)
    <3>1. [proc[r] EXCEPT !.pc = "getServer"]
            = [proc[r] EXCEPT !.pc = "getServer", !.ca = proc[r].ca]
      BY <2>1 DEF Procs
    <3>2. \/ proc' = [proc EXCEPT ![r] = [proc[r] EXCEPT !.pc = "getServer"]]
          \/ proc' = [proc EXCEPT ![r] = [proc[r] EXCEPT !.pc = "reloadCA", !.ca = NoCA]]
      BY <2>1, <2>3 DEF CreateCA, Procs
    <3> QED BY <3>1, <3>2, ZenonT(30)
  <2>4. CASE ReloadCA(r)
    BY <2>1, <2>4, ZenonT(30) DEF ReloadCA, Procs
  <2> QED BY <2>2, <2>3, <2>4, ZenonT(30)
<1> DEFINE p == [proc[r] EXCEPT !.pc = c, !.ca = a]
<1>2. proc' = [proc EXCEPT ![r] = p] /\ proc'[r] = p
  BY <1>1, ServerLeafType
<1>3. p.pc = c /\ p.boot = proc[r].boot
  BY ServerLeafType DEF Procs
<1>4. proc[r].pc \in {"getCA", "createCA", "reloadCA"}
  BY DEF GetCA, CreateCA, ReloadCA
<1>5. /\ external' = external /\ leaf' = leaf /\ leader' = leader
      /\ settled' = settled /\ due' = due /\ mishaps' = mishaps
  BY DEF GetCA, CreateCA, ReloadCA
<1> HIDE DEF p
<1>6. Placed(r)'
  BY <1>1, <1>2, <1>3, <1>4, <1>5 DEF Timely, Placed
<1> QED BY <1>1, <1>2, <1>3, <1>5, <1>6, OneReplicaInTime DEF Before
LEMMA LeafReadInTime ==
  ASSUME RoomForMishaps, PkiInv, Timely, NEW r \in Replicas, NEW n \in Names, GetLeaf(r, n)
  PROVE  Timely'
<1> DEFINE p == IF NeedsRotation(leaf[n])
                THEN [proc[r] EXCEPT !.pc = IF n = "server" THEN "putServer" ELSE "putClient",
                                     !.seen = IF leaf[n] = NoLeaf THEN "absent" ELSE "current"]
                ELSE IF n = "server" THEN [proc[r] EXCEPT !.pc = "getClient"]
                ELSE Bundled(r, leaf[n])
<1>1. proc' = [proc EXCEPT ![r] = p] /\ proc'[r] = p
  BY ServerLeafType DEF GetLeaf
<1>2. /\ external' = external /\ leaf' = leaf /\ leader' = leader
      /\ settled' = settled /\ due' = due /\ mishaps' = mishaps
  BY DEF GetLeaf
<1>3. ~external
  BY DEF GetLeaf, Timely, Placed
<1>4. CASE n = "server"
  <2>1. CASE NeedsRotation(leaf["server"])
    <3>1. /\ p.pc = "putServer" /\ p.boot = proc[r].boot
          /\ p.seen = IF leaf["server"] = NoLeaf THEN "absent" ELSE "current"
      BY <1>4, <2>1, ServerLeafType DEF Procs
    <3> HIDE DEF p
    <3>2. Placed(r)'
      BY <1>1, <1>2, <1>3, <1>4, <3>1 DEF GetLeaf, Timely, Placed
    <3> QED BY <1>1, <1>2, <3>1, <3>2, OneReplicaInTime DEF Before
  <2>2. CASE ~NeedsRotation(leaf["server"])
    <3>1. p.pc = "getClient" /\ p.boot = proc[r].boot
      BY <1>4, <2>2, ServerLeafType DEF Procs
    <3>2. leaf["server"] # NoLeaf => leaf["server"].life > RenewBefore
      BY <2>2, ServerLeafType DEF NeedsRotation
    <3> HIDE DEF p
    <3>3. Placed(r)'
      BY <1>1, <1>2, <1>3, <1>4, <3>1 DEF GetLeaf, Timely, Placed
    <3> QED BY <1>1, <1>2, <3>2, <3>3, OneReplicaInTime
  <2> QED BY <2>1, <2>2
<1>5. CASE n # "server"
  <2>1. proc[r].pc = "getClient"
    BY <1>5 DEF GetLeaf
  <2>2. (p.pc = "putClient" /\ p.boot = proc[r].boot) \/ p.pc = "up"
    BY <1>5, ServerLeafType DEF Bundled, Procs
  <2> HIDE DEF p
  <2>3. Placed(r)'
    BY <1>1, <1>2, <1>3, <2>1, <2>2 DEF Timely, Placed
  <2> QED BY <1>1, <1>2, <2>1, <2>3, OneReplicaInTime DEF Before
<1> QED BY <1>4, <1>5

(* A write: of the server leaf, which is then as fresh as can be; of the   *)
(* client leaf, which does not matter here; or one that is refused because *)
(* somebody else has just renewed the leaf.                                *)
LEMMA LeafWrittenInTime ==
  ASSUME RoomForMishaps, PkiInv, Timely, NEW r \in Replicas, NEW n \in Names, PutLeaf(r, n)
  PROVE  Timely'
<1>1. /\ external' = external /\ leader' = leader
      /\ settled' = settled /\ due' = due /\ mishaps' = mishaps
  BY DEF PutLeaf
<1>2. ~external /\ proc \in [Replicas -> Procs] /\ proc[r].pc = Writing(n)
  BY ServerLeafType DEF PutLeaf, Writing, Timely, Placed
<1>3. CASE ~MayWrite(r, n)
  <2>1. Abort(r) /\ leaf' = leaf
    BY <1>3 DEF PutLeaf
  <2>2. proc[r].pc \in Before /\ leaf["server"] # NoLeaf
          => leaf["server"].life > RenewBefore
    BY <1>2, <1>3 DEF Writing, MayWrite, Timely, Placed, Before, Names
  <2> QED BY <1>1, <1>2, <2>1, <2>2, ErrorsInTime DEF Writing, Calls
<1>4. CASE MayWrite(r, n) /\ n = "server"
  <2>1. leaf'["server"] = IssueLeaf(proc[r].ca)
    BY <1>4, InvByParts DEF PutLeaf, Rest, Names
  <2>2. leaf'["server"].life = Validity
    BY <2>1 DEF IssueLeaf
  <2>3. proc' = [q \in Replicas |-> IF q # r THEN Outdated("server", q)
                  ELSE [proc[r] EXCEPT !.pc = "getClient", !.seen = "none"]]
    BY <1>4 DEF PutLeaf
  <2>4. proc'[r].pc = "getClient" /\ proc'[r].boot = proc[r].boot
    BY <1>2, <2>3 DEF Procs
  <2>5. ASSUME NEW q \in Replicas \ {r}
        PROVE  /\ proc'[q].pc = proc[q].pc /\ proc'[q].boot = proc[q].boot
               /\ proc[q].pc = "putServer" => proc'[q].seen = "stale"
    <3>1. proc'[q] = Outdated("server", q) /\ proc[q] \in Procs
      BY <1>2, <2>3
    <3> QED BY <3>1 DEF Outdated, Writing, Procs
  <2>6. \A q \in Replicas : Placed(q)'
    <3>1. Placed(r)'
      BY <1>1, <1>2, <1>4, <2>4 DEF Placed, Timely, Writing
    <3>2. ASSUME NEW q \in Replicas \ {r} PROVE Placed(q)'
      BY <1>1, <1>2, <2>2, <2>5, ServerLeafType DEF Placed, Timely, RoomForMishaps
    <3> QED BY <3>1, <3>2
  <2>7. Led'
    BY <1>1, <2>2 DEF Timely, Led
  <2>8. Enough'
    BY <1>1, <2>2, ServerLeafType DEF Enough, Slack, RoomForMishaps
  <2> QED BY <2>6, <2>7, <2>8 DEF Timely
<1>5. CASE MayWrite(r, n) /\ n = "client"
  <2>1. leaf'["server"] = leaf["server"]
    BY <1>5, InvByParts DEF PutLeaf, Rest, Names
  <2>2. proc' = [q \in Replicas |-> IF q # r THEN Outdated("client", q)
                  ELSE Bundled(r, IssueLeaf(proc[r].ca))]
    BY <1>5 DEF PutLeaf
  <2>3. proc'[r].pc = "up"
    BY <1>2, <2>2 DEF Bundled, Procs
  <2>4. ASSUME NEW q \in Replicas \ {r}
        PROVE  /\ proc'[q].pc = proc[q].pc /\ proc'[q].boot = proc[q].boot
               /\ proc[q].pc = "putServer" => proc'[q].seen = proc[q].seen
    <3>1. proc'[q] = Outdated("client", q) /\ proc[q] \in Procs
      BY <1>2, <2>2
    <3> QED BY <3>1 DEF Outdated, Writing, Procs
  <2>5. \A q \in Replicas : Placed(q)'
    <3>1. Placed(r)'
      BY <1>1, <1>2, <2>3 DEF Placed
    <3>2. ASSUME NEW q \in Replicas \ {r} PROVE Placed(q)'
      BY <1>1, <2>1, <2>4 DEF Placed, Timely
    <3> QED BY <3>1, <3>2
  <2>6. Led'
    BY <1>1, <2>1 DEF Timely, Led
  <2>7. Pending' <=> Pending
    BY <1>1, <1>2, <1>5, <2>3, <2>4 DEF Pending, Before, Writing
  <2>8. Enough'
    BY <1>1, <2>1, <2>7 DEF Timely, Enough, Slack
  <2> QED BY <2>5, <2>6, <2>8 DEF Timely
<1> QED BY <1>3, <1>4, <1>5 DEF Names
LEMMA BundleInTime ==
  ASSUME RoomForMishaps, PkiInv, Timely, NEW r \in Replicas, ReadExternalBundle(r)
  PROVE  Timely'
<1>1. /\ external' = external /\ leaf' = leaf /\ leader' = leader
      /\ settled' = settled /\ due' = due /\ mishaps' = mishaps
  BY DEF ReadExternalBundle
<1>2. proc[r].pc = "readBundle" /\ proc[r].pc \in Calls /\ proc[r].pc \notin Before
  BY DEF ReadExternalBundle, Calls, Before
<1>3. CASE leaf["client"] = NoLeaf
  BY <1>1, <1>2, <1>3, ErrorsInTime DEF ReadExternalBundle
<1>4. CASE leaf["client"] # NoLeaf
  <2> DEFINE p == [Bundled(r, leaf["client"]) EXCEPT
                     !.roots = IF proc[r].boot THEN leaf["client"].ca ELSE proc[r].roots]
  <2>1. proc' = [proc EXCEPT ![r] = p] /\ proc'[r] = p
    BY <1>4, ServerLeafType DEF ReadExternalBundle
  <2>2. p.pc = "up"
    BY ServerLeafType DEF Bundled, Procs
  <2> HIDE DEF p
  <2>3. Placed(r)'
    BY <1>1, <1>2, <2>1, <2>2 DEF Timely, Placed
  <2> QED BY <1>1, <1>2, <2>1, <2>3, OneReplicaInTime
<1> QED BY <1>3, <1>4

(* A crash pays with a mishap, and the replica that starts again renews.   *)
LEMMA CrashInTime ==
  ASSUME PkiInv, Timely, NEW r \in Replicas, CrashReplica(r)
  PROVE  Timely'
<1>1. /\ external' = external /\ leaf' = leaf /\ settled' = settled
      /\ leader' = (IF leader = r THEN NoLeader ELSE leader)
      /\ due' = (due /\ leader # r) /\ mishaps' = mishaps + 1
  BY DEF CrashReplica, Mishap
<1>2. proc'[r] = Off /\ \A q \in Replicas \ {r} : proc'[q] = proc[q]
  BY ServerLeafType DEF CrashReplica
<1>3. \A q \in Replicas : Placed(q)'
  BY <1>1, <1>2 DEF Placed, Timely, Off
<1>4. Led'
  <2>1. mishaps' # 0
    BY <1>1, ServerLeafType
  <2>2. due' => due /\ leader # r
    BY <1>1, Zenon
  <2>3. due' => leader' # NoLeader /\ settled'
    BY <1>1, <2>2 DEF Timely, Led
  <2> QED BY <2>1, <2>3 DEF Led
<1>5. Pending'
  BY <1>2 DEF Pending, Before, Off
<1>6. leaf["server"] # NoLeaf /\ ~external => leaf["server"].life + mishaps >= RenewBefore
  BY ServerLeafType DEF Timely, Enough, Slack
<1>7. Enough'
  BY <1>1, <1>5, <1>6, ServerLeafType DEF Timely, Enough, Slack
<1> QED BY <1>3, <1>4, <1>7 DEF Timely

LEMMA LeaseInTime ==
  ASSUME PkiInv, Timely, NEW r \in Replicas, TakeLease(r)
  PROVE  Timely'
<1>1. /\ leader = NoLeader /\ leader' = r /\ settled' = FALSE /\ due' = FALSE /\ due = FALSE
      /\ external' = external /\ leaf' = leaf /\ proc' = proc /\ mishaps' = mishaps
  BY InvByParts DEF TakeLease, Timely, Led, Rest
<1>2. \A q \in Replicas : Placed(q)'
  BY <1>1, ServerLeafType DEF Timely, Placed
<1>3. Led'
  BY <1>1 DEF Timely, Led
<1>4. (Pending' <=> Pending) /\ Slack' = Slack
  BY <1>1 DEF Pending, Slack
<1>5. Enough'
  BY <1>1, <1>4 DEF Timely, Enough
<1> QED BY <1>2, <1>3, <1>5 DEF Timely

LEMMA RotationInTime ==
  ASSUME PkiInv, Timely, RotateOnce
  PROVE  Timely'
<1>1. /\ due /\ due' = FALSE /\ leader \in Replicas /\ proc[leader].pc = "up"
      /\ external' = external /\ leaf' = leaf /\ leader' = leader
      /\ settled' = settled /\ settled /\ mishaps' = mishaps
  BY InvByParts DEF RotateOnce, Timely, Led, Rest
<1>2. /\ proc'[leader].pc = FirstCall
      /\ \A q \in Replicas \ {leader} : proc'[q] = proc[q]
  BY <1>1, ServerLeafType DEF RotateOnce, Procs
<1>3. \A q \in Replicas : Placed(q)'
  BY <1>1, <1>2 DEF Timely, Placed, FirstCall
<1>4. Led'
  BY <1>1, ServerLeafType DEF Timely, Led
<1>5. Pending /\ (~external => Pending')
  BY <1>1, <1>2 DEF Pending, Before, FirstCall
<1>6. Enough'
  BY <1>1, <1>5 DEF Timely, Enough, Slack
<1> QED BY <1>3, <1>4, <1>6 DEF Timely

LEMMA OutsideInTime ==
  ASSUME RoomForMishaps, PkiInv, Timely, NEW n \in Names, ExternalIssue(n)
  PROVE  Timely'
<1>1. /\ external /\ external' = external /\ proc' = proc /\ leader' = leader
      /\ settled' = settled /\ due' = due /\ mishaps' = mishaps
  BY DEF ExternalIssue
<1>2. leaf'["server"] = leaf["server"] \/ leaf'["server"].life = Validity
  BY InvByParts DEF ExternalIssue, IssueLeaf, Rest, Names
<1>3. \A q \in Replicas : Placed(q)'
  BY <1>1 DEF Timely, Placed
<1>4. Led'
  BY <1>1, <1>2 DEF Timely, Led
<1>5. Enough'
  BY <1>1, <1>2, ServerLeafType DEF Timely, Enough, RoomForMishaps
<1> QED BY <1>3, <1>4, <1>5 DEF Timely

(* The server leaf that is stored has not expired.                         *)
LEMMA StoredLeafIsValid ==
  ASSUME RoomForMishaps, PkiInv, Timely, leaf["server"] # NoLeaf
  PROVE  leaf["server"].life > 0
<1>1. mishaps < RenewBefore /\ RenewBefore > 0
  BY InvByParts, PkiAssumption DEF Rest, RoomForMishaps
<1>2. leaf["server"].life + mishaps >= RenewBefore \/ leaf["server"].life >= RenewBefore
  BY ServerLeafType DEF Timely, Enough, Slack
<1> QED BY <1>1, <1>2, ServerLeafType

(* An interval passes when nobody is about to look at the leaf any more.   *)
LEMMA AgeingInTime ==
  ASSUME RoomForMishaps, PkiInv, Timely, HalfADay
  PROVE  Timely' /\ (leaf["server"] # NoLeaf => leaf'["server"].life > 0)
<1>1. /\ ~due /\ leader # NoLeader /\ settled' = TRUE /\ due' = settled
      /\ external' = external /\ leader' = leader /\ mishaps' = mishaps
      /\ \A r \in Replicas : proc[r].pc = "up"
      /\ external => ~NeedsRotation(leaf["server"])
      /\ leaf'["server"] = Older(leaf["server"])
  BY DEF HalfADay, Quiet, Names
<1>2. \A r \in Replicas : proc'[r].pc = "up"
  <2> TAKE r \in Replicas
  <2>1. proc'[r] = [proc[r] EXCEPT !.held = Older(proc[r].held)] /\ proc[r] \in Procs
    BY ServerLeafType DEF HalfADay
  <2> QED BY <1>1, <2>1 DEF Procs
<1>3. \A r \in Replicas : Placed(r)'
  BY <1>1, <1>2 DEF Placed
<1>4. Led'
  BY <1>1, ServerLeafType DEF Timely, Led
<1>5. CASE leaf["server"] = NoLeaf
  BY <1>1, <1>3, <1>4, <1>5 DEF Timely, Enough, Older
<1>6. CASE leaf["server"] # NoLeaf
  <2>1. leaf["server"].life > 0
    BY <1>6, StoredLeafIsValid
  <2>2. leaf'["server"].life = leaf["server"].life - 1
    BY <1>1, <1>6, <2>1, ServerLeafType DEF Older, Leaves
  <2>3. external => leaf["server"].life > RenewBefore
    BY <1>1, <1>6, ServerLeafType DEF NeedsRotation
  <2>4. ~Pending /\ (settled => Pending') /\ (~settled => ~Pending')
    <3>1. ~Pending
      BY <1>1 DEF Pending, Before
    <3>2. Pending' => due'
      BY <1>2 DEF Pending, Before
    <3>3. due' => Pending'
      BY DEF Pending
    <3>4. due' = settled
      BY <1>1
    <3> QED BY <3>1, <3>2, <3>3, <3>4
  <2>5. Slack' \in Nat /\ Slack = Slack' + 1
    <3>1. ~Pending /\ leader # NoLeader /\ leader' = leader /\ settled' = TRUE
      BY <1>1, <2>4
    <3>2. CASE settled
      <4>1. Slack = 1
        BY <3>1, <3>2 DEF Slack
      <4>2. Slack' = 0
        BY <2>4, <3>2 DEF Slack
      <4> QED BY <4>1, <4>2
    <3>3. CASE ~settled
      <4>1. Slack = 2
        BY <3>1, <3>3 DEF Slack
      <4>2. Slack' = 1
        BY <2>4, <3>1, <3>3 DEF Slack
      <4> QED BY <4>1, <4>2
    <3> QED BY <3>2, <3>3
  <2>6. Enough'
    <3>1. leaf["server"].life \in Nat /\ mishaps \in Nat /\ RenewBefore \in Nat
      BY <1>6, ServerLeafType
    <3>2. external' = external /\ mishaps' = mishaps
      BY <1>1
    <3>3. CASE external
      <4>1. leaf'["server"].life >= RenewBefore
        BY <2>2, <2>3, <3>1, <3>3
      <4> QED BY <3>2, <3>3, <4>1 DEF Enough
    <3>4. CASE ~external
      <4>1. leaf["server"].life + mishaps >= RenewBefore + Slack
        BY <1>6, <3>4 DEF Timely, Enough
      <4>2. leaf'["server"].life + mishaps' >= RenewBefore + Slack'
        BY <2>2, <2>5, <3>1, <3>2, <4>1
      <4> QED BY <3>2, <3>4, <4>2 DEF Enough
    <3> QED BY <3>3, <3>4
  <2>7. ~external => leaf["server"].life + mishaps >= RenewBefore + 1
    BY <1>6, <2>5, ServerLeafType DEF Timely, Enough
  <2>8. mishaps < RenewBefore /\ RenewBefore > 0
    BY InvByParts, PkiAssumption DEF Rest, RoomForMishaps
  <2>9. leaf'["server"].life > 0
    BY <1>6, <2>2, <2>3, <2>7, <2>8, ServerLeafType
  <2> QED BY <1>3, <1>4, <2>6, <2>9 DEF Timely
<1> QED BY <1>5, <1>6

LEMMA TimelyStep ==
  ASSUME RoomForMishaps
  PROVE  PkiInv /\ Timely /\ [PkiNext]_pkiVars => Timely'
<1> SUFFICES ASSUME PkiInv, Timely, [PkiNext]_pkiVars PROVE Timely'
  OBVIOUS
<1>1. ASSUME NEW r \in Replicas, EnsurePKI(r) PROVE Timely'
  BY <1>1, AuthorityInTime, BundleInTime, LeafReadInTime, LeafWrittenInTime DEF EnsurePKI
<1>2. CASE AgentStarts \/ AgentReloads \/ UNCHANGED pkiVars
  <2>1. /\ external' = external /\ leaf' = leaf /\ proc' = proc /\ leader' = leader
        /\ settled' = settled /\ due' = due /\ mishaps' = mishaps
    BY <1>2 DEF AgentStarts, AgentReloads, pkiVars
  <2> QED BY <2>1 DEF Timely, Placed, Led, Enough, Slack, Pending
<1> QED
  BY <1>1, <1>2, StartAndFailInTime, LeaseInTime, CrashInTime, RotationInTime,
     OutsideInTime, AgeingInTime DEF PkiNext

(* What the agent serves is what is stored, or was stored since the last   *)
(* interval.                                                               *)
LEMMA ServedStep ==
  ASSUME RoomForMishaps
  PROVE  PkiInv /\ Timely /\ ServedLeafIsValid /\ [PkiNext]_pkiVars => ServedLeafIsValid'
<1> SUFFICES ASSUME PkiInv, Timely, ServedLeafIsValid, [PkiNext]_pkiVars
             PROVE  ServedLeafIsValid'
  OBVIOUS
<1>1. CASE AgentStarts \/ AgentReloads
  <2>1. agent'.leaf = leaf["server"]
    BY <1>1, InvByParts DEF AgentStarts, AgentReloads, Rest
  <2> QED BY <2>1, StoredLeafIsValid DEF ServedLeafIsValid
<1>2. CASE HalfADay
  <2>1. agent'.leaf = Older(agent.leaf) /\ agent.leaf = leaf["server"]
        /\ leaf'["server"] = Older(leaf["server"])
    BY <1>2, InvByParts DEF HalfADay, Quiet, Rest, Names
  <2>2. agent.leaf = NoLeaf => agent'.leaf = NoLeaf
    BY <2>1 DEF Older
  <2> QED BY <1>2, <2>1, <2>2, AgeingInTime DEF ServedLeafIsValid
<1>3. CASE ~(AgentStarts \/ AgentReloads \/ HalfADay)
  <2>1. agent' = agent
    BY <1>3, ZenonT(30)
       DEF PkiNext, pkiVars, StartReplica, EnsurePKI, CallFails, TakeLease, CrashReplica,
       RotateOnce, ExternalIssue, GetCA, CreateCA, ReloadCA, ReadExternalBundle, GetLeaf, PutLeaf
  <2> QED BY <2>1, SMTT(30) DEF ServedLeafIsValid
<1> QED BY <1>1, <1>2, <1>3

(* An agent never presents an expired certificate, whatever the number of  *)
(* replicas and whichever of their calls fail, provided RenewBefore is     *)
(* longer than the mishaps that can hit successive rotations and leaves    *)
(* more than one interval of the validity.  With the defaults (90 days, 30 *)
(* days, a rotation every 12 hours) that is 180, 60 and up to 59 mishaps.  *)
THEOREM ServedLeavesAreValid ==
  ASSUME RoomForMishaps
  PROVE  PkiSpec => []ServedLeafIsValid
<1>1. PkiInit => ServedLeafIsValid
  BY DEF PkiInit, ServedLeafIsValid
<1> QED
  BY <1>1, PkiInvInit, PkiInvStep, TimelyInit, TimelyStep, ServedStep, PTL DEF PkiSpec
-----------------------------------------------------------------------------
(***************************************************************************)
(* The agent and its token, for any number of requests in flight, any      *)
(* contents and PINs, any limits of the probes and of the token, and any   *)
(* number of mishaps.                                                      *)
(***************************************************************************)

\* What a request in flight can be: which steps its kind goes through and what
\* it carries.
CallType ==
  {Idle}
  \cup [kind : {"read"}, step : {"waiting", "search"}, arg : {NoValue}]
  \cup [kind : {"delete", "deleteKey"}, step : {"waiting", "search", "destroy"},
        arg : {NoValue}]
  \cup [kind : {"write"},
        step : {"waiting", "search", "destroy", "create", "createRest"}, arg : Values]
  \cup [kind : {"changePIN"}, step : {"waiting"}, arg : Pins \X Pins]

AgentTypes == AgentTypeOK /\ call \in [Requests -> CallType]

LEMMA MishapType ==
  ASSUME AgentTypes, Mishap
  PROVE  mishaps' \in 0..MaxMishaps
BY AgentAssumption DEF AgentTypes, AgentTypeOK, Mishap

LEMMA IdleType == Idle \in CallType
BY DEF CallType

\* A process that is gone leaves well-typed state behind, whatever it was doing.
LEMMA GoneTypes ==
  ASSUME AgentTypes, ExitWithError, mishaps' \in 0..MaxMishaps
  PROVE  AgentTypes'
<1>1. call' \in [Requests -> CallType] /\ DOMAIN call' = Requests
  BY IdleType DEF ExitWithError, ProcessGone
<1>2. fails' \in [live : 0..LiveLimit, ready : 0..ReadyLimit]
  BY AgentAssumption DEF ExitWithError, ProcessGone
<1> QED BY <1>1, <1>2 DEF AgentTypes, AgentTypeOK, ExitWithError, ProcessGone

LEMMA PINType ==
  ASSUME AgentTypes
  PROVE  GetPIN \in Pins
BY DEF AgentTypes, AgentTypeOK, GetPIN

LEMMA LoginType ==
  ASSUME AgentTypes, NEW p
  PROVE  AfterLogin(p) \in [pin : Pins \cup {NoPin}, tries : 0..MaxTries,
                            data : Values \cup {NoValue, Torn}]
BY AgentAssumption DEF AgentTypes, AgentTypeOK, AfterLogin

LEMMA MockTypes ==
  ASSUME AgentTypes, FallBackToMock, mishaps' \in 0..MaxMishaps
  PROVE  AgentTypes'
<1>1. CASE ExitWithError
  BY <1>1, GoneTypes
<1>2. CASE Serve("mock") /\ UNCHANGED <<config, device, token, pinSecret, session,
                    searching, pinCache, call, kubelet, acked>>
  BY <1>2 DEF AgentTypes, AgentTypeOK, Serve, kubelet
<1> QED BY <1>1, <1>2 DEF FallBackToMock

LEMMA EnvironmentTypes ==
  ASSUME AgentTypes, Unplug \/ Plug \/ Wedge \/ (\E p \in Pins : UpdatePinSecret(p))
  PROVE  AgentTypes'
<1>1. CASE Unplug
  BY <1>1, MishapType DEF Unplug, AgentTypes, AgentTypeOK, kubelet
<1>2. CASE Plug
  BY <1>2 DEF Plug, AgentTypes, AgentTypeOK, process, kubelet
<1>3. CASE Wedge
  BY <1>3, MishapType DEF Wedge, AgentTypes, AgentTypeOK, process, kubelet
<1>4. CASE \E p \in Pins : UpdatePinSecret(p)
  BY <1>4, MishapType DEF UpdatePinSecret, AgentTypes, AgentTypeOK, process, kubelet
<1> QED BY <1>1, <1>2, <1>3, <1>4

LEMMA StartUpTypes ==
  ASSUME AgentTypes, StartUp
  PROVE  AgentTypes'
<1>0. mishaps \in 0..MaxMishaps
  BY DEF AgentTypes, AgentTypeOK
<1>1. CASE StartWithoutLibrary
  BY <1>0, <1>1, MockTypes DEF StartWithoutLibrary
<1>2. CASE StartPCSCD
  BY <1>2 DEF StartPCSCD, AgentTypes, AgentTypeOK, kubelet, Starting
<1>3. CASE FetchPIN
  BY <1>3, MishapType, PINType DEF FetchPIN, AgentTypes, AgentTypeOK, kubelet, Starting
<1>4. CASE Initialize
  <2>1. token' \in [pin : Pins \cup {NoPin}, tries : 0..MaxTries,
                    data : Values \cup {NoValue, Torn}]
    BY <1>4, LoginType DEF Initialize
  <2>2. CASE LoggedIn(GetPIN)
    BY <1>4, <2>1, <2>2 DEF Initialize, Serve, AgentTypes, AgentTypeOK, kubelet
  <2>3. CASE ~LoggedIn(GetPIN)
    BY <1>4, <2>1, <2>3 DEF Initialize, AgentTypes, AgentTypeOK, kubelet, Starting
  <2> QED BY <2>2, <2>3
<1>5. CASE AttemptAutoProvision
  <2>1. CASE phase' = "provision" /\ UNCHANGED <<config, device, token, pinSecret, client,
                 connected, session, searching, pinCache, call, kubelet, acked, mishaps>>
    BY <2>1 DEF AgentTypes, AgentTypeOK, kubelet, Starting
  <2>2. CASE ExitWithError /\ UNCHANGED mishaps
    BY <1>0, <2>2, GoneTypes
  <2>3. CASE FallBackToMock /\ UNCHANGED mishaps
    BY <1>0, <2>3, MockTypes
  <2>4. CASE FallBackToMock /\ Mishap
    BY <2>4, MishapType, MockTypes, ZenonT(30)
  <2> QED BY <1>5, <2>1, <2>2, <2>3, <2>4 DEF AttemptAutoProvision
<1>6. CASE Provision
  BY <1>6, PINType, AgentAssumption
     DEF Provision, AgentTypes, AgentTypeOK, kubelet, Starting
<1>7. CASE InitializeAgain
  <2>1. token' \in [pin : Pins \cup {NoPin}, tries : 0..MaxTries,
                    data : Values \cup {NoValue, Torn}]
    BY <1>7, LoginType DEF InitializeAgain
  <2>2. CASE LoggedIn(GetPIN)
    BY <1>7, <2>1, <2>2 DEF InitializeAgain, Serve, AgentTypes, AgentTypeOK, kubelet
  <2>3. CASE ~LoggedIn(GetPIN)
    <3>1. call' \in [Requests -> CallType] /\ DOMAIN call' = Requests
      BY <1>7, <2>3, IdleType DEF InitializeAgain, ProcessGone
    <3>2. fails' \in [live : 0..LiveLimit, ready : 0..ReadyLimit]
      BY <1>7, <2>3, AgentAssumption DEF InitializeAgain, ProcessGone
    <3> QED BY <1>7, <2>1, <2>3, <3>1, <3>2
               DEF InitializeAgain, ProcessGone, AgentTypes, AgentTypeOK
  <2> QED BY <2>2, <2>3
<1> QED BY <1>1, <1>2, <1>3, <1>4, <1>5, <1>6, <1>7 DEF StartUp

LEMMA HandleTypes ==
  ASSUME AgentTypes, NEW r \in Requests, NEW kind, NEW arg, Handle(r, kind, arg),
         [kind |-> kind, step |-> "waiting", arg |-> arg] \in CallType,
         mishaps' \in 0..MaxMishaps
  PROVE  AgentTypes'
BY DEF Handle, AgentTypes, AgentTypeOK, kubelet

LEMMA RequestTypes ==
  ASSUME AgentTypes,
         \/ \E r \in Reads : ReadSecret(r) \/ ReadMetadata(r) \/ ListSecrets(r) \/ GetChecksum(r)
         \/ \E r \in Writes :
              \/ DeleteSecret(r) \/ DeleteSecretKey(r)
              \/ \E v \in Values : WriteSecret(r, v)
              \/ \E old, new \in Pins : ChangePIN(r, old, new)
  PROVE  AgentTypes'
<1>0. mishaps \in 0..MaxMishaps /\ Reads \subseteq Requests /\ Writes \subseteq Requests
  BY DEF AgentTypes, AgentTypeOK, Requests
<1>1. CASE \E r \in Reads : Handle(r, "read", NoValue) /\ UNCHANGED mishaps
  <2>1. [kind |-> "read", step |-> "waiting", arg |-> NoValue] \in CallType
    BY DEF CallType
  <2> QED BY <1>0, <1>1, <2>1, HandleTypes
<1>2. CASE \E r \in Writes : DeleteSecret(r) \/ DeleteSecretKey(r)
  <2>1. \A kind \in {"delete", "deleteKey"} :
          [kind |-> kind, step |-> "waiting", arg |-> NoValue] \in CallType
    BY ZenonT(30) DEF CallType
  <2> QED BY <1>0, <1>2, <2>1, HandleTypes, SMTT(30) DEF DeleteSecret, DeleteSecretKey
<1>3. CASE \E r \in Writes, v \in Values : WriteSecret(r, v)
  <2>1. \A v \in Values : [kind |-> "write", step |-> "waiting", arg |-> v] \in CallType
    BY DEF CallType
  <2> QED BY <1>0, <1>3, <2>1, HandleTypes DEF WriteSecret
<1>4. CASE \E r \in Writes, old, new \in Pins : ChangePIN(r, old, new)
  <2>1. \A old, new \in Pins :
          [kind |-> "changePIN", step |-> "waiting", arg |-> <<old, new>>] \in CallType
    BY DEF CallType
  <2> QED BY <1>0, <1>4, <2>1, MishapType, HandleTypes DEF ChangePIN
<1> QED BY <1>1, <1>2, <1>3, <1>4
        DEF ReadSecret, ReadMetadata, ListSecrets, GetChecksum

\* One step of a request takes its call to what its kind does next, or ends it.
LEMMA CallSteps ==
  ASSUME NEW c \in CallType
  PROVE  /\ c.step = "waiting" /\ c.kind # "changePIN"
              => [c EXCEPT !.step = "search"] \in CallType
         /\ c.step = "search" /\ c.kind # "read" => [c EXCEPT !.step = "destroy"] \in CallType
         /\ c.step = "destroy" /\ c.kind = "write" => [c EXCEPT !.step = "create"] \in CallType
         /\ c.step = "create" => [c EXCEPT !.step = "createRest"] \in CallType
         /\ c.step = "createRest" => c.arg \in Values
         /\ c.kind = "changePIN" => c.arg[1] \in Pins /\ c.arg[2] \in Pins
<1>1. CASE c = Idle
  BY <1>1 DEF Idle
<1>2. CASE c \in [kind : {"read"}, step : {"waiting", "search"}, arg : {NoValue}]
  BY <1>2 DEF CallType
<1>3. CASE c \in [kind : {"delete", "deleteKey"}, step : {"waiting", "search", "destroy"},
                  arg : {NoValue}]
  BY <1>3 DEF CallType
<1>4. CASE c \in [kind : {"write"},
                  step : {"waiting", "search", "destroy", "create", "createRest"},
                  arg : Values]
  BY <1>4 DEF CallType
<1>5. CASE c \in [kind : {"changePIN"}, step : {"waiting"}, arg : Pins \X Pins]
  BY <1>5 DEF CallType
<1> QED BY <1>1, <1>2, <1>3, <1>4, <1>5 DEF CallType

LEMMA ProceedTypes ==
  ASSUME AgentTypes, NEW r \in Requests, Proceed(r)
  PROVE  AgentTypes'
<1>0. call[r] \in CallType /\ call \in [Requests -> CallType]
  BY DEF AgentTypes
<1>1. CASE Fails(r)
  BY <1>0, <1>1, IdleType DEF Fails, Returns, AgentTypes, AgentTypeOK, kubelet
<1>2. CASE FindObjectsInit(r)
  <2>1. call' \in [Requests -> CallType] /\ searching' \in Requests \cup {Nobody}
    <3>1. [call[r] EXCEPT !.step = "search"] \in CallType
      BY <1>0, <1>2, CallSteps DEF FindObjectsInit
    <3> QED BY <1>0, <1>2, <3>1, IdleType DEF FindObjectsInit, Returns, AgentTypes, AgentTypeOK
  <2> QED BY <1>2, <2>1 DEF FindObjectsInit, AgentTypes, AgentTypeOK, kubelet
<1>3. CASE FindObjectsFinal(r)
  <2>1. call' \in [Requests -> CallType]
    BY <1>0, <1>3, IdleType, CallSteps DEF FindObjectsFinal, Returns, Destroys
  <2> QED BY <1>3, <2>1 DEF FindObjectsFinal, AgentTypes, AgentTypeOK, kubelet
<1>4. CASE DestroyObjects(r)
  <2>1. call' \in [Requests -> CallType]
    <3>1. \/ call' = call
          \/ call[r].kind = "write" /\ call' = [call EXCEPT ![r].step = "create"]
          \/ call' = [call EXCEPT ![r] = Idle]
      BY <1>4 DEF DestroyObjects, Returns
    <3>2. call[r].kind = "write" => [call[r] EXCEPT !.step = "create"] \in CallType
      BY <1>0, <1>4, CallSteps DEF DestroyObjects
    <3> QED BY <1>0, <3>1, <3>2, IdleType
  <2> QED BY <1>4, <2>1 DEF DestroyObjects, AgentTypes, AgentTypeOK, kubelet
<1>5. CASE CreateObject(r)
  <2>1. call' \in [Requests -> CallType]
    BY <1>0, <1>5, CallSteps DEF CreateObject
  <2> QED BY <1>5, <2>1 DEF CreateObject, AgentTypes, AgentTypeOK, kubelet
<1>6. CASE WriteMetadata(r)
  <2>1. call' \in [Requests -> CallType] /\ call[r].arg \in Values
    BY <1>0, <1>6, IdleType, CallSteps DEF WriteMetadata, Returns
  <2> QED BY <1>6, <2>1 DEF WriteMetadata, AgentTypes, AgentTypeOK, kubelet
<1>7. CASE SetPIN(r)
  <2>1. call' \in [Requests -> CallType] /\ call[r].arg[2] \in Pins
    BY <1>0, <1>7, IdleType, CallSteps DEF SetPIN, Returns
  <2>2. token' \in [pin : Pins \cup {NoPin}, tries : 0..MaxTries,
                    data : Values \cup {NoValue, Torn}]
    <3>1. token.tries \in 0..MaxTries /\ token.tries \in Nat /\ MaxTries \in 0..MaxTries
      BY AgentAssumption DEF AgentTypes, AgentTypeOK
    <3>2. (IF token.tries = 0 THEN 0 ELSE token.tries - 1) \in 0..MaxTries
      BY <3>1, AgentAssumption
    <3>3. \/ token' = [token EXCEPT !.pin = call[r].arg[2], !.tries = MaxTries]
          \/ token' = [token EXCEPT !.tries = IF token.tries = 0 THEN 0 ELSE token.tries - 1]
      BY <1>7 DEF SetPIN
    <3> QED BY <2>1, <3>1, <3>2, <3>3 DEF AgentTypes, AgentTypeOK
  <2>3. pinCache' \in Pins \cup {NoPin}
    BY <1>7 DEF SetPIN, InvalidateCache, AgentTypes, AgentTypeOK
  <2> QED BY <1>7, <2>1, <2>2, <2>3 DEF SetPIN, AgentTypes, AgentTypeOK, kubelet
<1> QED BY <1>1, <1>2, <1>3, <1>4, <1>5, <1>6, <1>7 DEF Proceed

LEMMA ProbeTypes ==
  ASSUME AgentTypes, ServeGetInfo \/ LivenessProbe \/ ReadinessProbe
  PROVE  AgentTypes'
<1>0. fails \in [live : 0..LiveLimit, ready : 0..ReadyLimit]
  BY DEF AgentTypes, AgentTypeOK
<1>1. \A ok : ProbeToken(ok) \/ GetInfo(ok) => connected' \in BOOLEAN
  BY Zenon DEF ProbeToken, GetInfo, AgentTypes, AgentTypeOK
<1>2. CASE ServeGetInfo
  BY <1>1, <1>2 DEF ServeGetInfo, AgentTypes, AgentTypeOK, kubelet
<1>3. CASE LivenessProbe
  <2>1. fails' \in [live : 0..LiveLimit, ready : 0..ReadyLimit]
    BY <1>0, <1>3, AgentAssumption DEF LivenessProbe
  <2>2. connected' \in BOOLEAN
    BY <1>1, <1>3 DEF LivenessProbe
  <2> QED BY <1>3, <2>1, <2>2 DEF LivenessProbe, AgentTypes, AgentTypeOK
<1>4. CASE ReadinessProbe
  <2>1. fails' \in [live : 0..LiveLimit, ready : 0..ReadyLimit]
    BY <1>0, <1>4, AgentAssumption DEF ReadinessProbe, Capped
  <2>2. connected' \in BOOLEAN /\ ready' \in BOOLEAN
    BY <1>1, <1>4 DEF ReadinessProbe
  <2> QED BY <1>4, <2>1, <2>2 DEF ReadinessProbe, AgentTypes, AgentTypeOK
<1> QED BY <1>2, <1>3, <1>4

LEMMA ExitTypes ==
  ASSUME AgentTypes, Crash \/ PCSCDFails \/ ProvisionFails \/ Terminate \/ Close \/ Killed
  PROVE  AgentTypes'
<1>0. mishaps \in 0..MaxMishaps
  BY DEF AgentTypes, AgentTypeOK
<1>1. CASE ExitWithError /\ (UNCHANGED mishaps \/ Mishap)
  BY <1>0, <1>1, GoneTypes, MishapType
<1>2. CASE phase' = "stopping" /\ ready' = FALSE
           /\ UNCHANGED <<config, device, token, pinSecret, client, connected, session,
                          searching, pinCache, call, fails, acked, mishaps>>
  <2>1. /\ phase' \in Starting \cup {"down", "serving", "stopping"}
        /\ ready' \in BOOLEAN /\ connected' \in BOOLEAN
    BY <1>2, Zenon DEF AgentTypes, AgentTypeOK
  <2> QED BY <1>2, <2>1 DEF AgentTypes, AgentTypeOK
<1> QED BY <1>1, <1>2
        DEF Crash, PCSCDFails, ProvisionFails, Terminate, Close, Killed, ExitWithError

LEMMA TypesStep ==
  ASSUME AgentTypes, [AgentNext]_vars
  PROVE  AgentTypes'
<1>1. CASE UNCHANGED vars
  BY <1>1 DEF AgentTypes, AgentTypeOK, vars, process, kubelet
<1>2. CASE \E v \in Values : MockWrite(v)
  BY <1>2 DEF MockWrite, AgentTypes, AgentTypeOK, process, kubelet
<1>3. CASE AgentNext
  BY <1>2, <1>3, EnvironmentTypes, StartUpTypes, RequestTypes, ProceedTypes, ProbeTypes,
     ExitTypes, SMTT(30) DEF AgentNext
<1> QED BY <1>1, <1>3

LEMMA TypesInit ==
  ASSUME AgentInit
  PROVE  AgentTypes
<1>1. call \in [Requests -> CallType] /\ DOMAIN call = Requests
  BY IdleType DEF AgentInit
<1>2. fails \in [live : 0..LiveLimit, ready : 0..ReadyLimit] /\ mishaps \in 0..MaxMishaps
  BY AgentAssumption DEF AgentInit
<1>3. token \in [pin : Pins \cup {NoPin}, tries : 0..MaxTries,
                 data : Values \cup {NoValue, Torn}]
  BY AgentAssumption DEF AgentInit
<1> QED BY <1>1, <1>2, <1>3 DEF AgentInit, AgentTypes, AgentTypeOK

-----------------------------------------------------------------------------
(* What the process and the token know of each other. *)

\* Only a process that serves has a session, and a session that works belongs to
\* a token with a PIN.  The token is blank until the provisioning of it is done;
\* then it has the PIN of the cache and all its attempts.  Where hardware is
\* required nothing serves from memory.
SessionInvariant ==
  /\ phase \notin {"serving", "stopping"} => session = "none"
  /\ session = "live" => token.pin # NoPin
  /\ phase = "provision" => token.pin = NoPin
  /\ phase = "relogin" => /\ pinCache # NoPin
                          /\ token.pin = pinCache
                          /\ token.tries = MaxTries
  /\ config.require => client # "mock"

LEMMA SessionGone ==
  ASSUME ProcessGone
  PROVE  SessionInvariant'
BY DEF ProcessGone, SessionInvariant

\* A step that is none of the process's business.
LEMMA SessionKept ==
  ASSUME SessionInvariant, token'.pin = token.pin, token'.tries = token.tries,
         config' = config, phase' = phase, client' = client, pinCache' = pinCache,
         session' = session \/ (session' = "dead" /\ session = "live")
  PROVE  SessionInvariant'
BY DEF SessionInvariant

LEMMA SessionMock ==
  ASSUME SessionInvariant, FallBackToMock
  PROVE  SessionInvariant'
<1>1. CASE ExitWithError
  BY <1>1, SessionGone DEF ExitWithError
<1>2. CASE ~config.require /\ Serve("mock") /\ UNCHANGED <<config, token, session>>
  BY <1>2 DEF Serve, SessionInvariant
<1> QED BY <1>1, <1>2 DEF FallBackToMock

LEMMA SessionStartUp ==
  ASSUME AgentTypes, SessionInvariant, StartUp
  PROVE  SessionInvariant'
<1>1. CASE StartWithoutLibrary
  BY <1>1, SessionMock DEF StartWithoutLibrary
<1>2. CASE StartPCSCD
  BY <1>2 DEF StartPCSCD, SessionInvariant
<1>3. CASE FetchPIN
  BY <1>3 DEF FetchPIN, SessionInvariant
<1>4. CASE Initialize
  <2>1. token'.pin = token.pin
    BY <1>4 DEF Initialize, AfterLogin, AgentTypes, AgentTypeOK
  <2>2. LoggedIn(GetPIN) => token.pin # NoPin
    BY PINType, AgentAssumption DEF LoggedIn
  <2> QED BY <1>4, <2>1, <2>2 DEF Initialize, Serve, SessionInvariant
<1>5. CASE AttemptAutoProvision
  <2>1. CASE /\ IsTokenBlank /\ phase = "autoProvision" /\ phase' = "provision"
             /\ UNCHANGED <<config, token, client, session>>
    BY <2>1 DEF IsTokenBlank, SessionInvariant
  <2>2. CASE ExitWithError
    BY <2>2, SessionGone DEF ExitWithError
  <2>3. CASE FallBackToMock
    BY <2>3, SessionMock
  <2> QED BY <1>5, <2>1, <2>2, <2>3 DEF AttemptAutoProvision
<1>6. CASE Provision
  <2>1. GetPIN # NoPin
    BY PINType, AgentAssumption
  <2> QED BY <1>6, <2>1 DEF Provision, SessionInvariant
<1>7. CASE InitializeAgain
  <2>1. CASE LoggedIn(GetPIN)
    <3>1. token'.pin = token.pin
      BY <1>7, <2>1 DEF InitializeAgain, AfterLogin, AgentTypes, AgentTypeOK
    <3> QED BY <1>7, <2>1, <3>1 DEF InitializeAgain, Serve, SessionInvariant
  <2>2. CASE ~LoggedIn(GetPIN)
    BY <1>7, <2>2, SessionGone DEF InitializeAgain
  <2> QED BY <2>1, <2>2, ZenonT(30)
<1> QED BY <1>1, <1>2, <1>3, <1>4, <1>5, <1>6, <1>7 DEF StartUp

LEMMA SessionProceed ==
  ASSUME AgentTypes, SessionInvariant, NEW r \in Requests, Proceed(r)
  PROVE  SessionInvariant'
<1>0. UNCHANGED <<config, phase, client, session>>
  BY DEF Proceed, Fails, FindObjectsInit, FindObjectsFinal, DestroyObjects, CreateObject,
         WriteMetadata, SetPIN
<1>1. CASE SetPIN(r)
  <2>1. session = "live" /\ phase # "relogin" /\ phase # "provision"
    BY <1>1 DEF SetPIN, Works, SessionInvariant
  <2>2. call[r] \in CallType /\ call[r].kind = "changePIN"
    BY <1>1 DEF SetPIN, AgentTypes
  <2>3. call[r].arg[2] # NoPin
    BY <2>2, CallSteps, AgentAssumption
  <2>4. token'.pin # NoPin
    BY <1>1, <2>1, <2>3 DEF SetPIN, SessionInvariant, AgentTypes, AgentTypeOK
  <2> QED BY <1>0, <2>1, <2>4 DEF SessionInvariant
<1>2. CASE Fails(r) \/ FindObjectsInit(r) \/ FindObjectsFinal(r)
  BY <1>2, SessionKept DEF Fails, FindObjectsInit, FindObjectsFinal
<1>3. CASE DestroyObjects(r) \/ CreateObject(r) \/ WriteMetadata(r)
  <2>1. token'.pin = token.pin /\ token'.tries = token.tries /\ pinCache' = pinCache
    BY <1>3 DEF DestroyObjects, CreateObject, WriteMetadata, AgentTypes, AgentTypeOK
  <2> QED BY <1>0, <2>1, SessionKept
<1> QED BY <1>1, <1>2, <1>3 DEF Proceed

LEMMA SessionStep ==
  ASSUME AgentTypes, SessionInvariant, [AgentNext]_vars
  PROVE  SessionInvariant'
<1>1. CASE UNCHANGED vars
  BY <1>1, SessionKept DEF vars, process
<1>2. CASE \/ Unplug \/ Plug \/ Wedge \/ (\E p \in Pins : UpdatePinSecret(p))
           \/ (\E v \in Values : MockWrite(v))
  BY <1>2, SessionKept, SMTT(30) DEF Unplug, Plug, Wedge, UpdatePinSecret, MockWrite, process
<1>3. CASE \/ \E r \in Reads : ReadSecret(r) \/ ReadMetadata(r) \/ ListSecrets(r)
                               \/ GetChecksum(r)
           \/ \E r \in Writes :
                \/ DeleteSecret(r) \/ DeleteSecretKey(r)
                \/ \E v \in Values : WriteSecret(r, v)
                \/ \E old, new \in Pins : ChangePIN(r, old, new)
  BY <1>3, SessionKept, ZenonT(30) DEF Handle, ReadSecret, ReadMetadata, ListSecrets, GetChecksum,
     DeleteSecret, DeleteSecretKey, WriteSecret, ChangePIN
<1>4. CASE ServeGetInfo \/ LivenessProbe \/ ReadinessProbe
  BY <1>4, SessionKept DEF ServeGetInfo, LivenessProbe, ReadinessProbe
<1>5. CASE Crash \/ PCSCDFails \/ ProvisionFails \/ Terminate \/ Close \/ Killed
  <2>1. CASE ProcessGone
    BY <2>1, SessionGone
  <2>2. CASE /\ phase = "serving" /\ phase' = "stopping"
             /\ UNCHANGED <<config, token, client, session>>
    BY <2>2 DEF SessionInvariant
  <2> QED BY <1>5, <2>1, <2>2 DEF Crash, PCSCDFails, ProvisionFails, Terminate, Close,
             Killed, ExitWithError
<1> QED BY <1>1, <1>2, <1>3, <1>4, <1>5, SessionStartUp, SessionProceed DEF AgentNext

-----------------------------------------------------------------------------
(* The lock of the client and the search of its session. *)

\* A request that changes the token runs alone.
WriterIsAlone == \A q, r \in Requests : HoldsWrite(q) /\ Running(r) => q = r

LockInvariant == WriterIsAlone /\ NoSearchLeftOpen

LEMMA LockGone ==
  ASSUME ProcessGone
  PROVE  LockInvariant'
BY DEF ProcessGone, Idle, LockInvariant, WriterIsAlone, HoldsWrite, Running, NoSearchLeftOpen

LEMMA LockKept ==
  ASSUME LockInvariant, call' = call, searching' = searching
  PROVE  LockInvariant'
BY DEF LockInvariant, WriterIsAlone, HoldsWrite, Running, NoSearchLeftOpen

\* A request that stops running, or that goes on with its kind and its lock,
\* disturbs nobody.
LEMMA LockByStep ==
  ASSUME AgentTypes, LockInvariant, NEW r \in Requests, NEW c,
         call' = [call EXCEPT ![r] = c],
         \/ c.step \in {"none", "waiting"}
         \/ Running(r) /\ c.kind = call[r].kind,
         \/ searching' = Nobody
         \/ searching' = searching /\ call[r].step # "search"
  PROVE  LockInvariant'
<1>1. WriterIsAlone'
  BY DEF AgentTypes, LockInvariant, WriterIsAlone, HoldsWrite, Running
<1>2. NoSearchLeftOpen'
  BY DEF AgentTypes, AgentTypeOK, LockInvariant, NoSearchLeftOpen
<1> QED BY <1>1, <1>2 DEF LockInvariant

\* The lock is taken as RWMutex gives it: a reader beside readers, a writer alone.
LEMMA LockByInit ==
  ASSUME AgentTypes, LockInvariant, NEW r \in Requests, Unlocked(r),
         call[r].step = "waiting",
         searching' = r, call' = [call EXCEPT ![r].step = "search"]
  PROVE  LockInvariant'
<1>0. call[r] \in CallType /\ call \in [Requests -> CallType] /\ DOMAIN call = Requests
  BY DEF AgentTypes, AgentTypeOK
<1>1. call'[r].step = "search" /\ call'[r].kind = call[r].kind
  BY <1>0 DEF CallType, Idle
<1>2. \A q \in Requests \ {r} : call'[q] = call[q]
  BY <1>0
<1>3. WriterIsAlone'
  BY <1>1, <1>2 DEF LockInvariant, WriterIsAlone, Unlocked, HoldsWrite, HoldsRead, Running
<1> QED BY <1>1, <1>3 DEF LockInvariant, NoSearchLeftOpen

LEMMA LockProceed ==
  ASSUME AgentTypes, LockInvariant, NEW r \in Requests, Proceed(r)
  PROVE  LockInvariant'
<1>0. Idle.step = "none" /\ call[r] \in CallType
  BY DEF Idle, AgentTypes
<1>1. \A t : /\ [call[r] EXCEPT !.step = t].kind = call[r].kind
             /\ [call EXCEPT ![r].step = t] = [call EXCEPT ![r] = [call[r] EXCEPT !.step = t]]
  BY <1>0 DEF CallType, Idle
<1>2. CASE Fails(r) \/ WriteMetadata(r) \/ SetPIN(r)
  BY <1>0, <1>2, LockByStep DEF Fails, WriteMetadata, SetPIN, Returns
<1>3. CASE FindObjectsInit(r)
  <2>1. CASE searching' = r /\ call' = [call EXCEPT ![r].step = "search"]
    BY <1>3, <2>1, LockByInit DEF FindObjectsInit
  <2>2. CASE Returns(r) /\ UNCHANGED searching
    BY <1>0, <1>3, <2>2, LockByStep DEF FindObjectsInit, Returns
  <2> QED BY <1>3, <2>1, <2>2 DEF FindObjectsInit
<1>4. CASE FindObjectsFinal(r)
  <2>1. CASE Returns(r)
    BY <1>0, <1>4, <2>1, LockByStep DEF FindObjectsFinal, Returns
  <2>2. CASE call' = [call EXCEPT ![r].step = "destroy"]
    BY <1>1, <1>4, <2>2, LockByStep DEF FindObjectsFinal, Running
  <2> QED BY <1>4, <2>1, <2>2 DEF FindObjectsFinal
<1>5. CASE DestroyObjects(r)
  <2>1. CASE call' = call
    BY <1>5, <2>1, LockKept DEF DestroyObjects
  <2>2. CASE call' = [call EXCEPT ![r].step = "create"]
    BY <1>1, <1>5, <2>2, LockByStep DEF DestroyObjects, Running
  <2>3. CASE Returns(r)
    BY <1>0, <1>5, <2>3, LockByStep DEF DestroyObjects, Returns
  <2> QED BY <1>5, <2>1, <2>2, <2>3 DEF DestroyObjects
<1>6. CASE CreateObject(r)
  BY <1>1, <1>6, LockByStep DEF CreateObject, Running
<1> QED BY <1>2, <1>3, <1>4, <1>5, <1>6 DEF Proceed

\* What the steps that are not of a request in flight do to the requests.
LEMMA OtherSteps ==
  ASSUME [AgentNext]_vars, ~ \E r \in Requests : Proceed(r)
  PROVE  \/ ProcessGone
         \/ call' = call /\ searching' = searching
         \/ \E r \in Requests : \E kind, arg : Handle(r, kind, arg)
<1>1. CASE UNCHANGED vars
  BY <1>1 DEF vars, process
<1>2. CASE \/ Unplug \/ Plug \/ Wedge \/ (\E p \in Pins : UpdatePinSecret(p))
           \/ (\E v \in Values : MockWrite(v))
  BY <1>2 DEF Unplug, Plug, Wedge, UpdatePinSecret, MockWrite, process
<1>3. CASE \/ \E r \in Reads : ReadSecret(r) \/ ReadMetadata(r) \/ ListSecrets(r)
                               \/ GetChecksum(r)
           \/ \E r \in Writes :
                \/ DeleteSecret(r) \/ DeleteSecretKey(r)
                \/ \E v \in Values : WriteSecret(r, v)
                \/ \E old, new \in Pins : ChangePIN(r, old, new)
  BY <1>3 DEF ReadSecret, ReadMetadata, ListSecrets, GetChecksum, DeleteSecret,
     DeleteSecretKey, WriteSecret, ChangePIN, Requests
<1>4. CASE ServeGetInfo \/ LivenessProbe \/ ReadinessProbe
  BY <1>4 DEF ServeGetInfo, LivenessProbe, ReadinessProbe
<1>5. CASE Crash \/ PCSCDFails \/ ProvisionFails \/ Terminate \/ Close \/ Killed
  BY <1>5 DEF Crash, PCSCDFails, ProvisionFails, Terminate, Close, Killed, ExitWithError
<1>6. CASE StartUp
  BY <1>6 DEF StartUp, StartWithoutLibrary, StartPCSCD, FetchPIN, Initialize,
     AttemptAutoProvision, FallBackToMock, Provision, InitializeAgain, ExitWithError
<1> QED BY <1>1, <1>2, <1>3, <1>4, <1>5, <1>6 DEF AgentNext

LEMMA LockStep ==
  ASSUME AgentTypes, LockInvariant, [AgentNext]_vars
  PROVE  LockInvariant'
<1>1. ASSUME NEW r \in Requests, NEW kind, NEW arg, Handle(r, kind, arg)
      PROVE  LockInvariant'
  <2>1. /\ [kind |-> kind, step |-> "waiting", arg |-> arg].step = "waiting"
        /\ call[r].step # "search"
    BY <1>1 DEF Handle, Idle
  <2> QED BY <1>1, <2>1, LockByStep DEF Handle
<1> QED BY <1>1, OtherSteps, LockProceed, LockGone, LockKept

-----------------------------------------------------------------------------
(* Acknowledged writes. *)

\* Where hardware is required, what was acknowledged is on a token that has a
\* PIN, and so is not blank; and nothing is acknowledged while a write is between
\* its destructions and its last object.
DurableInvariant ==
  config.require =>
    /\ acked # NoValue => token.pin # NoPin /\ token.data = acked
    /\ \A r \in Requests : call[r].step \in {"create", "createRest"} => acked = NoValue

LEMMA DurableKept ==
  ASSUME DurableInvariant, config' = config, acked' = acked,
         token'.data = token.data, token.pin # NoPin => token'.pin # NoPin,
         \A r \in Requests : call'[r].step \in {"create", "createRest"}
                                => call[r].step \in {"create", "createRest"}
  PROVE  DurableInvariant'
BY DEF DurableInvariant

LEMMA DurableProceed ==
  ASSUME AgentTypes, SessionInvariant, LockInvariant, DurableInvariant,
         NEW r \in Requests, Proceed(r)
  PROVE  DurableInvariant'
<1>0. call \in [Requests -> CallType] /\ call[r] \in CallType
  BY DEF AgentTypes
<1>1. \A t : /\ [call[r] EXCEPT !.step = t].step = t
             /\ [call EXCEPT ![r].step = t] = [call EXCEPT ![r] = [call[r] EXCEPT !.step = t]]
  BY <1>0 DEF CallType, Idle
<1>2. Idle.step = "none"
  BY DEF Idle
<1>3. CASE Fails(r)
  BY <1>0, <1>2, <1>3, DurableKept DEF Fails, Returns
<1>4. CASE FindObjectsInit(r)
  BY <1>0, <1>1, <1>2, <1>4, DurableKept DEF FindObjectsInit, Returns
<1>5. CASE FindObjectsFinal(r)
  BY <1>0, <1>1, <1>2, <1>5, DurableKept DEF FindObjectsFinal, Returns
<1>6. CASE DestroyObjects(r)
  BY <1>6 DEF DestroyObjects, DurableInvariant
<1>7. CASE CreateObject(r)
  BY <1>7 DEF CreateObject, DurableInvariant
<1>8. CASE WriteMetadata(r)
  <2>1. token'.data = acked' /\ token'.pin = token.pin /\ config' = config
    BY <1>8 DEF WriteMetadata, AgentTypes, AgentTypeOK
  <2>2. token.pin # NoPin
    BY <1>8 DEF WriteMetadata, Works, SessionInvariant
  <2>3. call[r].kind = "write"
    BY <1>0, <1>8 DEF WriteMetadata, CallType, Idle
  <2>4. \A q \in Requests \ {r} : call[q].step \notin {"create", "createRest"}
    BY <1>8, <2>3 DEF WriteMetadata, LockInvariant, WriterIsAlone, HoldsWrite, Running
  <2>5. \A q \in Requests : call'[q].step \notin {"create", "createRest"}
    BY <1>0, <1>2, <1>8, <2>4 DEF WriteMetadata, Returns
  <2> QED BY <2>1, <2>2, <2>5 DEF DurableInvariant
<1>9. CASE SetPIN(r)
  <2>1. call[r].arg[2] # NoPin
    BY <1>0, <1>9, CallSteps, AgentAssumption DEF SetPIN
  <2>2. token'.data = token.data /\ (token.pin # NoPin => token'.pin # NoPin)
    BY <1>9, <2>1 DEF SetPIN, AgentTypes, AgentTypeOK
  <2> QED BY <1>0, <1>2, <1>9, <2>2, DurableKept DEF SetPIN, Returns
<1> QED BY <1>3, <1>4, <1>5, <1>6, <1>7, <1>8, <1>9 DEF Proceed

\* What start-up, probes, mishaps and the end of the process do to the token: a
\* login changes the attempts, and provisioning erases a token without a PIN.
LEMMA TokenSteps ==
  ASSUME AgentTypes, SessionInvariant, [AgentNext]_vars,
         ~ \E r \in Requests : Proceed(r), ~ \E v \in Values : MockWrite(v)
  PROVE  /\ config' = config /\ acked' = acked
         /\ \/ token'.data = token.data /\ token'.pin = token.pin
            \/ token.pin = NoPin /\ token'.data = NoValue
<1>1. CASE UNCHANGED vars
  BY <1>1 DEF vars
<1>2. CASE Unplug \/ Plug \/ Wedge \/ (\E p \in Pins : UpdatePinSecret(p))
  BY <1>2, SMTT(30) DEF Unplug, Plug, Wedge, UpdatePinSecret
<1>3. CASE \/ \E r \in Reads : ReadSecret(r) \/ ReadMetadata(r) \/ ListSecrets(r)
                               \/ GetChecksum(r)
           \/ \E r \in Writes :
                \/ DeleteSecret(r) \/ DeleteSecretKey(r)
                \/ \E v \in Values : WriteSecret(r, v)
                \/ \E old, new \in Pins : ChangePIN(r, old, new)
  BY <1>3, ZenonT(30) DEF Handle, ReadSecret, ReadMetadata, ListSecrets, GetChecksum, DeleteSecret,
     DeleteSecretKey, WriteSecret, ChangePIN
<1>4. CASE ServeGetInfo \/ LivenessProbe \/ ReadinessProbe
  BY <1>4 DEF ServeGetInfo, LivenessProbe, ReadinessProbe
<1>5. CASE Crash \/ PCSCDFails \/ ProvisionFails \/ Terminate \/ Close \/ Killed
  BY <1>5, ZenonT(30) DEF Crash, PCSCDFails, ProvisionFails, Terminate, Close, Killed, ExitWithError
<1>6. CASE StartWithoutLibrary \/ StartPCSCD \/ FetchPIN \/ AttemptAutoProvision
  BY <1>6 DEF StartWithoutLibrary, StartPCSCD, FetchPIN, AttemptAutoProvision,
     FallBackToMock, ExitWithError
<1>7. CASE Initialize \/ InitializeAgain
  <2>1. token' = AfterLogin(GetPIN) /\ config' = config /\ acked' = acked
    BY <1>7 DEF Initialize, InitializeAgain
  <2> QED BY <2>1 DEF AfterLogin, AgentTypes, AgentTypeOK
<1>8. CASE Provision
  BY <1>8 DEF Provision, SessionInvariant
<1> QED BY <1>1, <1>2, <1>3, <1>4, <1>5, <1>6, <1>7, <1>8, ZenonT(30) DEF AgentNext, StartUp

LEMMA DurableStep ==
  ASSUME AgentTypes, SessionInvariant, LockInvariant, DurableInvariant, [AgentNext]_vars
  PROVE  DurableInvariant'
<1>1. CASE \E r \in Requests : Proceed(r)
  BY <1>1, DurableProceed, ZenonT(30)
<1>2. CASE \E v \in Values : MockWrite(v)
  BY <1>2 DEF MockWrite, SessionInvariant, DurableInvariant
<1>3. CASE ~(\E r \in Requests : Proceed(r)) /\ ~(\E v \in Values : MockWrite(v))
  <2>1. /\ config' = config /\ acked' = acked
        /\ \/ token'.data = token.data /\ token'.pin = token.pin
           \/ token.pin = NoPin /\ token'.data = NoValue
    BY <1>3, TokenSteps, SMTT(30)
  <2>2. \A r \in Requests : call'[r].step \in {"create", "createRest"}
                                => call[r].step \in {"create", "createRest"}
    <3>1. CASE ProcessGone
      BY <3>1 DEF ProcessGone, Idle
    <3>2. CASE call' = call
      BY <3>2
    <3>3. CASE \E r \in Requests : \E kind, arg : Handle(r, kind, arg)
      BY <3>3 DEF Handle, AgentTypes
    <3>4. \/ ProcessGone
          \/ call' = call
          \/ \E r \in Requests : \E kind, arg : Handle(r, kind, arg)
      BY <1>3, OtherSteps, ZenonT(30)
    <3> QED BY <3>1, <3>2, <3>3, <3>4, ZenonT(30)
  <2> QED BY <2>1, <2>2, DurableKept DEF DurableInvariant
<1> QED BY <1>1, <1>2, <1>3

-----------------------------------------------------------------------------
(* Theorems *)

AgentInvariant == AgentTypes /\ SessionInvariant /\ LockInvariant /\ DurableInvariant

LEMMA AgentIsInductive == AgentInit /\ [][AgentNext]_vars => []AgentInvariant
<1>1. AgentInit => AgentInvariant
  <2> SUFFICES ASSUME AgentInit
               PROVE  AgentInvariant
    OBVIOUS
  <2>1. AgentTypes
    BY TypesInit
  <2>2. SessionInvariant
    BY DEF AgentInit, SessionInvariant
  <2>3. LockInvariant
    BY DEF AgentInit, Idle, LockInvariant, WriterIsAlone, HoldsWrite, Running,
           NoSearchLeftOpen
  <2>4. DurableInvariant
    BY DEF AgentInit, DurableInvariant
  <2> QED BY <2>1, <2>2, <2>3, <2>4 DEF AgentInvariant
<1>2. AgentInvariant /\ [AgentNext]_vars => AgentInvariant'
  BY TypesStep, SessionStep, LockStep, DurableStep DEF AgentInvariant
<1> QED BY <1>1, <1>2, PTL

\* The model of the agent keeps its types, with any number of requests in flight.
THEOREM AgentKeepsTypes == AgentSpec => []AgentTypeOK
<1>1. AgentInvariant => AgentTypeOK
  BY DEF AgentInvariant, AgentTypes
<1> QED BY <1>1, AgentIsInductive, PTL DEF AgentSpec

\* However reads, writes, unplugging and restarts interleave, a search is open on
\* the session only while the request that opened it is still inside it:
\* findObjects leaves every search it starts.
THEOREM SearchesAreClosed == AgentSpec => []NoSearchLeftOpen
<1>1. AgentInvariant => NoSearchLeftOpen
  BY DEF AgentInvariant, LockInvariant
<1> QED BY <1>1, AgentIsInductive, PTL DEF AgentSpec

\* With --require-hardware an acknowledged write survives every interleaving of
\* requests, mishaps, restarts and start-ups, auto-provisioning included.
THEOREM AcknowledgedWritesSurvive == AgentSpec => []AckedWritesSurvive
<1>1. AgentInvariant => AckedWritesSurvive
  BY DEF AgentInvariant, DurableInvariant, AckedWritesSurvive
<1> QED BY <1>1, AgentIsInductive, PTL DEF AgentSpec

\* The login after provisioning never costs an attempt, whatever happens to the
\* Secret, to the device and to the process in between.
THEOREM FreshTokenAcceptsLogin == AgentSpec => ProvisionedTokenAcceptsLogin
<1>1. ASSUME AgentInvariant, [AgentNext]_vars, phase = "relogin"
      PROVE  token'.tries = token.tries
  <2>0. AgentTypes /\ session = "none" /\ token.pin = pinCache /\ pinCache # NoPin
        /\ token.tries = MaxTries
    BY <1>1 DEF AgentInvariant, SessionInvariant
  <2>1. CASE InitializeAgain
    BY <2>0, <2>1 DEF InitializeAgain, AfterLogin, GetPIN, AgentTypes, AgentTypeOK
  <2>2. CASE UNCHANGED vars \/ Unplug \/ Plug \/ Wedge \/ (\E p \in Pins : UpdatePinSecret(p))
    BY <2>2 DEF vars, Unplug, Plug, Wedge, UpdatePinSecret
  <2>3. CASE \E r \in Requests : Proceed(r)
    BY <2>0, <2>3 DEF Proceed, Fails, FindObjectsInit, FindObjectsFinal, DestroyObjects,
       CreateObject, WriteMetadata, SetPIN, Works
  <2>4. CASE ServeGetInfo \/ LivenessProbe \/ ReadinessProbe
    BY <2>4 DEF ServeGetInfo, LivenessProbe, ReadinessProbe
  <2>5. CASE Crash \/ PCSCDFails \/ ProvisionFails \/ Terminate \/ Close \/ Killed
    BY <2>5 DEF Crash, PCSCDFails, ProvisionFails, Terminate, Close, Killed, ExitWithError
  <2>6. CASE \/ StartWithoutLibrary \/ StartPCSCD \/ FetchPIN \/ Initialize
             \/ AttemptAutoProvision \/ Provision
    BY <1>1, <2>6 DEF StartWithoutLibrary, StartPCSCD, FetchPIN, Initialize,
       AttemptAutoProvision, Provision
  <2>7. CASE phase = "serving"
    BY <1>1, <2>7
  <2> QED BY <1>1, <2>1, <2>2, <2>3, <2>4, <2>5, <2>6, <2>7, ZenonT(30)
          DEF AgentNext, StartUp, MockWrite, Handle, ReadSecret, ReadMetadata, ListSecrets,
              GetChecksum, DeleteSecret, DeleteSecretKey, WriteSecret, ChangePIN
<1>2. AgentInvariant /\ [AgentNext]_vars
        => [phase = "relogin" => token'.tries = token.tries]_vars
  BY <1>1
<1> QED BY <1>2, AgentIsInductive, PTL DEF AgentSpec, ProvisionedTokenAcceptsLogin
=============================================================================
