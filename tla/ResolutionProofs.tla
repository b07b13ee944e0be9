-------------------------- MODULE ResolutionProofs ---------------------------
(***************************************************************************)
(* Resolve computes what the policy prescribes, for any number of devices, *)
(* contents, versions and timestamps, in whatever order its loops visit    *)
(* the observations; and its callers, who count the devices in different   *)
(* ways, see one copy of a secret where the counts cannot matter.          *)
(***************************************************************************)
EXTENDS ResolveLoop, ReaderViews, ReconcileTheorems

\* Serial numbers are distinct and finitely many, so the arguments are finite.
LEMMA ObservationsFinite ==
    ASSUME NEW S \in SUBSET Observations, DistinctIds(S)
    PROVE  IsFiniteSet(S) /\ Comparable(S)
<1> DEFINE f == [o \in S |-> o.id]
<1>1. f \in Injection(S, Ids)
  <2>1. f \in [S -> Ids]
    BY DEF Observations, DeviceObservation
  <2>2. \A o, p \in S : f[o] = f[p] => o = p
    BY DEF DistinctIds
  <2> QED BY <2>1, <2>2 DEF Injection, IsInjective
<1>2. IsFiniteSet(S)
  <2>1. IsFiniteSet(Ids)
    BY ResolveAssumption
  <2> QED BY <1>1, <2>1, FS_Injection
<1>3. Comparable(S)
  <2>1. \A o \in S : o.version \in Versions /\ o.ts \in Times /\ o.id \in Ids
    BY DEF Observations, DeviceObservation
  <2>2. Versions \subseteq Int /\ Times \subseteq Int /\ Ids \subseteq Int
    BY ResolveAssumption
  <2> QED BY <2>1, <2>2 DEF Comparable
<1> QED BY <1>2, <1>3

\* A vote is for a content or for the tombstone.
LEMMA VotesAreContents ==
    ASSUME NEW o \in Observations, HasOpinion(o)
    PROVE  EffectiveChecksum(o) \in Contents
BY DEF Observations, DeviceObservation, HasOpinion, EffectiveChecksum, Contents

\* The initial states satisfy the type invariant.
LEMMA InitTypeOK == Init => TypeOK
BY DEF Init, InitWith, TypeOK, Optional, Strategies, Voters

LEMMA NextTypeOK == TypeOK /\ [Next]_vars => TypeOK'
<1> SUFFICES ASSUME TypeOK, [Next]_vars PROVE TypeOK'
  OBVIOUS
<1>1. ASSUME NEW o \in rest, CollectVote(o) PROVE TypeOK'
  <2>1. CASE HasOpinion(o)
    <3>1. EffectiveChecksum(o) \in Contents
      BY <1>1, <2>1, VotesAreContents DEF CollectVote, TypeOK
    <3> QED BY <1>1, <2>1, <3>1 DEF CollectVote, TypeOK, Voters, Optional
  <2>2. CASE ~HasOpinion(o)
    BY <1>1, <2>2 DEF CollectVote, TypeOK
  <2> QED BY <2>1, <2>2
<1>2. ASSUME NEW o \in rest, KeepNewest(o) PROVE TypeOK'
  BY <1>2 DEF KeepNewest, TypeOK, Optional
<1>3. ASSUME NEW o \in rest, Compare(o) PROVE TypeOK'
  <2>1. o.id \in Ids
    BY <1>3 DEF Compare, TypeOK, Voters, Observations, DeviceObservation
  <2> QED BY <1>3, <2>1 DEF Compare, TypeOK, Optional
<1>4. ASSUME NEW c \in Contents, TakeMajority(c) PROVE TypeOK'
  BY <1>4 DEF TakeMajority, TypeOK, Optional, Strategies
<1>5. CASE NoVoters
  BY <1>5 DEF NoVoters, TypeOK
<1>6. CASE FallBack
  BY <1>6 DEF FallBack, TypeOK, Strategies
<1>7. CASE TakeNewest
  <2>1. \A o \in best : EffectiveChecksum(o) \in Contents
    BY VotesAreContents DEF TypeOK, Optional, Voters
  <2>2. winning' \in Optional(Contents)
    BY <1>7, <2>1 DEF TakeNewest, TypeOK, Optional
  <2> QED BY <1>7, <2>2 DEF TakeNewest, TypeOK, Voters
<1>8. CASE Return
  BY <1>8 DEF Return, TypeOK
<1>9. CASE UNCHANGED vars
  BY <1>9 DEF vars, TypeOK
<1> QED BY <1>1, <1>2, <1>3, <1>4, <1>5, <1>6, <1>7, <1>8, <1>9 DEF Next

LEMMA InitLoopInvariant == Init => LoopInvariant
<1> SUFFICES ASSUME Init PROVE LoopInvariant
  OBVIOUS
<1>1. voters = Voters(obs \ rest)
  BY DEF Init, InitWith, Voters
<1>2. \A c \in Contents : counts[c] = Cardinality(Supporters(voters, c))
  <2>1. \A c : Supporters(voters, c) = {}
    BY DEF Init, InitWith, Supporters
  <2> QED BY <2>1, FS_EmptySet DEF Init, InitWith
<1> QED BY <1>1, <1>2 DEF Init, InitWith, LoopInvariant, CollectInvariant

\* The voters are finitely many, comparable, and no more than the devices.
LEMMA VotersFinite ==
    ASSUME TypeOK, LoopInvariant
    PROVE  /\ IsFiniteSet(voters) /\ Comparable(voters) /\ DistinctIds(voters)
           /\ deviceCount \in Nat /\ Cardinality(voters) <= deviceCount
<1>1. voters \subseteq obs /\ obs \in SUBSET Observations /\ DistinctIds(obs)
  BY DEF TypeOK, Voters, LoopInvariant
<1>2. IsFiniteSet(obs) /\ Comparable(obs)
  BY <1>1, ObservationsFinite
<1>3. IsFiniteSet(voters) /\ Cardinality(voters) <= Cardinality(obs)
  BY <1>1, <1>2, FS_Subset
<1>4. deviceCount \in Nat
  BY ResolveAssumption DEF TypeOK
<1>5. Cardinality(voters) <= deviceCount
  <2>1. Cardinality(voters) \in Nat /\ Cardinality(obs) \in Nat
    BY <1>2, <1>3, FS_CardinalityType
  <2> QED BY <1>3, <1>4, <2>1 DEF LoopInvariant
<1> QED BY <1>1, <1>2, <1>3, <1>4, <1>5 DEF Comparable, DistinctIds

\* Collecting one more vote keeps the counts exact.
LEMMA CollectVoteCounts ==
    ASSUME TypeOK, LoopInvariant, NEW o \in rest, CollectVote(o)
    PROVE  CollectInvariant'
<1> USE DEF CollectVote
<1>1. CollectInvariant /\ rest \subseteq obs
  BY DEF LoopInvariant, TypeOK
<1>2. voters' = Voters(obs' \ rest')
  BY <1>1 DEF CollectInvariant, Voters
<1>3. ASSUME NEW c \in Contents
      PROVE  counts'[c] = Cardinality(Supporters(voters', c))
  <2>1. CASE HasOpinion(o) /\ EffectiveChecksum(o) = c
    <3>1. o \notin Supporters(voters, c)
      BY <1>1 DEF CollectInvariant, Voters, Supporters
    <3>2. Supporters(voters', c) = Supporters(voters, c) \cup {o}
      BY <2>1 DEF Supporters
    <3>3. IsFiniteSet(Supporters(voters, c))
      BY VotersFinite, FS_Subset DEF Supporters
    <3>4. Cardinality(Supporters(voters', c)) = Cardinality(Supporters(voters, c)) + 1
      BY <3>1, <3>2, <3>3, FS_AddElement
    <3>5. counts'[c] = counts[c] + 1
      BY <2>1 DEF TypeOK
    <3> QED BY <1>1, <3>4, <3>5 DEF CollectInvariant
  <2>2. CASE ~(HasOpinion(o) /\ EffectiveChecksum(o) = c)
    <3>1. Supporters(voters', c) = Supporters(voters, c)
      BY <2>2 DEF Supporters
    <3>2. counts'[c] = counts[c]
      BY <2>2 DEF TypeOK
    <3> QED BY <1>1, <3>1, <3>2 DEF CollectInvariant
  <2> QED BY <2>1, <2>2
<1>4. (best = {} /\ winning = {} /\ device = {} /\ outliers = {}
        /\ strategy = "none")'
  BY <1>1 DEF CollectInvariant
<1> QED BY <1>2, <1>3, <1>4 DEF CollectInvariant

\* The collecting loop has counted all votes.
LEMMA CountsComplete ==
    ASSUME TypeOK, LoopInvariant, pc = "collect", rest = {}
    PROVE  /\ voters = Voters(obs)
           /\ \A c \in Contents : counts[c] = Cardinality(Supporters(voters, c))
           /\ \A c \in Candidates(voters) : c \in Contents
<1>1. CollectInvariant
  BY DEF LoopInvariant
<1>2. voters = Voters(obs)
  BY <1>1 DEF CollectInvariant, Voters
<1>3. \A o \in voters : EffectiveChecksum(o) \in Contents
  BY VotesAreContents DEF TypeOK, Voters
<1> QED BY <1>1, <1>2, <1>3 DEF CollectInvariant, Candidates

LEMMA TakeMajorityFindsWinner ==
    ASSUME TypeOK, LoopInvariant, NEW c \in Contents, TakeMajority(c)
    PROVE  LoopInvariant'
<1> USE DEF TakeMajority
<1>1. /\ voters = Voters(obs) /\ CollectInvariant
      /\ StrictMajority(Cardinality(Supporters(voters, c)), deviceCount)
  BY CountsComplete DEF StrictMajority, LoopInvariant
<1>2. /\ Strategy(voters, deviceCount) = "majority"
      /\ WinningChecksum(voters, deviceCount) = c
  <2>1. Voters(voters) = voters
    BY <1>1 DEF Voters
  <2> QED BY <1>1, <2>1, VotersFinite, ResolveFollowsMajority DEF Resolve
<1>3. ScanInvariant'
  <2>1. voters' \ rest' = {}
    OBVIOUS
  <2>2. \A x : Supporters({}, x) = {}
    BY DEF Supporters
  <2>3. device' = {} /\ outliers' = {}
    BY <1>1 DEF CollectInvariant
  <2> QED BY <1>2, <2>1, <2>2, <2>3 DEF ScanInvariant
<1> QED BY <1>1, <1>3 DEF LoopInvariant

LEMMA FallBackStartsNewest ==
    ASSUME TypeOK, LoopInvariant, FallBack
    PROVE  LoopInvariant'
<1> USE DEF FallBack
<1>1. /\ voters = Voters(obs) /\ CollectInvariant
      /\ \A c \in Contents : counts[c] = Cardinality(Supporters(voters, c))
      /\ \A c \in Candidates(voters) : c \in Contents
  BY CountsComplete DEF LoopInvariant
<1>2. deviceCount >= 3 => MajorityChecksums(voters, deviceCount) = {}
  BY <1>1 DEF MajorityChecksums, StrictMajority
<1>3. strategy' = Strategy(voters, deviceCount) /\ strategy' # "majority"
  <2>1. deviceCount \in Nat
    BY VotersFinite
  <2> QED BY <1>2, <2>1 DEF Strategy
<1>4. best' = {} /\ device' = {} /\ outliers' = {}
  BY <1>1 DEF CollectInvariant
<1>5. NewestInvariant'
  BY <1>3, <1>4 DEF NewestInvariant
<1> QED BY <1>1, <1>5 DEF LoopInvariant

\* lastWriteWins keeps a voter no visited voter beats.
LEMMA KeepNewestKeepsNewest ==
    ASSUME TypeOK, LoopInvariant, NEW o \in rest, KeepNewest(o)
    PROVE  LoopInvariant'
<1> USE DEF KeepNewest
<1>1. NewestInvariant /\ rest \subseteq voters /\ best \subseteq voters
  BY DEF LoopInvariant, TypeOK, Optional
<1>2. Comparable(voters)
  BY VotersFinite
<1>3. best' # {}
  OBVIOUS
<1>4. ASSUME NEW b \in best' PROVE b \notin rest' /\ \A p \in voters' \ rest' : ~Newer(p, b)
  <2>1. CASE \A x \in best : Newer(o, x)
    <3>1. b = o
      BY <2>1
    <3>2. ASSUME NEW p \in voters \ rest PROVE ~Newer(p, o)
      <4>1. PICK x \in best : TRUE
        BY <1>1, <3>2 DEF NewestInvariant
      <4>2. ~Newer(p, x) /\ Newer(o, x)
        BY <1>1, <2>1, <3>2 DEF NewestInvariant
      <4> QED BY <1>1, <1>2, <3>2, <4>2 DEF Newer, Comparable
    <3>3. ~Newer(o, o)
      BY <1>1, <1>2 DEF Newer, Comparable
    <3> QED BY <3>1, <3>2, <3>3
  <2>2. CASE ~\A x \in best : Newer(o, x)
    <3>1. best' = best
      BY <2>2
    <3>2. b \in best /\ ~Newer(o, b)
      BY <2>2, <3>1 DEF TypeOK, Optional
    <3> QED BY <1>1, <3>2 DEF NewestInvariant
  <2> QED BY <2>1, <2>2
<1>5. NewestInvariant'
  BY <1>1, <1>3, <1>4 DEF NewestInvariant
<1> QED BY <1>5 DEF LoopInvariant

LEMMA TakeNewestFindsWinner ==
    ASSUME TypeOK, LoopInvariant, TakeNewest
    PROVE  LoopInvariant'
<1> USE DEF TakeNewest
<1>1. NewestInvariant /\ best \subseteq voters /\ voters = Voters(obs)
  BY DEF LoopInvariant, TypeOK, Optional
<1>2. PICK b \in best : best = {b}
  BY <1>1 DEF NewestInvariant, TypeOK, Optional
<1>3. b = LastWriteWins(voters)
  <2>1. b \in voters /\ \A p \in voters : ~Newer(p, b)
    BY <1>1, <1>2 DEF NewestInvariant
  <2> QED BY <2>1, VotersFinite, NewestIsUnique
<1>4. winning' = {WinningChecksum(voters, deviceCount)}
  <2>1. winning' = {EffectiveChecksum(b)}
    BY <1>2
  <2> QED BY <1>1, <1>3, <2>1 DEF NewestInvariant, WinningChecksum
<1>5. ScanInvariant'
  <2>1. voters' \ rest' = {}
    OBVIOUS
  <2>2. \A x : Supporters({}, x) = {}
    BY DEF Supporters
  <2>3. device' = {} /\ outliers' = {}
    BY <1>1 DEF NewestInvariant
  <2> QED BY <1>1, <1>4, <2>1, <2>2, <2>3 DEF ScanInvariant, NewestInvariant
<1> QED BY <1>1, <1>5 DEF LoopInvariant

\* The scan keeps the lowest agreeing serial and the dissenting serials.
LEMMA CompareKeepsScan ==
    ASSUME TypeOK, LoopInvariant, NEW o \in rest, Compare(o)
    PROVE  LoopInvariant'
<1> USE DEF Compare
<1> DEFINE c == WinningChecksum(voters, deviceCount)
           seen == voters \ rest
           agree == Supporters(seen, c)
           seen2 == voters \ (rest \ {o})
           agree2 == Supporters(seen2, c)
<1>1. ScanInvariant /\ rest \subseteq voters
  BY DEF LoopInvariant, TypeOK
<1>2. Comparable(voters)
  BY VotersFinite
<1>3. /\ winning = {c} /\ outliers = {p.id : p \in seen \ agree}
      /\ agree # {} => device # {}
      /\ \A d \in device : (\E p \in agree : p.id = d) /\ (\A p \in agree : d <= p.id)
  BY <1>1 DEF ScanInvariant
<1>4. seen2 = seen \cup {o}
  BY <1>1
<1>5. /\ outliers' = {p.id : p \in seen2 \ agree2}
      /\ agree2 # {} => device' # {}
      /\ \A d \in device' : (\E p \in agree2 : p.id = d) /\ (\A p \in agree2 : d <= p.id)
  <2>1. CASE EffectiveChecksum(o) = c
    <3>1. agree2 = agree \cup {o} /\ seen2 \ agree2 = seen \ agree
      BY <1>4, <2>1 DEF Supporters
    <3>2. outliers' = {p.id : p \in seen2 \ agree2}
      BY <1>3, <2>1, <3>1
    <3>3. device' = IF \A d \in device : o.id < d THEN {o.id} ELSE device
      BY <1>3, <2>1
    <3>4. \A p \in agree2 : p.id \in Int
      BY <1>1, <1>2 DEF Supporters, Comparable
    <3> HIDE DEF c, seen, agree, seen2, agree2
    <3>5. CASE \A d \in device : o.id < d
      <4>1. \A p \in agree : o.id <= p.id
        BY <1>3, <3>1, <3>4, <3>5
      <4>2. device' = {o.id}
        BY <3>3, <3>5
      <4> QED BY <3>1, <3>2, <3>4, <4>1, <4>2
    <3>6. CASE ~\A d \in device : o.id < d
      <4>1. device' = device /\ device # {}
        BY <3>3, <3>6
      <4>2. \A d \in device : d <= o.id
        BY <1>3, <3>1, <3>4, <3>6 DEF TypeOK, Optional
      <4> QED BY <1>3, <3>1, <3>2, <4>1, <4>2
    <3> QED BY <3>5, <3>6
  <2>2. CASE EffectiveChecksum(o) # c
    <3>1. agree2 = agree /\ seen2 \ agree2 = (seen \ agree) \cup {o}
      BY <1>1, <1>4, <2>2 DEF Supporters
    <3>2. device' = device /\ outliers' = outliers \cup {o.id}
      BY <1>3, <2>2
    <3> HIDE DEF c, seen, agree, seen2, agree2
    <3> QED BY <1>3, <3>1, <3>2
  <2> QED BY <2>1, <2>2
<1>6. ScanInvariant'
  BY <1>1, <1>5 DEF ScanInvariant
<1> QED BY <1>6 DEF LoopInvariant

LEMMA ReturnDecides ==
    ASSUME TypeOK, LoopInvariant, Return
    PROVE  LoopInvariant'
<1> USE DEF Return
<1> DEFINE c == WinningChecksum(voters, deviceCount)
           agree == Supporters(voters, c)
<1>1. /\ ScanInvariant /\ voters = Voters(obs) /\ voters # {}
      /\ voters \ rest = voters
  BY DEF LoopInvariant, ScanInvariant
<1>2. /\ strategy = Strategy(voters, deviceCount) /\ winning = {c}
      /\ outliers = {o.id : o \in voters \ agree}
      /\ agree # {} => device # {}
      /\ \A d \in device : (\E o \in agree : o.id = d) /\ (\A o \in agree : d <= o.id)
  BY <1>1 DEF ScanInvariant
<1>3. PICK h \in voters : EffectiveChecksum(h) = c
  BY <1>1, VotersFinite, WinnerIsHeld
<1>4. agree # {}
  BY <1>3 DEF Supporters
<1>5. PICK d \in device : device = {d}
  BY <1>2, <1>4 DEF TypeOK, Optional
<1>6. /\ \E o \in agree : o.id = LowestDeviceWithChecksum(voters, c)
      /\ \A o \in agree : LowestDeviceWithChecksum(voters, c) <= o.id
  BY <1>3, VotersFinite, LowestDeviceHolds
<1>7. \A o \in agree : o.id \in Int
  BY VotersFinite DEF Supporters, Comparable
<1> HIDE DEF c, agree
<1>8. d = LowestDeviceWithChecksum(voters, c)
  <2>1. PICK o \in agree : o.id = d
    BY <1>2, <1>5
  <2>2. PICK p \in agree : p.id = LowestDeviceWithChecksum(voters, c)
    BY <1>6
  <2>3. d <= p.id /\ p.id <= o.id
    BY <1>2, <1>5, <1>6, <2>1, <2>2
  <2> QED BY <1>7, <2>1, <2>2, <2>3
<1>9. DoneInvariant'
  BY <1>2, <1>5, <1>8 DEF DoneInvariant, Outliers, c, agree
<1> QED BY <1>1, <1>9 DEF LoopInvariant

LEMMA NextLoopInvariant == TypeOK /\ LoopInvariant /\ [Next]_vars => LoopInvariant'
<1> SUFFICES ASSUME TypeOK, LoopInvariant, [Next]_vars PROVE LoopInvariant'
  OBVIOUS
<1>1. ASSUME NEW o \in rest, CollectVote(o) PROVE LoopInvariant'
  <2>1. CollectInvariant'
    BY <1>1, CollectVoteCounts
  <2> QED BY <1>1, <2>1 DEF CollectVote, LoopInvariant
<1>2. CASE NoVoters
  BY <1>2, CountsComplete, SMTT(30) DEF NoVoters, LoopInvariant
<1>3. CASE UNCHANGED vars
  BY <1>3 DEF vars, LoopInvariant, CollectInvariant, NewestInvariant, ScanInvariant,
              DoneInvariant
<1> QED BY <1>1, <1>2, <1>3, TakeMajorityFindsWinner, FallBackStartsNewest,
           KeepNewestKeepsNewest, TakeNewestFindsWinner, CompareKeepsScan,
           ReturnDecides DEF Next

\* The loops of Resolve keep their types: in particular best, winningChecksum and
\* the winning device always come from voters.
THEOREM ResolveTypes == Spec => []TypeOK
<1>1. Init => TypeOK
  BY InitTypeOK
<1>2. TypeOK /\ [Next]_vars => TypeOK'
  BY NextTypeOK
<1> QED BY <1>1, <1>2, PTL DEF Spec

\* Each loop of Resolve establishes what the next one and the decision rely on,
\* for every order of visits.
THEOREM ResolveLoops == Spec => []LoopInvariant
<1>1. Init => LoopInvariant
  BY InitLoopInvariant
<1>2. TypeOK /\ LoopInvariant /\ [Next]_vars => LoopInvariant'
  BY NextLoopInvariant
<1> QED BY <1>1, <1>2, ResolveTypes, PTL DEF Spec

\* The decision Resolve returns is the one the policy prescribes for the set of
\* observations, so the order in which a caller lists them never matters.
THEOREM ResolveImplementsPolicy == Spec => ResolvesAsPrescribed
<1>1. Init => Once!Init
  BY DEF Init, InitWith, Once!Init, Decision
<1>2. TypeOK /\ LoopInvariant /\ LoopInvariant' /\ [Next]_vars
        => [Once!Decide]_Once!vars
  <2> SUFFICES ASSUME TypeOK, LoopInvariant, LoopInvariant', [Next]_vars
               PROVE  [Once!Decide]_Once!vars
    OBVIOUS
  <2>1. UNCHANGED <<obs, deviceCount>>
    BY DEF Next, vars, CollectVote, KeepNewest, Compare, TakeMajority, NoVoters,
           FallBack, TakeNewest, Return
  <2>2. CASE NoVoters
    <3>1. ~Found(obs)
      BY <2>2, CountsComplete DEF NoVoters, Found
    <3>2. Decision = NoDecision /\ Decision' = NotFound
      BY <2>2 DEF NoVoters, Decision
    <3> QED BY <2>1, <3>1, <3>2 DEF Once!Decide
  <2>3. CASE Return
    <3>1. DoneInvariant' /\ voters' = Voters(obs) /\ voters' # {} /\ pc' = "done"
      BY <2>1, <2>3 DEF Return, LoopInvariant, ScanInvariant
    <3>2. Decision = NoDecision
      BY <2>3 DEF Return, Decision
    <3>3. Decision' = Resolve(obs, deviceCount)
      <4>1. Decision' = [checksum |-> CHOOSE c \in winning' : TRUE,
                         device   |-> CHOOSE d \in device' : TRUE,
                         strategy |-> strategy', outliers |-> outliers']
        BY <3>1 DEF Decision
      <4>2. \A x : (CHOOSE y \in {x} : TRUE) = x
        OBVIOUS
      <4> QED BY <2>1, <3>1, <4>1, <4>2 DEF DoneInvariant, Resolve
    <3> QED BY <2>1, <3>1, <3>2, <3>3 DEF Once!Decide, Found
  <2>4. CASE pc # "done" /\ pc' # "done"
    BY <2>1, <2>4 DEF Decision, Once!vars
  <2>5. CASE UNCHANGED vars
    BY <2>5 DEF vars, Decision, Once!vars
  <2> QED BY <2>2, <2>3, <2>4, <2>5 DEF Next, CollectVote, KeepNewest, Compare,
             TakeMajority, FallBack, TakeNewest
<1> QED BY <1>1, <1>2, ResolveTypes, ResolveLoops, PTL
        DEF Spec, ResolvesAsPrescribed, Once!Spec
-----------------------------------------------------------------------------
(* The views of the callers *)

\* What a write of the operator leaves on a device: data with metadata that does
\* not say it is deleted.
Labelled ==
    \A c \in Copies : c.data # NoData => c.meta # NoMeta /\ ~c.meta.deleted

\* What a deletion leaves: nothing, or metadata that says so.
Tombstoned ==
    \A c \in Copies : c.data = NoData => c.meta = NoMeta \/ c.meta.deleted

\* Nothing changes while the parts look, so each has answered its verdict.
ViewsInvariant ==
    /\ copy \in [Devices -> Copies]
    /\ view = [p \in Parts |-> view[p]]
    /\ view["proxy"] \in {{}, {ProxyVerdict}}
    /\ view["list"] \in {{}, {ListVerdict}}
    /\ view["controller"] \in {{}, {ControllerVerdict}}
    /\ view["mirror"] \in {{}, {MirrorVerdict}}
    /\ view["metadata"] = {} \/ \E m \in MetadataVerdicts : view["metadata"] = {m}

LEMMA VerdictsStay ==
    ASSUME copy' = copy, up' = up, now' = now
    PROVE  /\ ProxyVerdict' = ProxyVerdict /\ ControllerVerdict' = ControllerVerdict
           /\ MirrorVerdict' = MirrorVerdict /\ ListVerdict' = ListVerdict
           /\ MetadataVerdicts' = MetadataVerdicts
<1>1. Answering' = Answering
  BY DEF Answering
<1>2. Holding' = Holding /\ WithMetadata' = WithMetadata
  BY <1>1 DEF Holding, WithMetadata
<1>3. ProxyVerdict' = ProxyVerdict
  BY <1>1, <1>2 DEF ProxyVerdict, Observed
<1>4. ControllerVerdict' = ControllerVerdict
  BY <1>1, <1>2 DEF ControllerVerdict, Observed
<1>5. MirrorVerdict' = MirrorVerdict
  BY <1>1, <1>2 DEF MirrorVerdict
<1>6. MetadataVerdicts' = MetadataVerdicts
  BY <1>2 DEF MetadataVerdicts, MostRecentMetadata
<1> QED BY <1>2, <1>3, <1>4, <1>5, <1>6 DEF ListVerdict

LEMMA ViewsAreInductive ==
    /\ ViewsInit => ViewsInvariant
    /\ ViewsInvariant /\ [ViewsNext]_viewVars => ViewsInvariant'
<1>1. ViewsInit => ViewsInvariant
  BY DEF ViewsInit, ViewsInvariant, Unresolved, Parts
<1>2. ASSUME ViewsInvariant, [ViewsNext]_viewVars PROVE ViewsInvariant'
  <2>1. copy' = copy /\ up' = up /\ now' = now
    BY <1>2 DEF ViewsNext, viewVars, Look
  <2>2. /\ ProxyVerdict' = ProxyVerdict /\ ControllerVerdict' = ControllerVerdict
        /\ MirrorVerdict' = MirrorVerdict /\ ListVerdict' = ListVerdict
        /\ MetadataVerdicts' = MetadataVerdicts
    BY <2>1, VerdictsStay
  <2>3. ASSUME NEW p \in Parts, NEW x, Look(p, x)
        PROVE  /\ view' = [q \in Parts |-> view'[q]]
               /\ view'[p] = {x} /\ \A q \in Parts \ {p} : view'[q] = view[q]
    BY <1>2, <2>3 DEF Look, ViewsInvariant
  <2>4. CASE Look("proxy", ProxyVerdict)
    BY <1>2, <2>1, <2>2, <2>3, <2>4 DEF ViewsInvariant, Parts
  <2>5. CASE Look("checksum", ChecksumVerdict)
    BY <1>2, <2>1, <2>2, <2>3, <2>5 DEF ViewsInvariant, Parts
  <2>6. CASE \E m \in MetadataVerdicts : Look("metadata", m)
    BY <1>2, <2>1, <2>2, <2>3, <2>6 DEF ViewsInvariant, Parts
  <2>7. CASE Look("list", ListVerdict)
    BY <1>2, <2>1, <2>2, <2>3, <2>7 DEF ViewsInvariant, Parts
  <2>8. CASE Look("controller", ControllerVerdict)
    BY <1>2, <2>1, <2>2, <2>3, <2>8 DEF ViewsInvariant, Parts
  <2>9. CASE Look("mirror", MirrorVerdict)
    BY <1>2, <2>1, <2>2, <2>3, <2>9 DEF ViewsInvariant, Parts
  <2>10. CASE UNCHANGED viewVars
    BY <1>2, <2>1, <2>2, <2>10 DEF ViewsInvariant, viewVars
  <2> QED BY <1>2, <2>4, <2>5, <2>6, <2>7, <2>8, <2>9, <2>10 DEF ViewsNext
<1> QED BY <1>1, <1>2

\* A verdict depends on the voters and the number of devices.
LEMMA VerdictOfVoters ==
    ASSUME NEW S, NEW n
    PROVE  Verdict(S, n) = IF Voters(S) = {} \/ WinningChecksum(Voters(S), n) = TombstoneChecksum
                           THEN Nothing ELSE WinningChecksum(Voters(S), n)
BY DEF Verdict, Found, Deleted, Resolve

\* Up to three devices, it does not matter to the winner whether the devices that
\* are down are counted: two votes out of two are a majority of three, and they
\* are all the votes there are.
LEMMA SmallPoolsCountAlike ==
    ASSUME NEW V, IsFiniteSet(V), V # {}, Comparable(V), NEW a \in Nat, NEW n \in Nat,
           Cardinality(V) <= a, a <= n, n <= 3
    PROVE  WinningChecksum(V, a) = WinningChecksum(V, n)
<1>1. CASE a = n
  BY <1>1
<1>2. CASE n < 3
  <2>1. Strategy(V, a) = "lww" /\ Strategy(V, n) = "lww"
    BY <1>2 DEF Strategy
  <2> QED BY <2>1 DEF WinningChecksum
<1>3. CASE n = 3 /\ a < 3
  <2>1. WinningChecksum(V, a) = EffectiveChecksum(LastWriteWins(V))
    BY <1>3 DEF Strategy, WinningChecksum
  <2>2. CASE MajorityChecksums(V, 3) = {}
    <3>1. Strategy(V, 3) = "majority-fallback-lww"
      BY <2>2 DEF Strategy
    <3> QED BY <1>3, <2>1, <3>1 DEF WinningChecksum
  <2>3. CASE MajorityChecksums(V, 3) # {}
    <3>1. Strategy(V, 3) = "majority"
      BY <2>3 DEF Strategy
    <3>2. PICK c \in MajorityChecksums(V, 3) : WinningChecksum(V, 3) = c
      BY <2>3, <3>1 DEF WinningChecksum
    <3>3. Cardinality(Supporters(V, c)) > 1
      BY <3>2 DEF MajorityChecksums, StrictMajority
    <3>4. Supporters(V, c) \subseteq V
      BY DEF Supporters
    <3>5. /\ Cardinality(V) \in Nat /\ Cardinality(Supporters(V, c)) \in Nat
          /\ Cardinality(Supporters(V, c)) <= Cardinality(V)
          /\ Cardinality(Supporters(V, c)) = Cardinality(V) => Supporters(V, c) = V
      BY <3>4, FS_Subset, FS_CardinalityType
    <3>6. Supporters(V, c) = V
      BY <1>3, <3>3, <3>5
    <3>7. LastWriteWins(V) \in V
      BY LastWriteWinsIsNewest
    <3>8. EffectiveChecksum(LastWriteWins(V)) = c
      BY <3>6, <3>7 DEF Supporters
    <3> QED BY <1>3, <2>1, <3>2, <3>8
  <2> QED BY <2>2, <2>3
<1> QED BY <1>1, <1>2, <1>3
\* The proxy, the controller and the mirror have the same voters.
LEMMA VotersAreHolders ==
    ASSUME Labelled, ViewsInvariant
    PROVE  LET V == {Observed(d) : d \in Holding}
           IN  /\ Voters(V) = V /\ IsFiniteSet(V) /\ Comparable(V)
               /\ Cardinality(V) <= Cardinality(Answering)
               /\ Cardinality(Answering) <= Cardinality(Devices)
               /\ Cardinality(Answering) \in Nat /\ Cardinality(Devices) \in Nat
               /\ ProxyVerdict = Verdict(V, Cardinality(Answering))
               /\ ControllerVerdict = Verdict(V, Cardinality(Devices))
               /\ MirrorVerdict = Verdict(V, Cardinality(Answering))
<1> DEFINE V == {Observed(d) : d \in Holding}
           A == {Abstention(d) : d \in Answering \ Holding}
           M == {MirrorObservation(d, copy[d].data, MetadataVersion(copy[d].meta),
                    IF copy[d].meta = NoMeta THEN now ELSE copy[d].meta.ts) : d \in Holding}
<1>1. ASSUME NEW d \in Holding
      PROVE  /\ copy[d].meta # NoMeta /\ ~copy[d].meta.deleted
             /\ copy[d].meta.deleted \in BOOLEAN
             /\ copy[d].meta.version \in Nat /\ copy[d].meta.ts \in Nat /\ d \in Nat
  <2>1. d \in Devices /\ copy[d] \in Copies /\ copy[d].data # NoData
    BY DEF Holding, Answering, ViewsInvariant
  <2>2. copy[d].meta # NoMeta /\ ~copy[d].meta.deleted
    BY <2>1 DEF Labelled
  <2>3. copy[d].meta \in [version : Nat, ts : Nat, deleted : BOOLEAN] /\ d \in Nat
    BY <2>1, <2>2, ViewsAssumption, SMTT(30)
  <2> QED BY <2>2, <2>3
<1>2. ASSUME NEW d \in Holding
      PROVE  /\ Observed(d) = [id |-> d, present |-> TRUE, tombstone |-> FALSE,
                               checksum |-> copy[d].data, version |-> copy[d].meta.version,
                               ts |-> copy[d].meta.ts]
             /\ Observed(d) = MirrorObservation(d, copy[d].data, MetadataVersion(copy[d].meta),
                                IF copy[d].meta = NoMeta THEN now ELSE copy[d].meta.ts)
  <2>1. /\ MetadataDeleted(copy[d].meta) = FALSE /\ (~FALSE) = TRUE
        /\ MetadataVersion(copy[d].meta) = copy[d].meta.version
        /\ MetadataTimestamp(copy[d].meta) = copy[d].meta.ts
        /\ (IF copy[d].meta = NoMeta THEN now ELSE copy[d].meta.ts) = copy[d].meta.ts
    BY <1>1 DEF MetadataDeleted, MetadataVersion, MetadataTimestamp
  <2> QED BY <2>1 DEF Observed, ReaderObservation, MirrorObservation
<1>3. M = V
  BY <1>2
<1>4. \A o \in V : HasOpinion(o) /\ o.version \in Int /\ o.ts \in Int /\ o.id \in Int
  BY <1>1, <1>2 DEF HasOpinion
<1>5. \A o \in A : ~HasOpinion(o)
  BY DEF Abstention, HasOpinion
<1>6. Answering \subseteq Devices /\ Holding \subseteq Answering
  BY DEF Answering, Holding
<1>7. IsFiniteSet(Answering) /\ IsFiniteSet(Holding) /\ IsFiniteSet(Devices)
  BY <1>6, ViewsAssumption, FS_Subset
<1>8. /\ Cardinality(Answering) \in Nat /\ Cardinality(Devices) \in Nat
      /\ Cardinality(Holding) \in Nat
      /\ Cardinality(Answering) <= Cardinality(Devices)
      /\ Cardinality(Holding) <= Cardinality(Answering)
  BY <1>6, <1>7, FS_Subset, FS_CardinalityType
<1>9. IsFiniteSet(V) /\ Cardinality(V) <= Cardinality(Holding) /\ Cardinality(V) \in Nat
  <2> DEFINE f == [d \in Holding |-> Observed(d)]
  <2>1. f \in Surjection(Holding, V)
    BY DEF Surjection
  <2> HIDE DEF f
  <2>2. IsFiniteSet(V) /\ Cardinality(V) <= Cardinality(Holding)
    BY <1>7, <2>1, FS_Surjection
  <2> QED BY <2>2, FS_CardinalityType
<1>10. ProxyVerdict = Verdict(V, Cardinality(Answering))
  BY DEF ProxyVerdict
<1>11. ControllerVerdict = Verdict(V \cup A, Cardinality(Devices))
  BY DEF ControllerVerdict
<1>12. MirrorVerdict = Verdict(M \cup A, Cardinality(Answering))
  BY DEF MirrorVerdict
<1> HIDE DEF V, A, M
<1>13. Voters(V) = V /\ Voters(V \cup A) = V
  BY <1>4, <1>5 DEF Voters
<1>14. /\ ControllerVerdict = Verdict(V, Cardinality(Devices))
       /\ MirrorVerdict = Verdict(V, Cardinality(Answering))
  BY <1>3, <1>11, <1>12, <1>13, VerdictOfVoters
<1>15. Comparable(V)
  BY <1>4 DEF Comparable
<1> QED BY <1>8, <1>9, <1>10, <1>13, <1>14, <1>15 DEF V

\* In a pool of up to three devices the proxy's ReadSecret, the controller and the
\* mirror resolve the same content, whichever agents are down, with any versions,
\* timestamps and contents on the devices, as long as data carries metadata.
THEOREM SmallPoolsAgree ==
    ASSUME Labelled
    PROVE  ViewsSpec => []SmallPoolsSeeOneCopy
<1>1. ViewsInvariant => SmallPoolsSeeOneCopy
  <2> SUFFICES ASSUME ViewsInvariant, Cardinality(Devices) <= 3
               PROVE  Same("proxy", "controller") /\ Same("proxy", "mirror")
    BY DEF SmallPoolsSeeOneCopy
  <2> DEFINE V == {Observed(d) : d \in Holding}
             a == Cardinality(Answering)
             n == Cardinality(Devices)
  <2>1. /\ Voters(V) = V /\ IsFiniteSet(V) /\ Comparable(V)
        /\ Cardinality(V) <= a /\ a <= n /\ a \in Nat /\ n \in Nat
        /\ ProxyVerdict = Verdict(V, a) /\ ControllerVerdict = Verdict(V, n)
        /\ MirrorVerdict = Verdict(V, a)
    BY VotersAreHolders
  <2> HIDE DEF V, a
  <2>2. V # {} => WinningChecksum(V, a) = WinningChecksum(V, n)
    BY <2>1, SmallPoolsCountAlike
  <2> HIDE DEF n
  <2>3. ControllerVerdict = ProxyVerdict /\ MirrorVerdict = ProxyVerdict
    BY <2>1, <2>2, VerdictOfVoters
  <2> QED BY <2>3, SMTT(30) DEF Same, ViewsInvariant
<1> QED BY <1>1, ViewsAreInductive, PTL DEF ViewsSpec

\* The metadata object and the content that the proxy returns separately belong to
\* one copy, when at most two devices answer and no deletion is under way; and a
\* path that ReadSecret serves is listed by ListSecrets, for any pool.
THEOREM ProxyAnswersBelongTogether ==
    ASSUME Labelled, Tombstoned
    PROVE  ViewsSpec => []ProxyAnswersFit
<1>1. ViewsInvariant => ProxyAnswersFit
  <2> SUFFICES ASSUME ViewsInvariant PROVE ProxyAnswersFit
    OBVIOUS
  <2> DEFINE V == {Observed(d) : d \in Holding}
             a == Cardinality(Answering)
  <2>1. /\ Voters(V) = V /\ IsFiniteSet(V) /\ Comparable(V) /\ a \in Nat
        /\ ProxyVerdict = Verdict(V, a)
    BY VotersAreHolders
  <2>2. V = {} <=> Holding = {}
    OBVIOUS
  <2>3. ASSUME NEW d \in Holding
        PROVE  /\ d \in WithMetadata /\ copy[d].data \notin {Nothing, TombstoneChecksum}
               /\ EffectiveChecksum(Observed(d)) = copy[d].data
               /\ Observed(d).version = copy[d].meta.version
               /\ Observed(d).ts = copy[d].meta.ts
    <3>1. d \in Answering /\ copy[d] \in Copies /\ copy[d].data # NoData
      BY DEF Holding, Answering, ViewsInvariant
    <3>2. copy[d].meta # NoMeta /\ ~copy[d].meta.deleted
      BY <3>1 DEF Labelled
    <3> QED BY <3>1, <3>2, ViewsAssumption
            DEF WithMetadata, Observed, ReaderObservation, EffectiveChecksum, MetadataDeleted,
                MetadataVersion, MetadataTimestamp
  <2>4. ASSUME NEW d \in WithMetadata
        PROVE  /\ copy[d] \in Copies
               /\ copy[d].meta \in [version : Nat, ts : Nat, deleted : BOOLEAN]
               /\ MetadataTimestamp(copy[d].meta) = copy[d].meta.ts
               /\ MetadataDeleted(copy[d].meta) = copy[d].meta.deleted
    <3>1. copy[d] \in Copies /\ copy[d].meta # NoMeta
      BY DEF WithMetadata, Answering, ViewsInvariant
    <3> QED BY <3>1, ViewsAssumption DEF MetadataTimestamp, MetadataDeleted
  <2> HIDE DEF V, a
  <2>5. view["proxy"] # {} /\ view["proxy"] # {Nothing} => view["list"] # {FALSE}
    <3>1. Holding = {} => ProxyVerdict = Nothing
      BY <2>1, <2>2, VerdictOfVoters
    <3> QED BY <3>1 DEF ViewsInvariant, ListVerdict
  <2>6. ASSUME InOrder, a <= 2, view["proxy"] # {}, view["metadata"] # {}
        PROVE  IF view["proxy"] = {Nothing} THEN view["metadata"] = {Nothing}
               ELSE \E d \in Holding : /\ view["proxy"] = {copy[d].data}
                                       /\ view["metadata"] = {copy[d].meta}
    <3>1. view["proxy"] = {ProxyVerdict} /\ \E m \in MetadataVerdicts : view["metadata"] = {m}
      BY <2>6 DEF ViewsInvariant
    <3>2. CASE Holding = {}
      <4>1. ProxyVerdict = Nothing
        BY <2>1, <2>2, <3>2, VerdictOfVoters
      <4>2. ASSUME NEW d \in WithMetadata PROVE FALSE
        <5>1. copy[d].data = NoData /\ copy[d].meta # NoMeta
          BY <3>2 DEF WithMetadata, Holding
        <5>2. copy[d].meta.deleted
          BY <2>4, <5>1 DEF Tombstoned
        <5> QED BY <2>4, <2>6, <5>2 DEF InOrder
      <4> QED BY <3>1, <4>1, <4>2 DEF MetadataVerdicts
    <3>3. CASE Holding # {}
      <4>1. WinningChecksum(V, a) = EffectiveChecksum(LastWriteWins(V))
        BY <2>1, <2>2, <2>6, <3>3 DEF Strategy, WinningChecksum
      <4>2. LastWriteWins(V) \in V /\ \A o \in V : ~Newer(o, LastWriteWins(V))
        BY <2>1, <2>2, <3>3, LastWriteWinsIsNewest
      <4>3. PICK d \in Holding : LastWriteWins(V) = Observed(d)
        BY <4>2 DEF V
      <4>4. ProxyVerdict = copy[d].data /\ copy[d].data # Nothing
        BY <2>1, <2>2, <2>3, <3>3, <4>1, <4>3, VerdictOfVoters
      <4>5. PICK e \in WithMetadata :
              /\ view["metadata"] = {copy[e].meta}
              /\ \A f \in WithMetadata : MetadataTimestamp(copy[f].meta)
                                           <= MetadataTimestamp(copy[e].meta)
        BY <2>3, <3>1, <3>3 DEF MetadataVerdicts, MostRecentMetadata
      <4>6. ~copy[e].meta.deleted /\ ~copy[d].meta.deleted /\ d \in WithMetadata
        BY <2>3, <2>4, <2>6 DEF InOrder
      <4>7. e \in Holding
        BY <2>4, <4>6 DEF Tombstoned, Holding, WithMetadata
      <4>8. ~Newer(Observed(e), Observed(d))
        BY <4>2, <4>3, <4>7 DEF V
      <4>9. copy[e].meta.version <= copy[d].meta.version /\ copy[d].meta.ts <= copy[e].meta.ts
        BY <2>3, <2>4, <4>5, <4>6, <4>7, <4>8 DEF Newer
      <4>10. copy[d].meta.version < copy[e].meta.version <=> copy[d].meta.ts < copy[e].meta.ts
        BY <2>6, <4>6 DEF InOrder
      <4>11. copy[e].meta.version < copy[d].meta.version <=> copy[e].meta.ts < copy[d].meta.ts
        BY <2>6, <4>6 DEF InOrder
      <4>12. copy[e].meta.version = copy[d].meta.version /\ copy[e].meta.ts = copy[d].meta.ts
        BY <2>4, <4>6, <4>9, <4>10, <4>11
      <4>13. copy[e].meta = copy[d].meta
        BY <2>4, <4>6, <4>12
      <4> QED BY <3>1, <4>4, <4>5, <4>13
    <3> QED BY <3>2, <3>3
  <2> QED BY <2>5, <2>6 DEF ProxyAnswersFit, a
<1> QED BY <1>1, ViewsAreInductive, PTL DEF ViewsSpec
=============================================================================
