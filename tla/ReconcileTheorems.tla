-------------------------- MODULE ReconcileTheorems --------------------------
(***************************************************************************)
(* Facts about the resolution policy for every number of devices: there is *)
(* at most one majority, a newest voter exists and is unique, and the      *)
(* winner is a content that some voter holds.                              *)
(***************************************************************************)
EXTENDS Reconcile, FiniteSetTheorems, TLAPS

\* A transitive, irreflexive relation R on a finite non-empty set has a minimal
\* element.  (The sets of elements below x shrink along R.)
LEMMA FiniteMinimal ==
    ASSUME NEW S, IsFiniteSet(S), S # {}, NEW R,
           \A x \in S : <<x, x>> \notin R,
           \A x, y, z \in S : <<x, y>> \in R /\ <<y, z>> \in R => <<x, z>> \in R
    PROVE  \E x \in S : \A y \in S : <<y, x>> \notin R
<1> DEFINE Below(x) == {y \in S : <<y, x>> \in R}
           T == {U \in SUBSET S : \E x \in S : U = Below(x)}
<1>1. T \subseteq FiniteSubsetsOf(S)
  BY FS_FiniteSubsetsOfFinite
<1>2. T # {}
  <2>1. PICK x \in S : TRUE
    OBVIOUS
  <2>2. Below(x) \in T
    <3> HIDE DEF Below
    <3>1. Below(x) \subseteq S
      BY DEF Below
    <3> QED BY <3>1
  <2> QED BY <2>2
<1>3. IsWellFoundedOn(StrictSubsetOrdering(S), FiniteSubsetsOf(S))
  BY FS_StrictSubsetOrderingWellFounded
<1>4. PICK B \in T : \A C \in T : ~(<<C, B>> \in StrictSubsetOrdering(S))
  <2> HIDE DEF T
  <2> QED BY <1>1, <1>2, <1>3, WFMin
<1>5. PICK x \in S : B = Below(x)
  OBVIOUS
<1>6. SUFFICES ASSUME NEW y \in S, <<y, x>> \in R PROVE FALSE
  OBVIOUS
<1>7. Below(y) \subseteq Below(x) /\ y \in Below(x) /\ y \notin Below(y)
  BY <1>6
<1>8. <<Below(y), Below(x)>> \in StrictSubsetOrdering(S)
  BY <1>7 DEF StrictSubsetOrdering
<1>9. Below(y) \in T
  <2> HIDE DEF Below
  <2>1. Below(y) \subseteq S
    BY DEF Below
  <2> QED BY <2>1
<1> HIDE DEF T, Below
<1> QED BY <1>4, <1>5, <1>8, <1>9

\* The fields that Newer compares are numbers.
Comparable(V) == \A o \in V : o.version \in Int /\ o.ts \in Int /\ o.id \in Int

\* lastWriteWins has a newest voter to return.
LEMMA NewestExists ==
    ASSUME NEW V, IsFiniteSet(V), V # {}, Comparable(V)
    PROVE  \E o \in V : \A p \in V : ~Newer(p, o)
<1> DEFINE R == {e \in V \X V : Newer(e[1], e[2])}
<1>1. \A x, y \in V : <<x, y>> \in R <=> Newer(x, y)
  OBVIOUS
<1>2. \A x \in V : ~Newer(x, x)
  BY DEF Newer, Comparable
<1>3. \A x, y, z \in V : Newer(x, y) /\ Newer(y, z) => Newer(x, z)
  BY DEF Newer, Comparable
<1> HIDE DEF R
<1>4. \E x \in V : \A y \in V : <<y, x>> \notin R
  BY <1>1, <1>2, <1>3, FiniteMinimal
<1> QED BY <1>1, <1>4

LEMMA LastWriteWinsIsNewest ==
    ASSUME NEW V, IsFiniteSet(V), V # {}, Comparable(V)
    PROVE  /\ LastWriteWins(V) \in V
           /\ \A p \in V : ~Newer(p, LastWriteWins(V))
BY NewestExists DEF LastWriteWins

\* ... and only one, since serial numbers break ties.
LEMMA NewestIsUnique ==
    ASSUME NEW V, IsFiniteSet(V), Comparable(V), DistinctIds(V),
           NEW o \in V, \A p \in V : ~Newer(p, o)
    PROVE  o = LastWriteWins(V)
<1> DEFINE w == LastWriteWins(V)
<1>1. w \in V /\ \A p \in V : ~Newer(p, w)
  BY LastWriteWinsIsNewest
<1>2. ~Newer(w, o) /\ ~Newer(o, w)
  BY <1>1
<1> HIDE DEF w
<1>3. w.id = o.id
  BY <1>1, <1>2 DEF Newer, Comparable
<1> QED BY <1>1, <1>3 DEF DistinctIds, w

\* Two strict majorities of the expected devices share a voter, so strictMajority
\* finds the same checksum in whatever order it looks.
LEMMA MajorityIsUnique ==
    ASSUME NEW V, IsFiniteSet(V), NEW n \in Nat, Cardinality(V) <= n,
           NEW c, NEW e,
           StrictMajority(Cardinality(Supporters(V, c)), n),
           StrictMajority(Cardinality(Supporters(V, e)), n)
    PROVE  c = e
<1> DEFINE C == Supporters(V, c)
           E == Supporters(V, e)
<1>1. C \subseteq V /\ E \subseteq V
  BY DEF Supporters
<1>2. IsFiniteSet(C) /\ IsFiniteSet(E)
  BY <1>1, FS_Subset
<1>3. Cardinality(C) \in Nat /\ Cardinality(E) \in Nat /\ Cardinality(V) \in Nat
  BY <1>2, FS_CardinalityType
<1>4. Cardinality(C) + Cardinality(E) > Cardinality(V)
  BY <1>3 DEF StrictMajority
<1>5. C \cap E # {}
  <2> HIDE DEF C, E
  <2> QED BY <1>1, <1>4, FS_MajoritiesIntersect
<1> QED BY <1>5 DEF Supporters

\* The winner is the content of some voter.
LEMMA WinnerIsHeld ==
    ASSUME NEW V, IsFiniteSet(V), V # {}, Comparable(V), NEW n \in Nat
    PROVE  \E o \in V : EffectiveChecksum(o) = WinningChecksum(V, n)
<1>1. CASE Strategy(V, n) = "majority"
  <2>1. MajorityChecksums(V, n) # {}
    BY <1>1 DEF Strategy
  <2>2. WinningChecksum(V, n) \in MajorityChecksums(V, n)
    BY <1>1, <2>1 DEF WinningChecksum
  <2> QED BY <2>2 DEF MajorityChecksums, Candidates
<1>2. CASE Strategy(V, n) # "majority"
  <2>1. WinningChecksum(V, n) = EffectiveChecksum(LastWriteWins(V))
    BY <1>2 DEF WinningChecksum
  <2> QED BY <2>1, LastWriteWinsIsNewest
<1> QED BY <1>1, <1>2

\* The device a decision names holds the winning content.
LEMMA LowestDeviceHolds ==
    ASSUME NEW V, IsFiniteSet(V), Comparable(V), NEW c,
           NEW h \in V, EffectiveChecksum(h) = c
    PROVE  /\ \E o \in Supporters(V, c) : o.id = LowestDeviceWithChecksum(V, c)
           /\ \A o \in Supporters(V, c) : LowestDeviceWithChecksum(V, c) <= o.id
<1> DEFINE C == Supporters(V, c)
           R == {e \in C \X C : e[1].id < e[2].id}
<1>1. C \subseteq V /\ h \in C
  BY DEF Supporters
<1>2. IsFiniteSet(C)
  BY <1>1, FS_Subset
<1>3. \A x, y \in C : <<x, y>> \in R <=> x.id < y.id
  OBVIOUS
<1>4. \A x \in C : x.id \in Int
  BY <1>1 DEF Comparable
<1> HIDE DEF R
<1>5. \E x \in C : \A y \in C : <<y, x>> \notin R
  <2> HIDE DEF C
  <2>1. \A x \in C : <<x, x>> \notin R
    BY <1>3, <1>4
  <2>2. \A x, y, z \in C : <<x, y>> \in R /\ <<y, z>> \in R => <<x, z>> \in R
    BY <1>3, <1>4
  <2> QED BY <1>1, <1>2, <2>1, <2>2, FiniteMinimal
<1> HIDE DEF C
<1>6. \E d \in {o.id : o \in C} : \A o \in C : d <= o.id
  <2>1. PICK x \in C : \A y \in C : <<y, x>> \notin R
    BY <1>5
  <2>2. \A y \in C : x.id <= y.id
    <3> TAKE y \in C
    <3>1. ~(y.id < x.id)
      BY <1>3, <2>1
    <3>2. x.id \in Int /\ y.id \in Int
      BY <1>4
    <3> QED BY <3>1, <3>2
  <2>3. x.id \in {o.id : o \in C}
    OBVIOUS
  <2> QED BY <2>2, <2>3
<1> QED BY <1>6 DEF LowestDeviceWithChecksum, C

\* Resolve returns a content and a device that holds it: for any number of
\* devices, any deviceCount argument, and any versions and timestamps.
THEOREM ResolvePicksAHolder ==
    ASSUME NEW obs, IsFiniteSet(obs), Comparable(obs), Found(obs), NEW n \in Nat
    PROVE  \E o \in Voters(obs) :
              /\ o.id = Resolve(obs, n).device
              /\ EffectiveChecksum(o) = Resolve(obs, n).checksum
<1> DEFINE V == Voters(obs)
<1>1. V \subseteq obs /\ V # {}
  BY DEF Voters, Found
<1>2. IsFiniteSet(V) /\ Comparable(V)
  BY <1>1, FS_Subset DEF Comparable
<1> HIDE DEF V
<1>3. PICK h \in V : EffectiveChecksum(h) = WinningChecksum(V, n)
  BY <1>1, <1>2, WinnerIsHeld
<1>4. \E o \in Supporters(V, WinningChecksum(V, n)) :
          o.id = LowestDeviceWithChecksum(V, WinningChecksum(V, n))
  BY <1>2, <1>3, LowestDeviceHolds
<1> QED BY <1>4 DEF Resolve, Supporters, V

\* Voters that agree are never overruled: Resolve returns their content and names
\* no outlier.
THEOREM ResolveKeepsAgreement ==
    ASSUME NEW obs, IsFiniteSet(obs), Comparable(obs), Found(obs), NEW n \in Nat,
           NEW c, \A o \in Voters(obs) : EffectiveChecksum(o) = c
    PROVE  Resolve(obs, n).checksum = c /\ Resolve(obs, n).outliers = {}
<1>1. Resolve(obs, n).checksum = c
  BY ResolvePicksAHolder
<1>2. Resolve(obs, n).outliers = Outliers(Voters(obs), c)
  BY <1>1 DEF Resolve
<1> QED BY <1>1, <1>2 DEF Outliers, Supporters

\* Majority wins: with three or more expected devices, the content that more than
\* half of them hold is the winner, whatever versions and timestamps the others
\* carry.
THEOREM ResolveFollowsMajority ==
    ASSUME NEW obs, IsFiniteSet(obs), NEW n \in Nat, n >= 3,
           Cardinality(Voters(obs)) <= n, NEW c,
           StrictMajority(Cardinality(Supporters(Voters(obs), c)), n)
    PROVE  Resolve(obs, n).checksum = c /\ Resolve(obs, n).strategy = "majority"
<1> DEFINE V == Voters(obs)
<1>1. IsFiniteSet(V)
  BY FS_Subset DEF Voters
<1>2. c \in MajorityChecksums(V, n)
  <2>1. Supporters(V, c) # {}
    <3>1. SUFFICES ASSUME Supporters(V, c) = {} PROVE FALSE
      OBVIOUS
    <3>2. Cardinality(Supporters(V, c)) = 0
      BY <3>1, FS_EmptySet
    <3> QED BY <3>2 DEF StrictMajority
  <2> QED BY <2>1 DEF MajorityChecksums, Candidates, Supporters
<1>3. Strategy(V, n) = "majority"
  <2>1. V # {}
    BY <1>2 DEF MajorityChecksums, Candidates
  <2> HIDE DEF V
  <2> QED BY <1>2, <2>1 DEF Strategy
<1>4. WinningChecksum(V, n) \in MajorityChecksums(V, n)
  <2> HIDE DEF V
  <2> QED BY <1>2, <1>3 DEF WinningChecksum
<1>5. WinningChecksum(V, n) = c
  BY <1>1, <1>4, MajorityIsUnique DEF MajorityChecksums
<1> QED BY <1>3, <1>5 DEF Resolve
=============================================================================
