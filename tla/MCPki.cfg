\* Two replicas that may both generate an authority; leaves valid for five
\* intervals and renewed in the last three; two mishaps.
CONSTANTS
  m1 = m1
  m2 = m2
  ca1 = ca1
  ca2 = ca2
  Replicas <- TwoReplicas
  Authorities <- TwoAuthorities
  NoCA = NoCA
  NoLeaf = NoLeaf
  NoLeader = NoLeader
  Validity = 5
  RenewBefore = 3
  MaxMishaps = 2
SPECIFICATION PkiSpec
INVARIANT PkiTypeOK
 
INVARIANT ServedLeafIsValid
PROPERTY ReplicasComeUp
PROPERTY LeaderRegainsValidLeaf
