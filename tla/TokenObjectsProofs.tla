------------------------- MODULE TokenObjectsProofs ------------------------
(***************************************************************************)
(* That an operation of the PKCS#11 client touches no secret beside its    *)
(* own, for any paths, keys, values, search limit and capacity, with       *)
(* partial failures and on a token too full to be searched.  The argument: *)
(* an operation on p destroys and creates only objects whose label has the *)
(* prefix p; a read at q looks only at labels with the prefix q; and two   *)
(* prefixes of one label are comparable.                                   *)
(*                                                                         *)
(* That every path that is listed can be read.  And that the client is the *)
(* map of SecretStore on isolated paths, while one search sees the whole   *)
(* token: an object below such a path was made for the path, so a read     *)
(* there sees its labels one by one, and destroying or creating some of    *)
(* them takes away or adds their keys.                                     *)
(***************************************************************************)
EXTENDS TokenObjects, FiniteSetTheorems, SequenceTheorems, TLAPS

(* Two prefixes of one label are comparable: one of them is a prefix of    *)
(* the other (HasPrefix on strings).                                       *)
LEMMA PrefixesAreComparable ==
    ASSUME NEW p \in Labels, NEW q \in Labels, NEW l \in Labels,
           IsPrefix(p, l), IsPrefix(q, l)
    PROVE  Comparable(p, q)
<1>1. ASSUME NEW s \in Labels, NEW t \in Labels, IsPrefix(s, l), IsPrefix(t, l),
             Len(s) <= Len(t)
      PROVE  IsPrefix(s, t)
  <2>1. \A i \in 1..Len(s) : s[i] = l[i]
    <3>1. Len(s) \in Nat /\ Len(l) \in Nat /\ Len(s) <= Len(l)
      BY <1>1 DEF IsPrefix, Labels
    <3>2. SubSeq(s, 1, Len(s)) = SubSeq(l, 1, Len(s))
      BY <1>1 DEF IsPrefix
    <3>3. \A i \in 1..Len(s) : SubSeq(s, 1, Len(s))[i] = s[i]
      BY <3>1 DEF Labels
    <3>4. \A i \in 1..Len(s) : SubSeq(l, 1, Len(s))[i] = l[i]
      BY <3>1 DEF Labels
    <3> QED BY <3>2, <3>3, <3>4
  <2>2. \A i \in 1..Len(t) : t[i] = l[i]
    <3>1. Len(t) \in Nat /\ Len(l) \in Nat /\ Len(t) <= Len(l)
      BY <1>1 DEF IsPrefix, Labels
    <3>2. SubSeq(t, 1, Len(t)) = SubSeq(l, 1, Len(t))
      BY <1>1 DEF IsPrefix
    <3>3. \A i \in 1..Len(t) : SubSeq(t, 1, Len(t))[i] = t[i]
      BY <3>1 DEF Labels
    <3>4. \A i \in 1..Len(t) : SubSeq(l, 1, Len(t))[i] = l[i]
      BY <3>1 DEF Labels
    <3> QED BY <3>2, <3>3, <3>4
  <2>3. \A i \in 1..Len(s) : s[i] = t[i]
    BY <1>1, <2>1, <2>2 DEF Labels
  <2>4. SubSeq(s, 1, Len(s)) = SubSeq(t, 1, Len(s))
    BY <1>1, <2>3 DEF Labels
  <2> QED BY <1>1, <2>4 DEF IsPrefix
<1>2. Len(p) <= Len(q) \/ Len(q) <= Len(p)
  BY DEF Labels
<1> QED BY <1>1, <1>2 DEF Comparable

(* A path is a prefix of every label that extends it.                      *)
LEMMA ExtensionHasPrefix ==
    ASSUME NEW p \in Labels, NEW r \in Labels
    PROVE  p \o r \in Labels /\ IsPrefix(p, p \o r)
<1>1. p \o r \in Labels /\ Len(p \o r) = Len(p) + Len(r) /\ Len(p) \in Nat /\ Len(r) \in Nat
  BY DEF Labels
<1>2. \A i \in 1..Len(p) : (p \o r)[i] = p[i]
  BY DEF Labels
<1>3. SubSeq(p, 1, Len(p)) = SubSeq(p \o r, 1, Len(p))
  BY <1>1, <1>2 DEF Labels
<1> QED BY <1>1, <1>3 DEF IsPrefix

(* The labels of the objects of a path start with the path.                *)
LEMMA LabelsHavePrefix ==
    ASSUME NEW p \in Requests
    PROVE  /\ \A k \in Keys : LabelOf(p, k) \in Labels /\ IsPrefix(p, LabelOf(p, k))
           /\ MetadataLabel(p) \in Labels /\ IsPrefix(p, MetadataLabel(p))
<1>0. p \in Labels /\ "/" \in Symbols /\ "_metadata" \in Symbols
  BY TokenConstants DEF Labels
<1>1. ASSUME NEW k \in Keys
      PROVE  LabelOf(p, k) \in Labels /\ IsPrefix(p, LabelOf(p, k))
  <2>0. k \in Labels
    BY TokenConstants DEF Labels
  <2>1. CASE k = DefaultKey
    <3>1. <<>> \in Labels /\ p \o <<>> = p
      BY <1>0 DEF Labels
    <3> QED BY <1>0, <2>1, <3>1, ExtensionHasPrefix DEF LabelOf
  <2>2. CASE k # DefaultKey
    <3>1. <<"/">> \o k \in Labels
      BY <1>0, <2>0 DEF Labels
    <3> QED BY <1>0, <2>2, <3>1, ExtensionHasPrefix DEF LabelOf
  <2> QED BY <2>1, <2>2
<1>2. MetadataKeySuffix \in Labels
  BY <1>0 DEF MetadataKeySuffix, Labels
<1> QED BY <1>0, <1>1, <1>2, ExtensionHasPrefix DEF MetadataLabel

(* So do those of the objects WriteSecret creates.                         *)
LEMMA CreatedHavePrefix ==
    ASSUME NEW p \in Requests, NEW data \in SecretData, NEW m \in Metas \cup {NoMeta},
           NEW o \in CreatedData(p, data) \cup CreatedMetadata(p, m)
    PROVE  o \in Objects /\ IsPrefix(p, o.label)
<1>1. CASE o \in CreatedData(p, data)
  <2>1. PICK kv \in data : o = Object(LabelOf(p, kv[1]), kv[2])
    BY <1>1 DEF CreatedData
  <2>2. kv[1] \in Keys /\ kv[2] \in Values
    BY <2>1 DEF SecretData
  <2> QED BY <2>1, <2>2, LabelsHavePrefix DEF Object, Objects
<1>2. CASE o \in CreatedMetadata(p, m)
  <2>1. m \in Metas /\ o = Object(MetadataLabel(p), m)
    BY <1>2 DEF CreatedMetadata
  <2> QED BY <2>1, LabelsHavePrefix DEF Object, Objects
<1> QED BY <1>1, <1>2

(* A search returns objects of the token, and all of them unless there are *)
(* more than it returns (FindObjects).                                     *)
LEMMA SearchesAreSound ==
    ASSUME NEW found \in FindObjects
    PROVE  /\ found \subseteq objects
           /\ ~(Cardinality(objects) > SearchLimit) => found = objects
BY DEF FindObjects

(* What an operation on p adds and removes is labelled with a prefix p.    *)
Touches(p) ==
    /\ objects' \subseteq Objects
    /\ \A o \in Objects : o \in objects' /\ o \notin objects => IsPrefix(p, o.label)
    /\ \A o \in Objects : o \in objects /\ o \notin objects' => IsPrefix(p, o.label)

(* The operations on a path.                                               *)
OperationOn(p) ==
    \/ DeleteSecret(p) \/ DeleteSecretFails(p)
    \/ \E k \in Keys : DeleteSecretKey(p, k)
    \/ \E data \in SecretData, m \in Metas \cup {NoMeta} :
          WriteSecret(p, data, m) \/ WriteSecretFails(p, data, m)

(* An operation on a path touches only objects under that path, failed     *)
(* operations included.                                                    *)
LEMMA OperationsTouchOnePath ==
    ASSUME objects \subseteq Objects, NEW p \in AdmittedPaths, OperationOn(p)
    PROVE  Touches(p)
<1>0. p \in Requests
  BY DEF AdmittedPaths
<1>2. ASSUME NEW found \in FindObjects
      PROVE  /\ DeleteSecretObjects(p, found) \subseteq objects
             /\ \A o \in DeleteSecretObjects(p, found) : IsPrefix(p, o.label)
  BY <1>2, SearchesAreSound DEF DeleteSecretObjects, Under
<1>3. CASE DeleteSecret(p)
  <2>1. PICK found \in FindObjects : objects' = objects \ DeleteSecretObjects(p, found)
    BY <1>3 DEF DeleteSecret, Become
  <2> QED BY <1>2, <2>1 DEF Touches
<1>4. CASE DeleteSecretFails(p)
  <2>1. PICK found \in FindObjects :
          \E gone \in SUBSET DeleteSecretObjects(p, found) : objects' = objects \ gone
    BY <1>4 DEF DeleteSecretFails, Become
  <2> QED BY <1>2, <2>1 DEF Touches
<1>5. ASSUME NEW k \in Keys, DeleteSecretKey(p, k)
      PROVE  Touches(p)
  <2>1. PICK o \in objects : o.label = LabelOf(p, k) /\ objects' = objects \ {o}
    BY <1>5 DEF DeleteSecretKey, Become
  <2>2. IsPrefix(p, LabelOf(p, k))
    BY <1>0, LabelsHavePrefix
  <2> QED BY <2>1, <2>2 DEF Touches
<1>6. ASSUME NEW data \in SecretData, NEW m \in Metas \cup {NoMeta}, WriteSecret(p, data, m)
      PROVE  Touches(p)
  <2>1. PICK found \in FindObjects :
          objects' = (objects \ DeleteSecretObjects(p, found))
                        \cup CreatedData(p, data) \cup CreatedMetadata(p, m)
    BY <1>6 DEF WriteSecret, Become
  <2>2. \A o \in CreatedData(p, data) \cup CreatedMetadata(p, m) :
          o \in Objects /\ IsPrefix(p, o.label)
    BY <1>0, CreatedHavePrefix
  <2> QED BY <1>2, <2>1, <2>2 DEF Touches
<1>7. ASSUME NEW data \in SecretData, NEW m \in Metas \cup {NoMeta},
             WriteSecretFails(p, data, m)
      PROVE  Touches(p)
  <2>1. PICK found \in FindObjects :
          \/ \E gone \in SUBSET DeleteSecretObjects(p, found) : objects' = objects \ gone
          \/ \E made \in SUBSET CreatedData(p, data) :
                objects' = (objects \ DeleteSecretObjects(p, found)) \cup made
    BY <1>7 DEF WriteSecretFails, Become
  <2>2. \A o \in CreatedData(p, data) : o \in Objects /\ IsPrefix(p, o.label)
    BY <1>0, CreatedHavePrefix
  <2> QED BY <1>2, <2>1, <2>2 DEF Touches
<1> QED BY <1>3, <1>4, <1>5, <1>6, <1>7 DEF OperationOn

(* Every step of the client is an operation on some admitted path.         *)
LEMMA StepsTouchOnePath ==
    ASSUME objects \subseteq Objects, TokenNext
    PROVE  \E p \in AdmittedPaths : Touches(p)
<1>1. \E p \in AdmittedPaths : OperationOn(p)
  BY DEF TokenNext, OperationOn
<1> QED BY <1>1, OperationsTouchOnePath


(* An operation on p that touches only what is under p leaves a path that  *)
(* is not comparable with p as it was, for both kinds of read.             *)
LEMMA TouchingIsLocal ==
    ASSUME objects \subseteq Objects,
           NEW p \in Requests, NEW q \in Requests, Touches(p), ~Comparable(p, q)
    PROVE  /\ ReadSecret(q, objects') = ReadSecret(q, objects)
           /\ ReadMetadata(q, objects') = ReadMetadata(q, objects)
<1>0. p \in Labels /\ q \in Labels
  BY TokenConstants DEF Labels
<1>1. ASSUME NEW o \in Objects, IsPrefix(q, o.label)
      PROVE  o \in objects' <=> o \in objects
  <2>1. o.label \in Labels
    BY DEF Objects
  <2>2. ~IsPrefix(p, o.label)
    BY <1>0, <1>1, <2>1, PrefixesAreComparable
  <2> QED BY <1>1, <2>2 DEF Touches
<1>2. Under(q, objects') = Under(q, objects)
  BY <1>1 DEF Under, Touches
<1>3. {u \in Under(MetadataLabel(q), objects') : u.label = MetadataLabel(q)}
        = {u \in Under(MetadataLabel(q), objects) : u.label = MetadataLabel(q)}
  <2>1. IsPrefix(q, MetadataLabel(q))
    BY LabelsHavePrefix
  <2> QED BY <1>1, <2>1 DEF Under, Touches
<1> QED BY <1>2, <1>3 DEF ReadSecret, ReadMetadata

(* What follows a common prefix is determined by the whole.                *)
LEMMA PrefixCancels ==
    ASSUME NEW p \in Labels, NEW r \in Labels, NEW s \in Labels, p \o r = p \o s
    PROVE  r = s
<1>1. Len(r) = Len(s) /\ Len(r) \in Nat
  <2>1. Len(p \o r) = Len(p) + Len(r) /\ Len(p \o s) = Len(p) + Len(s)
    BY DEF Labels
  <2> QED BY <2>1 DEF Labels
<1>2. ASSUME NEW i \in 1..Len(r)
      PROVE  r[i] = s[i]
  <2>1. (p \o r)[Len(p) + i] = r[i]
    BY <1>1 DEF Labels
  <2>2. (p \o s)[Len(p) + i] = s[i]
    BY <1>1 DEF Labels
  <2> QED BY <2>1, <2>2
<1> QED BY <1>1, <1>2 DEF Labels

(* The objects of one secret have different labels: keys that differ give  *)
(* labels that differ, and no key gives the label of the metadata.         *)
LEMMA LabelsDiffer ==
    ASSUME NEW p \in Requests, NEW k \in Keys
    PROVE  /\ \A j \in Keys : LabelOf(p, k) = LabelOf(p, j) => k = j
           /\ LabelOf(p, k) # MetadataLabel(p)
<1>0. p \in Labels /\ "/" \in Symbols /\ "_metadata" \in Symbols
  BY TokenConstants DEF Labels
<1>1. ASSUME NEW j \in Keys
      PROVE  /\ j \in Labels /\ <<"/">> \o j \in Labels
             /\ Len(p \o (<<"/">> \o j)) > Len(p)
             /\ p \o (<<"/">> \o j) # p
  <2>1. j \in Labels
    BY TokenConstants DEF Labels
  <2>2. <<"/">> \o j \in Labels /\ Len(<<"/">> \o j) = 1 + Len(j)
    BY <1>0, <2>1 DEF Labels
  <2>3. Len(p \o (<<"/">> \o j)) = Len(p) + Len(<<"/">> \o j)
    BY <1>0, <2>2 DEF Labels
  <2>4. Len(p) \in Nat /\ Len(j) \in Nat
    BY <1>0, <2>1 DEF Labels
  <2> QED BY <2>1, <2>2, <2>3, <2>4
<1>2. <<"/">> \in Labels /\ <<"_metadata">> \in Labels
  BY <1>0 DEF Labels
<1>3. ASSUME NEW j \in Keys, LabelOf(p, k) = LabelOf(p, j)
      PROVE  k = j
  <2>1. CASE k = DefaultKey \/ j = DefaultKey
    BY <1>1, <1>3, <2>1 DEF LabelOf
  <2>2. CASE k # DefaultKey /\ j # DefaultKey
    <3>1. p \o (<<"/">> \o k) = p \o (<<"/">> \o j)
      BY <1>3, <2>2 DEF LabelOf
    <3>2. <<"/">> \o k = <<"/">> \o j
      BY <1>0, <1>1, <3>1, PrefixCancels
    <3> QED BY <1>1, <1>2, <3>2, PrefixCancels
  <2> QED BY <2>1, <2>2
<1>4. MetadataKeySuffix = <<"/">> \o <<"_metadata">> /\ MetadataKeySuffix \in Labels
  BY <1>0 DEF MetadataKeySuffix, Labels
<1>5. LabelOf(p, k) # MetadataLabel(p)
  <2>1. CASE k = DefaultKey
    <3>1. Len(MetadataKeySuffix) = 2
      BY DEF MetadataKeySuffix
    <3>2. Len(p \o MetadataKeySuffix) = Len(p) + 2
      BY <1>0, <1>4, <3>1 DEF Labels
    <3>3. Len(p) \in Nat
      BY <1>0 DEF Labels
    <3>4. Len(MetadataLabel(p)) # Len(p)
      BY <3>2, <3>3 DEF MetadataLabel
    <3> QED BY <2>1, <3>4 DEF LabelOf
  <2>2. CASE k # DefaultKey
    <3> SUFFICES ASSUME p \o (<<"/">> \o k) = p \o MetadataKeySuffix
                 PROVE  FALSE
      BY <2>2 DEF LabelOf, MetadataLabel
    <3>1. <<"/">> \o k = MetadataKeySuffix
      BY <1>0, <1>1, <1>4, PrefixCancels
    <3>2. k = <<"_metadata">>
      BY <1>1, <1>2, <1>4, <3>1, PrefixCancels
    <3>3. Last(k) = "_metadata"
      BY <3>2 DEF Last
    <3> QED BY <3>3, KeysAreNames
  <2> QED BY <2>1, <2>2
<1> QED BY <1>3, <1>5

Unique(S) == \A o, u \in S : o.label = u.label => o = u

(* The objects WriteSecret creates, all or some, have different labels.    *)
LEMMA CreatedAreUnique ==
    ASSUME NEW p \in Requests, NEW data \in SecretData, NEW m \in Metas \cup {NoMeta}
    PROVE  Unique(CreatedData(p, data) \cup CreatedMetadata(p, m))
<1> SUFFICES ASSUME NEW o \in CreatedData(p, data) \cup CreatedMetadata(p, m),
                    NEW u \in CreatedData(p, data) \cup CreatedMetadata(p, m),
                    o.label = u.label
             PROVE  o = u
  BY DEF Unique
<1>1. ASSUME NEW x \in CreatedData(p, data)
      PROVE  \E kv \in data : /\ kv[1] \in Keys /\ x.label = LabelOf(p, kv[1])
                              /\ x = Object(LabelOf(p, kv[1]), kv[2])
  BY DEF CreatedData, SecretData, Object
<1>2. ASSUME NEW x \in CreatedMetadata(p, m)
      PROVE  x.label = MetadataLabel(p) /\ x = Object(MetadataLabel(p), m)
  BY DEF CreatedMetadata, Object
<1>3. CASE o \in CreatedData(p, data) /\ u \in CreatedData(p, data)
  <2>1. PICK x \in data : /\ x[1] \in Keys /\ o.label = LabelOf(p, x[1])
                          /\ o = Object(LabelOf(p, x[1]), x[2])
    BY <1>1, <1>3
  <2>2. PICK y \in data : /\ y[1] \in Keys /\ u.label = LabelOf(p, y[1])
                          /\ u = Object(LabelOf(p, y[1]), y[2])
    BY <1>1, <1>3
  <2>3. x[1] = y[1]
    BY <2>1, <2>2, LabelsDiffer
  <2>4. x = y
    BY <2>3 DEF SecretData
  <2> QED BY <2>1, <2>2, <2>4
<1>4. CASE o \in CreatedMetadata(p, m) /\ u \in CreatedMetadata(p, m)
  BY <1>2, <1>4
<1>5. CASE o \in CreatedData(p, data) /\ u \in CreatedMetadata(p, m)
  BY <1>1, <1>2, <1>5, LabelsDiffer
<1>6. CASE u \in CreatedData(p, data) /\ o \in CreatedMetadata(p, m)
  BY <1>1, <1>2, <1>6, LabelsDiffer
<1> QED BY <1>3, <1>4, <1>5, <1>6

(* A step keeps labels unique as long as the search sees the whole token.  *)
LEMMA StepsKeepLabelsUnique ==
    ASSUME Unique(objects), ~(Cardinality(objects) > SearchLimit), TokenNext
    PROVE  Unique(objects')
<1>1. PICK p \in AdmittedPaths :
        \/ DeleteSecret(p) \/ DeleteSecretFails(p)
        \/ \E k \in Keys : DeleteSecretKey(p, k)
        \/ \E data \in SecretData, m \in Metas \cup {NoMeta} :
              WriteSecret(p, data, m) \/ WriteSecretFails(p, data, m)
  BY DEF TokenNext
<1>0. p \in Requests
  BY DEF AdmittedPaths
<1>2. ASSUME objects' \subseteq objects
      PROVE  Unique(objects')
  BY <1>2 DEF Unique
<1>3. ASSUME NEW data \in SecretData, NEW m \in Metas \cup {NoMeta},
             NEW found \in FindObjects, NEW made,
             made \subseteq CreatedData(p, data) \cup CreatedMetadata(p, m),
             objects' = (objects \ DeleteSecretObjects(p, found)) \cup made
      PROVE  Unique(objects')
  <2>1. found = objects
    BY SearchesAreSound
  <2>2. \A o \in made : IsPrefix(p, o.label)
    BY <1>0, <1>3, CreatedHavePrefix
  <2>3. \A o \in objects \ DeleteSecretObjects(p, found) : ~IsPrefix(p, o.label)
    BY <2>1 DEF DeleteSecretObjects, Under
  <2>4. Unique(made)
    BY <1>0, <1>3, CreatedAreUnique DEF Unique
  <2> QED BY <1>3, <2>2, <2>3, <2>4 DEF Unique
<1>4. CASE DeleteSecret(p) \/ DeleteSecretFails(p) \/ \E k \in Keys : DeleteSecretKey(p, k)
  BY <1>2, <1>4 DEF DeleteSecret, DeleteSecretFails, DeleteSecretKey, Become
<1>5. ASSUME NEW data \in SecretData, NEW m \in Metas \cup {NoMeta}, WriteSecret(p, data, m)
      PROVE  Unique(objects')
  <2>1. PICK found \in FindObjects :
          objects' = (objects \ DeleteSecretObjects(p, found))
                        \cup (CreatedData(p, data) \cup CreatedMetadata(p, m))
    BY <1>5 DEF WriteSecret, Become
  <2> QED BY <1>3, <2>1
<1>6. ASSUME NEW data \in SecretData, NEW m \in Metas \cup {NoMeta},
             WriteSecretFails(p, data, m)
      PROVE  Unique(objects')
  <2>1. PICK found \in FindObjects :
          \/ \E gone \in SUBSET DeleteSecretObjects(p, found) : objects' = objects \ gone
          \/ \E made \in SUBSET CreatedData(p, data) :
                objects' = (objects \ DeleteSecretObjects(p, found)) \cup made
    BY <1>6 DEF WriteSecretFails, Become
  <2> QED BY <1>2, <1>3, <2>1
<1> QED BY <1>1, <1>4, <1>5, <1>6

(* Every step goes through Become: the history variable records whether    *)
(* the token is now more crowded than a search can see.                    *)
LEMMA StepsRecordCrowding ==
    ASSUME TokenTypeOK, TokenNext
    PROVE  /\ crowded' = (crowded \/ Cardinality(objects') > SearchLimit)
           /\ mishaps' \in 0..MaxMishaps
<1>1. crowded' = (crowded \/ Cardinality(objects') > SearchLimit)
  <2>1. ASSUME NEW new, Become(new)
        PROVE  crowded' = (crowded \/ Cardinality(objects') > SearchLimit)
    BY <2>1 DEF Become
  <2>2. PICK p \in AdmittedPaths :
          \/ DeleteSecret(p) \/ DeleteSecretFails(p)
          \/ \E k \in Keys : DeleteSecretKey(p, k)
          \/ \E data \in SecretData, m \in Metas \cup {NoMeta} :
                WriteSecret(p, data, m) \/ WriteSecretFails(p, data, m)
    BY DEF TokenNext
  <2>3. CASE DeleteSecret(p)
    BY <2>1, <2>3, Zenon DEF DeleteSecret
  <2>4. CASE DeleteSecretFails(p)
    BY <2>1, <2>4, Zenon DEF DeleteSecretFails
  <2>5. ASSUME NEW k \in Keys, DeleteSecretKey(p, k)
        PROVE  crowded' = (crowded \/ Cardinality(objects') > SearchLimit)
    BY <2>1, <2>5, Zenon DEF DeleteSecretKey
  <2>6. ASSUME NEW data \in SecretData, NEW m \in Metas \cup {NoMeta},
               WriteSecret(p, data, m)
        PROVE  crowded' = (crowded \/ Cardinality(objects') > SearchLimit)
    BY <2>1, <2>6, Zenon DEF WriteSecret
  <2>7. ASSUME NEW data \in SecretData, NEW m \in Metas \cup {NoMeta},
               WriteSecretFails(p, data, m)
        PROVE  crowded' = (crowded \/ Cardinality(objects') > SearchLimit)
    BY <2>1, <2>7, Zenon DEF WriteSecretFails
  <2> QED BY <2>2, <2>3, <2>4, <2>5, <2>6, <2>7, Zenon
<1>2. mishaps' = mishaps \/ (mishaps < MaxMishaps /\ mishaps' = mishaps + 1)
  BY DEF TokenNext, DeleteSecret, DeleteSecretFails, DeleteSecretKey, WriteSecret,
         WriteSecretFails
<1>3. mishaps' \in 0..MaxMishaps
  BY <1>2, TokenConstants DEF TokenTypeOK
<1> QED BY <1>1, <1>3

(* On a token of any size, with any paths and keys: objects are labelled   *)
(* with labels, and until the token first holds more objects than one      *)
(* search of findObjectsPKCS11 returns, no two of them have the same one.  *)
THEOREM TokenTypes == TokenSpec => []TokenTypeOK
<1>1. TokenInit => TokenTypeOK
  <2> SUFFICES ASSUME TokenInit PROVE TokenTypeOK
    OBVIOUS
  <2>1. objects = {} /\ crowded = FALSE /\ mishaps = 0
    BY DEF TokenInit
  <2>2. Cardinality({}) = 0
    BY FS_EmptySet
  <2>3. ~(Cardinality(objects) > SearchLimit) /\ mishaps \in 0..MaxMishaps
    BY <2>1, <2>2, TokenConstants
  <2> QED BY <2>1, <2>3 DEF TokenTypeOK
<1>2. TokenTypeOK /\ [TokenNext]_tokenVars => TokenTypeOK'
  <2> SUFFICES ASSUME TokenTypeOK, [TokenNext]_tokenVars PROVE TokenTypeOK'
    OBVIOUS
  <2>1. CASE TokenNext
    <3>1. objects' \subseteq Objects
      BY <2>1, StepsTouchOnePath DEF TokenTypeOK, Touches
    <3>2. /\ crowded' = (crowded \/ Cardinality(objects') > SearchLimit)
          /\ mishaps' \in 0..MaxMishaps
      BY <2>1, StepsRecordCrowding
    <3>3. ~crowded' => Unique(objects')
      <4>1. ~crowded => Unique(objects) /\ ~(Cardinality(objects) > SearchLimit)
        BY DEF TokenTypeOK, Unique
      <4> QED BY <2>1, <3>2, <4>1, StepsKeepLabelsUnique
    <3>4. crowded' \in BOOLEAN
      BY <3>2 DEF TokenTypeOK
    <3> QED BY <3>1, <3>2, <3>3, <3>4 DEF TokenTypeOK, Unique
  <2>2. CASE UNCHANGED tokenVars
    BY <2>2 DEF tokenVars, TokenTypeOK
  <2> QED BY <2>1, <2>2
<1> QED BY <1>1, <1>2, PTL DEF TokenSpec

(* Locality for every set of paths, keys and values, every search limit    *)
(* and capacity, and every point at which deleteSecretObjectsPKCS11 or     *)
(* WriteSecret may stop: an operation on one path leaves data and metadata *)
(* of every path it is not comparable with as they were.                   *)
THEOREM TokenLocality == TokenSpec => OperationsAreLocal
<1>1. TokenTypeOK /\ [TokenNext]_tokenVars =>
        [\E p \in AdmittedPaths : \A q \in Requests :
          ~Comparable(p, q) =>
              /\ ReadSecret(q, objects') = ReadSecret(q, objects)
              /\ ReadMetadata(q, objects') = ReadMetadata(q, objects)]_tokenVars
  <2> SUFFICES ASSUME TokenTypeOK, TokenNext
               PROVE  \E p \in AdmittedPaths : \A q \in Requests :
                        ~Comparable(p, q) =>
                            /\ ReadSecret(q, objects') = ReadSecret(q, objects)
                            /\ ReadMetadata(q, objects') = ReadMetadata(q, objects)
    OBVIOUS
  <2>1. objects \subseteq Objects
    BY DEF TokenTypeOK
  <2>2. PICK p \in AdmittedPaths : Touches(p)
    BY <2>1, StepsTouchOnePath
  <2>3. p \in Requests
    BY DEF AdmittedPaths
  <2> QED BY <2>1, <2>2, <2>3, TouchingIsLocal
<1> QED BY <1>1, TokenTypes, PTL DEF TokenSpec, OperationsAreLocal
-----------------------------------------------------------------------------
(* Listing *)

(* A set of positions that is not empty has a last one.                    *)
LEMMA LastPosition ==
    ASSUME NEW n \in Nat, NEW S \in SUBSET (1..n), S # {}
    PROVE  Max(S) \in S
<1> DEFINE T == {U \in SUBSET (1..n) : \E x \in S : U = (x + 1)..n}
<1>1. T \subseteq FiniteSubsetsOf(1..n)
  BY FS_FiniteSubsetsOfFinite, FS_Interval
<1>2. T # {}
  <2>1. PICK x \in S : TRUE
    OBVIOUS
  <2>2. (x + 1)..n \subseteq 1..n
    OBVIOUS
  <2> QED BY <2>2
<1>3. IsWellFoundedOn(StrictSubsetOrdering(1..n), FiniteSubsetsOf(1..n))
  BY FS_StrictSubsetOrderingWellFounded
<1>4. PICK B \in T : \A C \in T : ~(<<C, B>> \in StrictSubsetOrdering(1..n))
  <2> HIDE DEF T
  <2> QED BY <1>1, <1>2, <1>3, WFMin
<1>5. PICK x \in S : B = (x + 1)..n
  OBVIOUS
<1>6. ASSUME NEW y \in S, ~(x >= y)
      PROVE  FALSE
  <2>1. /\ (y + 1)..n \in T /\ (y + 1)..n \subseteq (x + 1)..n
        /\ y \in (x + 1)..n /\ y \notin (y + 1)..n
    BY <1>6
  <2>2. <<(y + 1)..n, (x + 1)..n>> \in StrictSubsetOrdering(1..n)
    BY <2>1, <1>5 DEF StrictSubsetOrdering
  <2> QED BY <1>4, <1>5, <2>1, <2>2
<1>7. \E z \in S : \A y \in S : z >= y
  BY <1>6
<1> QED BY <1>7 DEF Max

(* The path that ListSecrets makes of a label is a prefix of the label.    *)
LEMMA PathIsPrefix ==
    ASSUME NEW l \in Labels
    PROVE  PathOf(l) \in Labels /\ IsPrefix(PathOf(l), l)
<1> DEFINE slashes == {i \in 1..Len(l) : l[i] = "/"}
<1>0. Len(l) \in Nat
  BY DEF Labels
<1>1. CASE slashes = {}
  <2>1. PathOf(l) = l
    BY <1>1 DEF PathOf
  <2> QED BY <1>0, <2>1 DEF IsPrefix
<1>2. CASE slashes # {}
  <2>1. PICK n \in 0..(Len(l) - 1) : PathOf(l) = SubSeq(l, 1, n)
    <3>1. Max(slashes) \in slashes
      BY <1>0, <1>2, LastPosition
    <3>2. Max(slashes) \in 1..Len(l)
      BY <3>1
    <3>3. PathOf(l) = SubSeq(l, 1, Max(slashes) - 1)
      BY <1>2 DEF PathOf
    <3> HIDE DEF slashes
    <3> QED BY <1>0, <3>2, <3>3
  <2>2. SubSeq(l, 1, n) \in Labels /\ Len(SubSeq(l, 1, n)) = n
    BY <1>0 DEF Labels
  <2>3. \A i \in 1..n : SubSeq(l, 1, n)[i] = l[i]
    BY <1>0 DEF Labels
  <2>4. SubSeq(SubSeq(l, 1, n), 1, n) = SubSeq(l, 1, n)
    BY <1>0, <2>2, <2>3 DEF Labels
  <2> QED BY <1>0, <2>1, <2>2, <2>4 DEF IsPrefix
<1> QED BY <1>1, <1>2

(* ListSecrets never reports a path that ReadSecret finds nothing under,   *)
(* with any labels on the token and after any failure: the object that was *)
(* listed is one of those the read returns.                                *)
THEOREM ListedPathsCanBeRead == TokenSpec => []ListedPathsAreReadable
<1>1. TokenTypeOK => ListedPathsAreReadable
  <2> SUFFICES ASSUME TokenTypeOK, NEW q \in ListSecrets(<<>>, objects)
               PROVE  ReadSecret(q, objects) # {}
    BY DEF ListedPathsAreReadable
  <2>1. PICK o \in objects : ~IsMetadata(o.label) /\ q = PathOf(o.label)
    BY DEF ListSecrets
  <2>2. o.label \in Labels
    BY DEF TokenTypeOK, Objects
  <2>3. o \in Under(q, objects)
    BY <2>1, <2>2, PathIsPrefix DEF Under
  <2>4. <<KeyOf(q, o.label), o.value>> \in ReadSecret(q, objects)
    BY <2>1, <2>3 DEF ReadSecret
  <2> QED BY <2>4
<1> QED BY <1>1, TokenTypes, PTL
-----------------------------------------------------------------------------
(* The client implements the store *)

(* The label of metadata is recognised as such.                            *)
LEMMA MetadataIsRead ==
    ASSUME NEW p \in Labels
    PROVE  IsMetadata(MetadataLabel(p))
<1>1. /\ "/" \in Symbols /\ "_metadata" \in Symbols
  BY TokenConstants
<1>2. MetadataKeySuffix \in Labels
  BY <1>1 DEF MetadataKeySuffix, Labels
<1>3. Len(MetadataKeySuffix) = 2
  BY DEF MetadataKeySuffix
<1>4. ASSUME NEW s \in Labels, Len(s) = 2
      PROVE  Len(p \o s) >= 2 /\ SubSeq(p \o s, Len(p \o s) - 1, Len(p \o s)) = s
  <2>0. p \o s \in Labels /\ Len(p \o s) = Len(p) + Len(s) /\ Len(p) \in Nat
    BY DEF Labels
  <2>1. Len(p) \in Nat /\ Len(p \o s) = Len(p) + 2 /\ p \o s \in Labels
    BY <1>4, <2>0
  <2>2. SubSeq(p \o s, Len(p) + 1, Len(p) + 2) = s
    BY <1>4, <2>1 DEF Labels
  <2>3. Len(p) + 2 >= 2 /\ (Len(p) + 2) - 1 = Len(p) + 1
    BY <2>1
  <2> QED BY <2>1, <2>2, <2>3
<1> QED BY <1>2, <1>3, <1>4 DEF IsMetadata, MetadataLabel

(* The label tells key and kind: ReadSecret derives from the label of a    *)
(* key that key again, and takes no data for metadata nor the reverse.     *)
LEMMA LabelsAreRead ==
    ASSUME NEW p \in AdmittedPaths
    PROVE  /\ \A k \in Keys : KeyOf(p, LabelOf(p, k)) = k /\ ~IsMetadata(LabelOf(p, k))
           /\ IsMetadata(MetadataLabel(p))
<1>0. /\ p \in Labels /\ Len(p) \in Nat /\ "/" \in Symbols /\ "_metadata" \in Symbols
      /\ p # <<>> /\ Len(p) > 0 /\ p[Len(p)] # "_metadata"
  <2>1. p \in Labels /\ p # <<>> /\ p[Len(p)] # "_metadata"
    BY TokenConstants DEF AdmittedPaths, ValidateSecretPath, Labels
  <2> QED BY <2>1, TokenConstants DEF Labels
<1>m. ASSUME NEW l \in Labels, IsMetadata(l)
      PROVE  l[Len(l)] = "_metadata"
  <2>1. Len(l) \in Nat /\ Len(l) >= 2
    BY <1>m DEF IsMetadata, Labels
  <2>2. SubSeq(l, Len(l) - 1, Len(l))[2] = l[Len(l)]
    BY <2>1 DEF Labels
  <2>3. SubSeq(l, Len(l) - 1, Len(l)) = MetadataKeySuffix
    BY <1>m DEF IsMetadata
  <2>4. MetadataKeySuffix[2] = "_metadata"
    BY DEF MetadataKeySuffix
  <2> QED BY <2>2, <2>3, <2>4
<1>1. ASSUME NEW k \in Keys
      PROVE  KeyOf(p, LabelOf(p, k)) = k /\ ~IsMetadata(LabelOf(p, k))
  <2>0. k \in Labels /\ k # <<>> /\ Len(k) \in Nat /\ Len(k) > 0 /\ k[Len(k)] # "_metadata"
    <3>1. k \in Labels /\ k # <<>> /\ k[Len(k)] # "_metadata"
      BY TokenConstants, KeysAreNames DEF Labels, Last
    <3> QED BY <3>1 DEF Labels
  <2>1. CASE k = DefaultKey
    <3>1. LabelOf(p, k) = p
      BY <2>1 DEF LabelOf
    <3>2. SubSeq(p, Len(p) + 1, Len(p)) = <<>>
      BY <1>0 DEF Labels
    <3>3. KeyOf(p, p) = DefaultKey
      BY <3>2 DEF KeyOf
    <3> QED BY <1>0, <1>m, <2>1, <3>1, <3>3
  <2>2. CASE k # DefaultKey
    <3> DEFINE tail == <<"/">> \o k
               l == p \o tail
    <3>1. LabelOf(p, k) = l
      BY <2>2 DEF LabelOf
    <3>2. tail \in Labels /\ Len(tail) = 1 + Len(k) /\ tail # <<>> /\ Head(tail) = "/"
      BY <1>0, <2>0 DEF Labels
    <3>3. Tail(tail) = k
      BY <1>0, <2>0 DEF Labels
    <3>4. tail[Len(tail)] = k[Len(k)]
      BY <1>0, <2>0 DEF Labels
    <3> HIDE DEF tail
    <3>5. l \in Labels /\ Len(l) = Len(p) + Len(tail)
      BY <1>0, <3>2 DEF Labels
    <3>6. SubSeq(l, Len(p) + 1, Len(l)) = tail
      BY <1>0, <3>2, <3>5 DEF Labels
    <3>7. l[Len(l)] = tail[Len(tail)]
      BY <1>0, <2>0, <3>2, <3>5 DEF Labels
    <3> HIDE DEF l
    <3>8. KeyOf(p, l) = k
      BY <2>0, <3>2, <3>3, <3>6 DEF KeyOf
    <3> QED BY <1>m, <2>0, <3>1, <3>4, <3>5, <3>7, <3>8
  <2> QED BY <2>1, <2>2
<1>2. IsMetadata(MetadataLabel(p))
  BY <1>0, MetadataIsRead
<1> QED BY <1>1, <1>2

(* Every object belongs to a secret at an admitted path.                   *)
Owned(S) ==
    \A o \in S : \E q \in AdmittedPaths :
        o.label = MetadataLabel(q) \/ \E k \in Keys : o.label = LabelOf(q, k)

(* What reads at an isolated path see of a set of objects: those labelled  *)
(* for its keys and for its metadata, one by one.                          *)
LEMMA ReadsByLabel ==
    ASSUME NEW S \in SUBSET Objects, Owned(S), NEW p \in Isolated
    PROVE  /\ \A x : x \in ReadSecret(p, S) <=>
                \E k \in Keys : \E o \in S : o.label = LabelOf(p, k) /\ x = <<k, o.value>>
           /\ \A x : x \in ReadMetadata(p, S) <=>
                \E o \in S : o.label = MetadataLabel(p) /\ x = o.value
<1>0. p \in AdmittedPaths /\ p \in Requests /\ p \in Labels
  BY TokenConstants DEF Isolated, AdmittedPaths, Labels
<1>1. ASSUME NEW o \in S, IsPrefix(p, o.label), ~IsMetadata(o.label)
      PROVE  \E k \in Keys : o.label = LabelOf(p, k) /\ KeyOf(p, o.label) = k
  <2>1. PICK q \in AdmittedPaths :
          o.label = MetadataLabel(q) \/ \E k \in Keys : o.label = LabelOf(q, k)
    BY DEF Owned
  <2>2. q \in Requests /\ q \in Labels /\ o.label \in Labels
    BY TokenConstants DEF AdmittedPaths, Labels, Objects
  <2>3. IsPrefix(q, o.label)
    BY <2>1, <2>2, LabelsHavePrefix
  <2>4. Comparable(p, q)
    BY <1>0, <1>1, <2>2, <2>3, PrefixesAreComparable
  <2>5. q = p
    BY <2>4 DEF Isolated
  <2> QED BY <1>1, <2>1, <2>5, LabelsAreRead
<1>2. ASSUME NEW o \in S, NEW k \in Keys, o.label = LabelOf(p, k)
      PROVE  IsPrefix(p, o.label) /\ ~IsMetadata(o.label) /\ KeyOf(p, o.label) = k
  BY <1>0, <1>2, LabelsHavePrefix, LabelsAreRead
<1>3. \A x : x \in ReadSecret(p, S) <=>
        \E k \in Keys : \E o \in S : o.label = LabelOf(p, k) /\ x = <<k, o.value>>
  <2>1. ASSUME NEW x \in ReadSecret(p, S)
        PROVE  \E k \in Keys : \E o \in S : o.label = LabelOf(p, k) /\ x = <<k, o.value>>
    BY <1>1 DEF ReadSecret, Under
  <2>2. ASSUME NEW k \in Keys, NEW o \in S, o.label = LabelOf(p, k)
        PROVE  <<k, o.value>> \in ReadSecret(p, S)
    BY <1>2, <2>2 DEF ReadSecret, Under
  <2> QED BY <2>1, <2>2
<1>4. IsPrefix(MetadataLabel(p), MetadataLabel(p))
  BY DEF IsPrefix
<1>5. \A x : x \in ReadMetadata(p, S) <=>
        \E o \in S : o.label = MetadataLabel(p) /\ x = o.value
  BY <1>4 DEF ReadMetadata, Under
<1> QED BY <1>3, <1>5

(* Operations create objects of the path they are about, and no others.    *)
LEMMA OwnedByCreation ==
    ASSUME NEW p \in AdmittedPaths, NEW data \in SecretData, NEW m \in Metas \cup {NoMeta}
    PROVE  Owned(CreatedData(p, data) \cup CreatedMetadata(p, m))
BY DEF Owned, CreatedData, CreatedMetadata, Object, SecretData

LEMMA OwnedStep ==
    ASSUME Owned(objects), NEW p \in AdmittedPaths, OperationOn(p)
    PROVE  Owned(objects')
<1>1. CASE objects' \subseteq objects
  BY <1>1 DEF Owned
<1>2. ASSUME NEW data \in SecretData, NEW m \in Metas \cup {NoMeta},
             objects' \subseteq objects \cup (CreatedData(p, data) \cup CreatedMetadata(p, m))
      PROVE  Owned(objects')
  BY <1>2, OwnedByCreation DEF Owned
<1>3. CASE DeleteSecret(p) \/ DeleteSecretFails(p) \/ \E k \in Keys : DeleteSecretKey(p, k)
  BY <1>1, <1>3 DEF DeleteSecret, DeleteSecretFails, DeleteSecretKey, Become
<1>4. ASSUME NEW data \in SecretData, NEW m \in Metas \cup {NoMeta},
             WriteSecret(p, data, m) \/ WriteSecretFails(p, data, m)
      PROVE  objects' \subseteq objects \cup (CreatedData(p, data) \cup CreatedMetadata(p, m))
  BY <1>4 DEF WriteSecret, WriteSecretFails, Become
<1> QED BY <1>2, <1>3, <1>4 DEF OperationOn
(* Until the token is too crowded, the search of an operation sees all of  *)
(* it.                                                                     *)
LEMMA WholeTokenSeen ==
    ASSUME TokenTypeOK, NEW new, Become(new), ~crowded'
    PROVE  /\ Unique(objects) /\ objects' = new
           /\ \A found \in FindObjects : found = objects
<1>1. ~crowded
  BY Zenon DEF Become
<1>2. ~(Cardinality(objects) > SearchLimit) /\ Unique(objects)
  BY <1>1 DEF TokenTypeOK, Unique
<1> QED BY <1>2, SearchesAreSound DEF Become

(* Isolated paths are not comparable: an operation on one changes what the *)
(* store has at that path, and nothing else.                               *)
LEMMA OnePathChanges ==
    ASSUME objects \subseteq Objects, NEW p \in Isolated, Touches(p)
    PROVE  /\ [q \in Isolated |-> ReadSecret(q, objects')]
                = [[q \in Isolated |-> ReadSecret(q, objects)]
                     EXCEPT ![p] = ReadSecret(p, objects')]
           /\ [q \in Isolated |-> MetadataAt(q)']
                = [[q \in Isolated |-> MetadataAt(q)] EXCEPT ![p] = MetadataAt(p)']
<1>1. ASSUME NEW q \in Isolated, q # p
      PROVE  /\ ReadSecret(q, objects') = ReadSecret(q, objects)
             /\ ReadMetadata(q, objects') = ReadMetadata(q, objects)
             /\ MetadataAt(q)' = MetadataAt(q)
  <2>1. p \in Requests /\ q \in Requests /\ ~Comparable(p, q)
    BY <1>1 DEF Isolated, AdmittedPaths
  <2>2. /\ ReadSecret(q, objects') = ReadSecret(q, objects)
        /\ ReadMetadata(q, objects') = ReadMetadata(q, objects)
    BY <2>1, TouchingIsLocal
  <2> QED BY <2>2 DEF MetadataAt
<1> QED BY <1>1

(* Destruction without creation leaves part of the data, and the metadata  *)
(* or none.                                                                *)
LEMMA ReadsAfterDestruction ==
    ASSUME NEW p \in Isolated, objects \subseteq Objects, Owned(objects), Unique(objects),
           objects' \subseteq objects
    PROVE  /\ ReadSecret(p, objects') \subseteq ReadSecret(p, objects)
           /\ MetadataAt(p)' \in {MetadataAt(p), NoMeta}
<1>0. objects \in SUBSET Objects /\ objects' \in SUBSET Objects /\ Owned(objects')
  BY DEF Owned
<1>1. ReadSecret(p, objects') \subseteq ReadSecret(p, objects)
  BY <1>0, ReadsByLabel
<1>2. ReadMetadata(p, objects') = {} \/ ReadMetadata(p, objects') = ReadMetadata(p, objects)
  <2>1. \A S \in SUBSET Objects : Owned(S) =>
          \A x : x \in ReadMetadata(p, S) <=>
                   \E o \in S : o.label = MetadataLabel(p) /\ x = o.value
    BY ReadsByLabel
  <2>2. SUFFICES ASSUME NEW y \in ReadMetadata(p, objects')
                 PROVE  ReadMetadata(p, objects') = ReadMetadata(p, objects)
    OBVIOUS
  <2>3. PICK o \in objects' : o.label = MetadataLabel(p) /\ y = o.value
    BY <1>0, <2>1
  <2>4. \A u \in objects : u.label = MetadataLabel(p) => u = o
    BY <2>3 DEF Unique
  <2>5. \A x : x \in ReadMetadata(p, objects) <=> x = o.value
    BY <1>0, <2>1, <2>3, <2>4
  <2>6. \A x : x \in ReadMetadata(p, objects') <=> x = o.value
    BY <1>0, <2>1, <2>3, <2>4
  <2> QED BY <2>5, <2>6
<1> QED BY <1>1, <1>2 DEF MetadataAt

(* Creation after complete destruction: the path reads as the objects that *)
(* were made, of which all the data may be there, or a part.               *)
LEMMA ReadsAfterCreation ==
    ASSUME NEW p \in Isolated, objects \subseteq Objects, Owned(objects),
           NEW data \in SecretData, NEW m \in Metas \cup {NoMeta},
           NEW made \in SUBSET CreatedData(p, data), NEW meta \in SUBSET CreatedMetadata(p, m),
           objects' = (objects \ Under(p, objects)) \cup made \cup meta
    PROVE  /\ ReadSecret(p, objects')
                = {kv \in data : Object(LabelOf(p, kv[1]), kv[2]) \in made}
           /\ MetadataAt(p)' = IF meta = {} THEN NoMeta ELSE m
<1>0. p \in AdmittedPaths /\ p \in Requests
  BY DEF Isolated, AdmittedPaths
<1>1. \A o \in made \cup meta : o \in Objects
  BY <1>0, CreatedHavePrefix
<1>2. objects' \in SUBSET Objects
  BY <1>1
<1>3. Owned(objects')
  BY <1>0, OwnedByCreation DEF Owned
<1>4. ASSUME NEW o \in made
      PROVE  \E kv \in data : /\ kv[1] \in Keys /\ kv = <<kv[1], kv[2]>>
                              /\ o = Object(LabelOf(p, kv[1]), kv[2])
                              /\ o.label = LabelOf(p, kv[1]) /\ o.value = kv[2]
  BY DEF CreatedData, SecretData, Object
<1>5. ASSUME NEW o \in meta
      PROVE  o.label = MetadataLabel(p) /\ o.value = m
  BY DEF CreatedMetadata, Object
<1>6. ASSUME NEW o \in objects', IsPrefix(p, o.label)
      PROVE  o \in made \/ o \in meta
  BY <1>6 DEF Under
<1>7. \A x : x \in ReadSecret(p, objects') <=>
               x \in data /\ Object(LabelOf(p, x[1]), x[2]) \in made
  <2>1. ASSUME NEW x \in ReadSecret(p, objects')
        PROVE  x \in data /\ Object(LabelOf(p, x[1]), x[2]) \in made
    <3>1. PICK k \in Keys : \E o \in objects' : o.label = LabelOf(p, k) /\ x = <<k, o.value>>
      BY <1>2, <1>3, ReadsByLabel
    <3>2. PICK o \in objects' : o.label = LabelOf(p, k) /\ x = <<k, o.value>>
      BY <3>1
    <3>3. o \in made
      BY <1>0, <1>5, <1>6, <3>2, LabelsHavePrefix, LabelsDiffer
    <3>4. PICK kv \in data : /\ kv[1] \in Keys /\ kv = <<kv[1], kv[2]>>
                             /\ o = Object(LabelOf(p, kv[1]), kv[2])
                             /\ o.label = LabelOf(p, kv[1]) /\ o.value = kv[2]
      BY <1>4, <3>3
    <3>5. kv[1] = k
      BY <1>0, <3>2, <3>4, LabelsDiffer
    <3>6. x = kv
      BY <3>2, <3>4, <3>5
    <3> QED BY <3>3, <3>4, <3>6
  <2>2. ASSUME NEW x \in data, Object(LabelOf(p, x[1]), x[2]) \in made
        PROVE  x \in ReadSecret(p, objects')
    <3> DEFINE o == Object(LabelOf(p, x[1]), x[2])
    <3>1. x[1] \in Keys /\ x = <<x[1], x[2]>>
      BY DEF SecretData
    <3>2. o \in objects' /\ o.label = LabelOf(p, x[1]) /\ o.value = x[2]
      BY <2>2 DEF Object
    <3> HIDE DEF o
    <3> QED BY <1>2, <1>3, <3>1, <3>2, ReadsByLabel
  <2> QED BY <2>1, <2>2
<1>8. \A x : x \in ReadMetadata(p, objects') <=> meta # {} /\ x = m
  <2>1. \A x : x \in ReadMetadata(p, objects') <=>
          \E o \in objects' : o.label = MetadataLabel(p) /\ x = o.value
    BY <1>2, <1>3, ReadsByLabel
  <2>2. ASSUME NEW o \in objects', o.label = MetadataLabel(p)
        PROVE  o \in meta
    <3>1. o \in made \/ o \in meta
      BY <1>0, <1>6, <2>2, LabelsHavePrefix
    <3> QED BY <1>0, <1>4, <2>2, <3>1, LabelsDiffer
  <2> QED BY <1>5, <2>1, <2>2
<1>9. MetadataAt(p)' = IF meta = {} THEN NoMeta ELSE m
  <2>1. CASE meta = {}
    <3>1. ReadMetadata(p, objects') = {}
      BY <1>8, <2>1
    <3> QED BY <2>1, <3>1 DEF MetadataAt
  <2>2. CASE meta # {}
    <3>1. ReadMetadata(p, objects') = {m}
      BY <1>8, <2>2
    <3>2. MetadataAt(p)' = CHOOSE x \in {m} : TRUE
      BY <3>1 DEF MetadataAt
    <3> QED BY <2>2, <3>2
  <2> QED BY <2>1, <2>2
<1> QED BY <1>7, <1>9
(* The five operations, each as an operation of the store.                 *)
LEMMA DeletesAsStore ==
    ASSUME TokenTypeOK, Owned(objects), ~crowded', NEW p \in Isolated, DeleteSecret(p)
    PROVE  Store!StoreDelete(p)
<1>0. objects \subseteq Objects /\ p \in AdmittedPaths
  BY DEF TokenTypeOK, Isolated
<1>1. objects' = objects \ Under(p, objects)
  BY WholeTokenSeen DEF DeleteSecret, DeleteSecretObjects
<1>2. Touches(p)
  BY <1>0, OperationsTouchOnePath DEF OperationOn
<1>3. Under(p, objects') = {}
  BY <1>1 DEF Under
<1>4. ReadSecret(p, objects') = {}
  BY <1>3 DEF ReadSecret
<1>5. ReadMetadata(p, objects') = {}
  <2>1. IsPrefix(p, MetadataLabel(p))
    BY <1>0, LabelsHavePrefix DEF AdmittedPaths
  <2> QED BY <1>3, <2>1 DEF ReadMetadata, Under
<1>6. MetadataAt(p)' = NoMeta
  BY <1>5 DEF MetadataAt
<1> QED BY <1>0, <1>2, <1>4, <1>6, OnePathChanges DEF Store!StoreDelete

LEMMA DeletesKeyAsStore ==
    ASSUME TokenTypeOK, Owned(objects), ~crowded', NEW p \in Isolated, NEW k \in Keys,
           DeleteSecretKey(p, k)
    PROVE  Store!StoreDeleteKey(p, k)
<1>0. objects \in SUBSET Objects /\ p \in AdmittedPaths /\ p \in Requests
  BY DEF TokenTypeOK, Isolated, AdmittedPaths
<1>1. PICK o \in objects : o.label = LabelOf(p, k) /\ Become(objects \ {o})
  BY DEF DeleteSecretKey
<1>2. objects' = objects \ {o} /\ Unique(objects)
  BY <1>1, WholeTokenSeen
<1>3. Touches(p)
  BY <1>0, OperationsTouchOnePath DEF OperationOn
<1>4. objects' \in SUBSET Objects /\ Owned(objects')
  BY <1>0, <1>2 DEF Owned
<1>5. \A S \in SUBSET Objects : Owned(S) =>
        /\ \A x : x \in ReadSecret(p, S) <=>
             \E j \in Keys : \E u \in S : u.label = LabelOf(p, j) /\ x = <<j, u.value>>
        /\ \A x : x \in ReadMetadata(p, S) <=>
             \E u \in S : u.label = MetadataLabel(p) /\ x = u.value
  BY ReadsByLabel
<1>6. ASSUME NEW j \in Keys, NEW u \in objects, u.label = LabelOf(p, j)
      PROVE  u \in objects' <=> j # k
  <2>1. u = o <=> j = k
    BY <1>0, <1>1, <1>2, <1>6, LabelsDiffer DEF Unique
  <2> QED BY <1>2, <2>1
<1>7. \A x : x \in ReadSecret(p, objects') <=> x \in ReadSecret(p, objects) /\ x[1] # k
  <2>1. ASSUME NEW x \in ReadSecret(p, objects')
        PROVE  x \in ReadSecret(p, objects) /\ x[1] # k
    <3>1. PICK j \in Keys : \E u \in objects' : u.label = LabelOf(p, j) /\ x = <<j, u.value>>
      BY <1>4, <1>5
    <3>2. PICK u \in objects' : u.label = LabelOf(p, j) /\ x = <<j, u.value>>
      BY <3>1
    <3> QED BY <1>0, <1>2, <1>5, <1>6, <3>2
  <2>2. ASSUME NEW x \in ReadSecret(p, objects), x[1] # k
        PROVE  x \in ReadSecret(p, objects')
    <3>1. PICK j \in Keys : \E u \in objects : u.label = LabelOf(p, j) /\ x = <<j, u.value>>
      BY <1>0, <1>5
    <3>2. PICK u \in objects : u.label = LabelOf(p, j) /\ x = <<j, u.value>>
      BY <3>1
    <3>3. u \in objects'
      BY <1>6, <2>2, <3>2
    <3> QED BY <1>4, <1>5, <3>2, <3>3
  <2> QED BY <2>1, <2>2
<1>8. ReadMetadata(p, objects') = ReadMetadata(p, objects)
  <2>1. \A u \in objects : u.label = MetadataLabel(p) => u \in objects'
    BY <1>0, <1>1, <1>2, LabelsDiffer
  <2>2. \A x : x \in ReadMetadata(p, objects) <=>
          \E u \in objects : u.label = MetadataLabel(p) /\ x = u.value
    BY <1>0, <1>5
  <2>3. \A x : x \in ReadMetadata(p, objects') <=>
          \E u \in objects' : u.label = MetadataLabel(p) /\ x = u.value
    BY <1>4, <1>5
  <2>4. \A x : x \in ReadMetadata(p, objects') <=> x \in ReadMetadata(p, objects)
    BY <1>2, <2>1, <2>2, <2>3
  <2> QED BY <2>4
<1>9. MetadataAt(p)' = MetadataAt(p)
  BY <1>8 DEF MetadataAt
<1>10. ReadSecret(p, objects') = {kv \in ReadSecret(p, objects) : kv[1] # k}
  BY <1>7
<1>11. [q \in Isolated |-> MetadataAt(q)'] = [q \in Isolated |-> MetadataAt(q)]
  BY <1>0, <1>3, <1>9, OnePathChanges
<1> QED BY <1>0, <1>3, <1>10, <1>11, OnePathChanges DEF Store!StoreDeleteKey

LEMMA WritesAsStore ==
    ASSUME TokenTypeOK, Owned(objects), ~crowded', NEW p \in Isolated,
           NEW data \in SecretData, NEW m \in Metas \cup {NoMeta}, WriteSecret(p, data, m)
    PROVE  Store!StoreWrite(p, data, m)
<1>0. objects \subseteq Objects /\ p \in AdmittedPaths
  BY DEF TokenTypeOK, Isolated
<1>1. objects' = (objects \ Under(p, objects)) \cup CreatedData(p, data) \cup CreatedMetadata(p, m)
  BY WholeTokenSeen DEF WriteSecret, DeleteSecretObjects
<1>2. Touches(p)
  BY <1>0, OperationsTouchOnePath DEF OperationOn
<1>3. /\ ReadSecret(p, objects')
           = {kv \in data : Object(LabelOf(p, kv[1]), kv[2]) \in CreatedData(p, data)}
      /\ MetadataAt(p)' = IF CreatedMetadata(p, m) = {} THEN NoMeta ELSE m
  BY <1>0, <1>1, ReadsAfterCreation, ZenonT(30)
<1>4. ReadSecret(p, objects') = data
  BY <1>3 DEF CreatedData
<1>5. MetadataAt(p)' = m
  BY <1>3 DEF CreatedMetadata
<1> QED BY <1>0, <1>2, <1>4, <1>5, OnePathChanges DEF Store!StoreWrite

LEMMA FailsAsStore ==
    ASSUME TokenTypeOK, Owned(objects), ~crowded', NEW p \in Isolated
    PROVE  /\ DeleteSecretFails(p) => Store!StoreFail(p, {}, NoMeta)
           /\ \A data \in SecretData, m \in Metas \cup {NoMeta} :
                WriteSecretFails(p, data, m) => Store!StoreFail(p, data, m)
<1>0. objects \subseteq Objects /\ p \in AdmittedPaths
  BY DEF TokenTypeOK, Isolated
<1>1. ASSUME NEW data, NEW m, Touches(p),
             ReadSecret(p, objects') \in (SUBSET ReadSecret(p, objects)) \cup (SUBSET data),
             MetadataAt(p)' \in {MetadataAt(p), NoMeta, m}
      PROVE  Store!StoreFail(p, data, m)
  BY <1>0, <1>1, OnePathChanges DEF Store!StoreFail
<1>2. ASSUME DeleteSecretFails(p)
      PROVE  Store!StoreFail(p, {}, NoMeta)
  <2>1. objects' \subseteq objects /\ Unique(objects)
    BY <1>2, WholeTokenSeen DEF DeleteSecretFails
  <2>2. Touches(p)
    BY <1>0, <1>2, OperationsTouchOnePath DEF OperationOn
  <2> QED BY <1>0, <1>1, <2>1, <2>2, ReadsAfterDestruction
<1>3. ASSUME NEW data \in SecretData, NEW m \in Metas \cup {NoMeta},
             WriteSecretFails(p, data, m)
      PROVE  Store!StoreFail(p, data, m)
  <2>1. Touches(p)
    BY <1>0, <1>3, OperationsTouchOnePath DEF OperationOn
  <2>2. PICK found, new :
          /\ found \in FindObjects /\ Become(new)
          /\ \/ \E gone \in SUBSET Under(p, found) : new = objects \ gone
             \/ \E made \in SUBSET CreatedData(p, data) :
                  new = (objects \ Under(p, found)) \cup made
    BY <1>3 DEF WriteSecretFails, DeleteSecretObjects
  <2>3. found = objects /\ objects' = new /\ Unique(objects)
    BY <2>2, WholeTokenSeen
  <2>4. CASE objects' \subseteq objects
    BY <1>0, <1>1, <2>1, <2>3, <2>4, ReadsAfterDestruction
  <2>5. ASSUME NEW made \in SUBSET CreatedData(p, data),
               objects' = (objects \ Under(p, objects)) \cup made
        PROVE  Store!StoreFail(p, data, m)
    <3>1. PICK meta \in SUBSET CreatedMetadata(p, m) : meta = {}
      OBVIOUS
    <3>2. objects' = (objects \ Under(p, objects)) \cup made \cup meta
      BY <2>5, <3>1
    <3>3. /\ ReadSecret(p, objects')
               = {kv \in data : Object(LabelOf(p, kv[1]), kv[2]) \in made}
          /\ MetadataAt(p)' = IF meta = {} THEN NoMeta ELSE m
      BY <1>0, <3>2, ReadsAfterCreation
    <3>4. ReadSecret(p, objects') \in (SUBSET ReadSecret(p, objects)) \cup (SUBSET data)
      <4>1. \A x \in ReadSecret(p, objects') : x \in data
        BY <3>3
      <4>2. ReadSecret(p, objects') \in SUBSET data
        BY <4>1
      <4> QED BY <4>2
    <3>5. MetadataAt(p)' \in {MetadataAt(p), NoMeta, m}
      BY <3>1, <3>3
    <3> QED BY <1>1, <2>1, <3>4, <3>5
  <2>6. objects' \subseteq objects
        \/ \E made \in SUBSET CreatedData(p, data) :
             objects' = (objects \ Under(p, objects)) \cup made
    BY <2>2, <2>3
  <2> QED BY <2>4, <2>5, <2>6
<1> QED BY <1>2, <1>3

(* The PKCS#11 client implements the map of the MockClient on isolated     *)
(* paths, operation by operation and failures included, for every set of   *)
(* paths, keys, values and metadata and every size of the token, as long   *)
(* as one search of findObjectsPKCS11 sees the whole token.                *)
THEOREM ClientActsAsStore == TokenSpec => ActsAsStore
<1>1. TokenInit => Owned(objects) /\ Store!StoreInit
  <2> SUFFICES ASSUME TokenInit PROVE Owned(objects) /\ Store!StoreInit
    OBVIOUS
  <2>1. objects = {}
    BY DEF TokenInit
  <2>2. \A p \in Isolated : ReadSecret(p, objects) = {} /\ ReadMetadata(p, objects) = {}
    BY <2>1 DEF ReadSecret, ReadMetadata, Under
  <2>3. \A p \in Isolated : MetadataAt(p) = NoMeta
    BY <2>2 DEF MetadataAt
  <2> QED BY <2>1, <2>2, <2>3 DEF Owned, Store!StoreInit
<1>2. Owned(objects) /\ [TokenNext]_tokenVars => Owned(objects)'
  <2>1. CASE TokenNext
    BY <2>1, OwnedStep DEF TokenNext, OperationOn
  <2>2. CASE UNCHANGED tokenVars
    BY <2>2 DEF tokenVars, Owned
  <2> QED BY <2>1, <2>2
<1> DEFINE Step == ~crowded' => \A p \in Isolated :
             /\ DeleteSecret(p) => Store!StoreDelete(p)
             /\ DeleteSecretFails(p) => Store!StoreFail(p, {}, NoMeta)
             /\ \A k \in Keys : DeleteSecretKey(p, k) => Store!StoreDeleteKey(p, k)
             /\ \A data \in SecretData, m \in Metas \cup {NoMeta} :
                   /\ WriteSecret(p, data, m) => Store!StoreWrite(p, data, m)
                   /\ WriteSecretFails(p, data, m) => Store!StoreFail(p, data, m)
<1>3. TokenTypeOK /\ Owned(objects) /\ [TokenNext]_tokenVars => [Step]_tokenVars
  BY DeletesAsStore, DeletesKeyAsStore, WritesAsStore, FailsAsStore
<1> QED BY <1>1, <1>2, <1>3, TokenTypes, PTL DEF TokenSpec, ActsAsStore
=============================================================================
