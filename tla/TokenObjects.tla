---------------------------- MODULE TokenObjects ---------------------------
(***************************************************************************)
(* How the PKCS#11 client keeps secrets on a token (internal/hsm,          *)
(* pkcs11_client.go and pkcs11_cgo.go), behind the path check of the       *)
(* agent's gRPC interceptor (internal/security/validation.go).             *)
(*                                                                         *)
(* A token holds data objects, each with a label and a value.  The secret  *)
(* at path p is spread over the objects labelled p (the key "data"), p/k   *)
(* (any other key k) and p/_metadata.  There is no directory: every        *)
(* operation searches all objects, at most SearchLimit of them, and keeps  *)
(* those whose label starts with the path.                                 *)
(*                                                                         *)
(* Paths, keys and labels are sequences of symbols.  A symbol is a run of  *)
(* characters: "/", the word "_metadata", the word "data", or any other.   *)
(* The client holds its mutex over a whole operation and one agent serves  *)
(* a token, so an operation is one step; a failing PKCS#11 call or the end *)
(* of the process makes it stop part-way.                                  *)
(***************************************************************************)
EXTENDS Naturals, FiniteSets, Sequences, SequencesExt

CONSTANTS Symbols,      \* runs of characters
          Requests,     \* the paths that requests name
          Keys,         \* the keys of secret data
          Values,       \* values of data objects
          Metas,        \* serialised metadata
          NoMeta,       \* no metadata in the request, or none on the token
          SearchLimit,  \* objects one search returns: 100
          Capacity,     \* objects the token has room for
          MaxMishaps    \* bound: operations that fail part-way

ASSUME TokenConstants ==
    /\ {"/", "_metadata", "data"} \subseteq Symbols
    /\ Requests \subseteq Seq(Symbols)
    /\ Keys \subseteq Seq(Symbols)
    /\ SearchLimit \in Nat
    /\ Capacity \in Nat
    /\ MaxMishaps \in Nat

(* Nothing on the agent's side refuses a key: the interceptor's check of   *)
(* secret data asks for method types the generated messages do not have.   *)
(* The keys modelled are those that check would let through.               *)
ASSUME KeysAreNames ==
    \A k \in Keys : k # <<>> /\ Head(k) # "/" /\ Last(k) # "_metadata"

ASSUME NoMetaIsNone == NoMeta \notin Metas

VARIABLES objects,      \* the data objects of the token
          crowded,      \* history: the token once held more than one search returns
          mishaps       \* operations that failed so far

tokenVars == <<objects, crowded, mishaps>>

DefaultKey == <<"data">>
MetadataKeySuffix == <<"/", "_metadata">>

Labels == Seq(Symbols)

(* Two objects with one label and one value are taken as one: they can     *)
(* only be made on a token more crowded than a search can see.             *)
Objects == [label : Labels, value : Values \cup Metas]

Object(label, value) == [label |-> label, value |-> value]

-----------------------------------------------------------------------------
(* Mutant: the reserved suffix is admitted.                                *)
ValidateSecretPathOnly(p) ==
    /\ p # <<>>
    /\ p[1] # "/"
    /\ p[Len(p)] # "/"

(* ValidateSecretPath; the admissible characters are those of Symbols.     *)
ValidateSecretPath(p) ==
    /\ p # <<>>
    /\ p[1] # "/"
    /\ p[Len(p)] \notin {"/", "_metadata"}
    /\ \A i \in 1..(Len(p) - 1) : ~(p[i] = "/" /\ p[i + 1] = "/")

AdmittedPaths == {p \in Requests : ValidateSecretPath(p)}

LabelOf(p, k) == IF k = DefaultKey THEN p ELSE p \o (<<"/">> \o k)

MetadataLabel(p) == p \o MetadataKeySuffix

IsMetadata(label) ==
    /\ Len(label) >= 2
    /\ SubSeq(label, Len(label) - 1, Len(label)) = MetadataKeySuffix

(* The key ReadSecret derives from a label with prefix p.                  *)
KeyOf(p, label) ==
    LET rest == SubSeq(label, Len(p) + 1, Len(label))
        key == IF rest # <<>> /\ Head(rest) = "/" THEN Tail(rest) ELSE rest
    IN IF key = <<>> THEN DefaultKey ELSE key

(* The results one search may return: FindObjects on any data object.      *)
FindObjects ==
    IF Cardinality(objects) > SearchLimit
    THEN {found \in SUBSET objects : Cardinality(found) = SearchLimit}
    ELSE {objects}

(* findObjectsPKCS11 after its filter                                      *)
Under(p, found) == {o \in found : IsPrefix(p, o.label)}

(* ReadSecret: the <<key, value>> pairs of one search.  Where two labels   *)
(* yield one key the code keeps either value.                              *)
ReadSecret(p, found) ==
    {<<KeyOf(p, o.label), o.value>> :
        o \in {u \in Under(p, found) : ~IsMetadata(u.label)}}

ReadMetadata(p, found) ==
    {o.value : o \in {u \in Under(MetadataLabel(p), found) :
                          u.label = MetadataLabel(p)}}

(* The path ListSecrets makes of a label: all but its last "/"-part.       *)
PathOf(label) ==
    LET slashes == {i \in 1..Len(label) : label[i] = "/"}
    IN IF slashes = {} THEN label
       ELSE SubSeq(label, 1, Max(slashes) - 1)

(* Mutant: metadata objects are listed like any other.                     *)
ListSecretsAll(prefix, found) ==
    {PathOf(o.label) : o \in {u \in found : IsPrefix(prefix, PathOf(u.label))}}

ListSecrets(prefix, found) ==
    {PathOf(o.label) : o \in {u \in found : /\ ~IsMetadata(u.label)
                                            /\ IsPrefix(prefix, PathOf(u.label))}}
-----------------------------------------------------------------------------
TokenInit == objects = {} /\ crowded = FALSE /\ mishaps = 0

(* What every change of the token comes to.  Objects that find no room are *)
(* not created: such a write is one that fails.                            *)
Become(new) ==
    /\ Cardinality(new) <= Capacity
    /\ objects' = new
    /\ crowded' = (crowded \/ Cardinality(new) > SearchLimit)

(* Mutant: only the object with the path as its label is replaced.         *)
DeletedExactly(p, found) == {o \in found : o.label = p}

(* Mutant: the whole directory of the path is taken.                       *)
DeletedDirectory(p, found) == Under(PathOf(p), found)

(* deleteSecretObjectsPKCS11: what the search collects for destruction     *)
DeleteSecretObjects(p, found) == Under(p, found)

CreatedData(p, data) == {Object(LabelOf(p, kv[1]), kv[2]) : kv \in data}

CreatedMetadata(p, m) == IF m = NoMeta THEN {} ELSE {Object(MetadataLabel(p), m)}

(* SecretData: at most one value per key, and at least one key             *)
SecretData ==
    {data \in SUBSET (Keys \X Values) :
        data # {} /\ \A x, y \in data : x[1] = y[1] => x = y}

WriteSecret(p, data, m) ==
    /\ \E found \in FindObjects :
          Become((objects \ DeleteSecretObjects(p, found))
                     \cup CreatedData(p, data) \cup CreatedMetadata(p, m))
    /\ UNCHANGED mishaps

(* Some destruction fails (the others are still tried) and nothing is      *)
(* created; or creation stops before the last object.  Metadata comes last.*)
WriteSecretFails(p, data, m) ==
    /\ mishaps < MaxMishaps
    /\ mishaps' = mishaps + 1
    /\ \E found \in FindObjects :
          LET doomed == DeleteSecretObjects(p, found)
              wanted == CreatedData(p, data)
          IN \/ \E gone \in SUBSET doomed : Become(objects \ gone)
             \/ \E made \in SUBSET wanted :
                   /\ made = wanted => m # NoMeta
                   /\ Become((objects \ doomed) \cup made)

DeleteSecret(p) ==
    /\ \E found \in FindObjects : Become(objects \ DeleteSecretObjects(p, found))
    /\ UNCHANGED mishaps

DeleteSecretFails(p) ==
    /\ mishaps < MaxMishaps
    /\ mishaps' = mishaps + 1
    /\ \E found \in FindObjects :
          \E gone \in SUBSET DeleteSecretObjects(p, found) :
             Become(objects \ gone)

(* deleteSecretKeyPKCS11 searches for the label itself, one object at      *)
(* most; without it the call fails and changes nothing.                    *)
DeleteSecretKey(p, k) ==
    /\ \E o \in objects : o.label = LabelOf(p, k) /\ Become(objects \ {o})
    /\ UNCHANGED mishaps

TokenNext ==
    \E p \in AdmittedPaths :
        \/ DeleteSecret(p) \/ DeleteSecretFails(p)
        \/ \E k \in Keys : DeleteSecretKey(p, k)
        \/ \E data \in SecretData, m \in Metas \cup {NoMeta} :
              WriteSecret(p, data, m) \/ WriteSecretFails(p, data, m)

TokenSpec == TokenInit /\ [][TokenNext]_tokenVars
-----------------------------------------------------------------------------
(* Type correctness, and the reason WriteSecret deletes before it creates: *)
(* "to avoid duplicates".  As long as one search sees the whole token, no  *)
(* two objects ever carry the same label, failed writes included, so that  *)
(* a key has one value and a secret one version.                           *)
TokenTypeOK ==
    /\ objects \subseteq Objects
    /\ crowded \in BOOLEAN
    /\ mishaps \in 0..MaxMishaps
    /\ Cardinality(objects) > SearchLimit => crowded
    /\ ~crowded => \A o, u \in objects : o.label = u.label => o = u

Comparable(p, q) == IsPrefix(p, q) \/ IsPrefix(q, p)

(* An operation leaves every other secret alone, data and metadata, unless *)
(* one of the two paths is a prefix of the other, as strings: there is a   *)
(* path such that every path not comparable with it reads as before.  This *)
(* holds however full the token is and wherever the operation stopped.     *)
OperationsAreLocal ==
    [][\E p \in AdmittedPaths : \A q \in Requests :
          ~Comparable(p, q) =>
              /\ ReadSecret(q, objects') = ReadSecret(q, objects)
              /\ ReadMetadata(q, objects') = ReadMetadata(q, objects)]_tokenVars

(* The paths no other admitted path extends or is a prefix of.             *)
Isolated ==
    {p \in AdmittedPaths : \A q \in AdmittedPaths \ {p} : ~Comparable(p, q)}

MetadataAt(p) ==
    IF ReadMetadata(p, objects) = {} THEN NoMeta
    ELSE CHOOSE m \in ReadMetadata(p, objects) : TRUE

Store == INSTANCE SecretStore WITH
             Paths <- Isolated,
             secrets <- [p \in Isolated |-> ReadSecret(p, objects)],
             metadata <- [p \in Isolated |-> MetadataAt(p)]

(* On isolated paths, and as long as one search sees the whole token, the  *)
(* PKCS#11 client is the map of the MockClient, operation by operation:    *)
(* after a write that was acknowledged the path reads as exactly the data  *)
(* and metadata of the request, key for key, and a failed operation leaves *)
(* a part of the old or of the new secret.  (That other paths are left     *)
(* alone is part of it too: the store's operations change one path.)       *)
ActsAsStore ==
    /\ Store!StoreInit
    /\ [][~crowded' => \A p \in Isolated :
            /\ DeleteSecret(p) => Store!StoreDelete(p)
            /\ DeleteSecretFails(p) => Store!StoreFail(p, {}, NoMeta)
            /\ \A k \in Keys : DeleteSecretKey(p, k) => Store!StoreDeleteKey(p, k)
            /\ \A data \in SecretData, m \in Metas \cup {NoMeta} :
                  /\ WriteSecret(p, data, m) => Store!StoreWrite(p, data, m)
                  /\ WriteSecretFails(p, data, m) => Store!StoreFail(p, data, m)]_tokenVars

(* Every path ListSecrets reports can be read, whatever operation failed   *)
(* on the way: the mirror sweep and the API list first and read each path  *)
(* they were given, so that a listed path without data would be an error   *)
(* on every sweep.                                                         *)
ListedPathsAreReadable ==
    \A q \in ListSecrets(<<>>, objects) : ReadSecret(q, objects) # {}

(* Does not hold: a secret that can be read is listed under its own path.  *)
(* The object of the key "data" is labelled with the path itself, so the   *)
(* path a/b is listed as a.                                                *)
SecretsAreListed ==
    \A p \in Isolated :
        ReadSecret(p, objects) # {} => p \in ListSecrets(<<>>, objects)
=============================================================================
