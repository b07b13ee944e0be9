---------------------------- MODULE SecretStore ----------------------------
(***************************************************************************)
(* What an hsm.Client promises to its callers: a map from paths to secret  *)
(* data and a map from paths to metadata, changed one path at a time.  The *)
(* in-memory MockClient, against which the callers are tested, is this map *)
(* itself.  A secret is the set of its <<key, value>> pairs; {} stands for *)
(* an absent secret and for one without keys, which no reader can use.     *)
(*                                                                         *)
(* Beyond the mock, an operation may fail part-way, since the hardware     *)
(* client cannot undo what it has done: the path it was about then holds   *)
(* part of the old or part of the new data, and other paths are untouched. *)
(***************************************************************************)
CONSTANTS Paths, NoMeta

VARIABLES secrets, metadata

(* NewMockClient *)
StoreInit ==
    /\ secrets = [p \in Paths |-> {}]
    /\ metadata = [p \in Paths |-> NoMeta]

(* Without metadata in the request the mock keeps what it has and the      *)
(* hardware client forgets it: a caller may rely on neither.               *)
StoreWrite(p, data, m) ==
    /\ secrets' = [secrets EXCEPT ![p] = data]
    /\ \E n \in IF m = NoMeta THEN {NoMeta, metadata[p]} ELSE {m} :
          metadata' = [metadata EXCEPT ![p] = n]

StoreDelete(p) ==
    /\ secrets' = [secrets EXCEPT ![p] = {}]
    /\ metadata' = [metadata EXCEPT ![p] = NoMeta]

StoreDeleteKey(p, k) ==
    /\ secrets' = [secrets EXCEPT ![p] = {kv \in @ : kv[1] # k}]
    /\ UNCHANGED metadata

(* A write that failed at some point, or (with data = {}) a deletion: once *)
(* something new is there, all of the old data is gone.                    *)
StoreFail(p, data, m) ==
    /\ \E rest \in (SUBSET secrets[p]) \cup (SUBSET data) :
          secrets' = [secrets EXCEPT ![p] = rest]
    /\ \E n \in {metadata[p], NoMeta, m} :
          metadata' = [metadata EXCEPT ![p] = n]
=============================================================================
