---------------------------- MODULE MCSecretSync ----------------------------
(* Small pools.  Content ab loses a key and leaves b; b loses its only key. *)
EXTENDS SecretSync, TLC

CONSTANTS ab, b

Pool2 == 1..2
Pool3 == 1..3
MCValues == {ab, b}

\* Requests are interchangeable.
SameRequests == Permutations(Requests)

MCDropKey == [v \in {ab, b} |-> IF v = ab THEN b ELSE NoData]
=============================================================================
