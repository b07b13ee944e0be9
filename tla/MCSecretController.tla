------------------------- MODULE MCSecretController -------------------------
(* Two devices; content ab loses a key and leaves b.                        *)
EXTENDS SecretController

CONSTANTS ab, b

Pool2 == 1..2
MCValues == {ab, b}
MCDropKey == [v \in {ab, b} |-> IF v = ab THEN b ELSE NoData]
=============================================================================
