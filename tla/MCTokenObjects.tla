--------------------------- MODULE MCTokenObjects --------------------------
(* Instances of TokenObjects: the path c/d is isolated; c/e and c/eb share *)
(* its directory and one is a prefix of the other; f/_metadata is refused  *)
(* by the path check.                                                      *)
EXTENDS TokenObjects

CONSTANTS v1, v2

MCValues == {v1, v2}
ValueSymmetry == Permutations(MCValues)

MCSymbols == {"/", "_metadata", "data", "b", "c", "d", "e", "f", "k"}
MCRequests == {<<"c", "/", "d">>, <<"c", "/", "e">>, <<"c", "/", "e", "b">>,
               <<"f", "/", "_metadata">>}
MCKeys == {<<"data">>, <<"k">>}
=============================================================================
