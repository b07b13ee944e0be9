----------------------------- MODULE MCPkiStore -----------------------------
(* Model values for PkiStore. *)
EXTENDS PkiStore

CONSTANTS m1, m2, ca1, ca2

TwoReplicas == {m1, m2}
TwoAuthorities == {ca1, ca2}

=============================================================================
