--------------------------- MODULE SecretContract ---------------------------
(***************************************************************************)
(* What the replication layer promises about the copies of a secret: a     *)
(* device only ever holds content that API clients submitted (or what is   *)
(* left of it when keys are removed), and a copy disappears only while a   *)
(* deletion is in progress or because a device write failed.               *)
(***************************************************************************)
EXTENDS Integers

CONSTANTS Devices, Values, NoData

VARIABLES
    copy,       \* content on each device
    known,      \* content that may legitimately appear
    deleting,   \* a deletion of the secret or of a key is in progress
    faults      \* device failures so far

vars == <<copy, known, deleting, faults>>

Init ==
    /\ copy = [d \in Devices |-> NoData]
    /\ known = {}
    /\ deleting = FALSE
    /\ faults \in Nat

\* A client operation starts or ends.
Operate ==
    /\ known \subseteq known' /\ known' \subseteq Values
    /\ deleting' \in BOOLEAN
    /\ UNCHANGED <<copy, faults>>

\* A write or a mirror sweep stores known content.
Store(d) ==
    /\ \E v \in known : copy' = [copy EXCEPT ![d] = v]
    /\ faults \in Nat /\ faults' \in {faults, faults + 1}
    /\ UNCHANGED <<known, deleting>>

Lose(d) ==
    /\ copy' = [copy EXCEPT ![d] = NoData]
    /\ \/ deleting /\ faults' \in {faults, faults + 1}
       \/ faults' = faults + 1
    /\ UNCHANGED <<known, deleting>>

\* A failure that touches no copy.
Fail ==
    /\ faults' = faults + 1
    /\ UNCHANGED <<copy, known, deleting>>

Next == Operate \/ Fail \/ \E d \in Devices : Store(d) \/ Lose(d)

Spec == Init /\ [][Next]_vars
=============================================================================
