---------------------------- MODULE MCReaderViews ----------------------------
(* A device holds nothing, a tombstone, or one of two contents with version  *)
(* 1 or 2 and one of two timestamps.                                         *)
EXTENDS ReaderViews

CONSTANTS v, w

Pool2 == 1..2
Pool3 == 1..3
Pool4 == 1..4

Absent == [data |-> NoData, meta |-> NoMeta]
Tombstone == [data |-> NoData, meta |-> [version |-> 0, ts |-> 1, deleted |-> TRUE]]
Written == [data : {v, w}, meta : [version : 1..2, ts : 0..1, deleted : {FALSE}]]

AllCopies == {Absent, Tombstone} \cup Written

\* What a write to all devices and a later write to some of them leave behind.
TwoWrites == {[data |-> v, meta |-> [version |-> 1, ts |-> 0, deleted |-> FALSE]],
              [data |-> w, meta |-> [version |-> 2, ts |-> 1, deleted |-> FALSE]]}
=============================================================================
