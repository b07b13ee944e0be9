------------------------------ MODULE Observers ------------------------------
(***************************************************************************)
(* How the parts of the operator turn what they read from a device into    *)
(* the observation they pass to Resolve.  A copy is the content v of the   *)
(* data objects and the metadata object m at the path.                     *)
(***************************************************************************)
EXTENDS Reconcile

CONSTANTS
    NoData,       \* no data object at the path
    NoMeta        \* no metadata object at the path

\* sync.version of a metadata object, 0 when there is none.
MetadataVersion(m) == IF m = NoMeta THEN 0 ELSE m.version

\* sync.timestamp of a metadata object, 0 when there is none.
MetadataTimestamp(m) == IF m = NoMeta THEN 0 ELSE m.ts

MetadataDeleted(m) == IF m = NoMeta THEN FALSE ELSE m.deleted

\* The proxy's ReadSecret and the HSMSecret controller, for a copy they read.
ReaderObservation(d, v, m) ==
    [id |-> d, present |-> ~MetadataDeleted(m), tombstone |-> MetadataDeleted(m),
     checksum |-> v, version |-> MetadataVersion(m), ts |-> MetadataTimestamp(m)]

\* The proxy's GetChecksum reads no metadata.
ChecksumObservation(d, v) ==
    [id |-> d, present |-> TRUE, tombstone |-> FALSE,
     checksum |-> v, version |-> 0, ts |-> 0]

\* The mirror, for a copy read at time t; it ignores sync.deleted.
MirrorObservation(d, v, version, t) ==
    [id |-> d, present |-> TRUE, tombstone |-> FALSE,
     checksum |-> v, version |-> version, ts |-> t]
=============================================================================
