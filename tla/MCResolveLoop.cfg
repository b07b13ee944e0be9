SPECIFICATION MCSpec
CONSTANTS
    a = a
    b = b
    Ids <- MCIds
    Checksums <- MCChecksums
    Versions <- MCVersions
    Times <- MCTimes
    DeviceCounts <- MCDeviceCounts
    TombstoneChecksum = TombstoneChecksum
    NoChecksum = NoChecksum
    NoDecision = NoDecision
    NotFound = NotFound
CHECK_DEADLOCK FALSE
INVARIANTS
    TypeOK
    LoopInvariant
PROPERTY
    ResolvesAsPrescribed
