SPECIFICATION FairSpec
CONSTANTS
    ab = ab
    b = b
    Devices <- Pool3
    Values <- MCValues
    DropKey <- MCDropKey
    NoData = NoData
    NoChecksum = NoData
    NoMeta = NoMeta
    TombstoneChecksum = TombstoneChecksum
    Requests = {r1}
    Sweeps = {s1}
    MaxClock = 1
    MaxFaults = 1
CHECK_DEADLOCK FALSE
PROPERTIES
    MajorityIsStable
    Convergence
