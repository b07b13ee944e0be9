SPECIFICATION Spec
CONSTANTS
    ab = ab
    b = b
    Devices <- Pool2
    Values <- MCValues
    DropKey <- MCDropKey
    NoData = NoData
    NoChecksum = NoData
    NoMeta = NoMeta
    TombstoneChecksum = TombstoneChecksum
    Requests = {r1, r2}
    Sweeps = {s1}
    MaxClock = 0
    MaxFaults = 1
CHECK_DEADLOCK FALSE
PROPERTY
    TombstonePreventsResurrection
