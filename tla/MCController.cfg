SPECIFICATION CFairSpec
CONSTANTS
    ab = ab
    b = b
    Devices <- Pool2
    Values <- MCValues
    DropKey <- MCDropKey
    NoData = NoData
    NoChecksum = NoData
    NoMeta = NoMeta
    TombstoneChecksum = TombstoneChecksum
    Requests = {r1}
    Sweeps = {}
    MaxClock = 0
    MaxFaults = 2
CHECK_DEADLOCK FALSE
PROPERTIES
    
    DeletionRemovesSecret
