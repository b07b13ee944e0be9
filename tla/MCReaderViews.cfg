SPECIFICATION ViewsSpec
CONSTANTS
    v = v
    w = w
    Devices <- Pool3
    Copies <- AllCopies
    NoData = NoData
    NoMeta = NoMeta
    NoChecksum = NoData
    TombstoneChecksum = TombstoneChecksum
    Nothing = Nothing
CHECK_DEADLOCK FALSE
INVARIANT SmallPoolsSeeOneCopy
INVARIANT ProxyAnswersFit
