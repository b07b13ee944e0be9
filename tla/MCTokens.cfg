SPECIFICATION TokenSpec
CONSTANTS
    Symbols <- MCSymbols
    Requests <- MCRequests
    Keys <- MCKeys
    v1 = v1
    v2 = v2
    Values <- MCValues
    Metas = {m1}
    NoMeta = NoMeta
    SearchLimit = 3
    Capacity = 4
    MaxMishaps = 1
 
 
PROPERTY OperationsAreLocal
 
CHECK_DEADLOCK FALSE
SYMMETRY ValueSymmetry
