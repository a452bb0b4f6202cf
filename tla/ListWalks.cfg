SPECIFICATION Spec
CONSTANTS
    Ids = {1, 2, 3, 4}
    Inbound = {1, 3}
    Writers = {w1, w2}
    PageSize <- PageSizes
    MaxPage = 3
    FirstTick = 1
    LastTick = 2
    NoWrite = NoWrite
    Written = Written
    NoCursor = NoCursor
INVARIANTS
    NoRowTwice
    NoRowMissed
    LatestIsNotOlder
SYMMETRY Symmetry
CHECK_DEADLOCK FALSE
