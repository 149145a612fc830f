SPECIFICATION FairSpec
CONSTANTS
    Lpn = {p1, p2}
    NoLpn = NoLpn
    NumBanks = 1
    LogBlks = 4
    LowPages = 1
    ChunksPerPage = 2
    OwLimit = 2
    Requests <- MixedPages
INVARIANTS
    ReadBack
    GcFindsExpected
PROPERTIES
    RequestsComplete
CHECK_DEADLOCK FALSE
