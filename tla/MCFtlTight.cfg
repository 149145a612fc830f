SPECIFICATION Spec
CONSTANTS
    Lpn = {p1, p2, p3, p4}
    NoLpn = NoLpn
    NumBanks = 2
    LogBlks = 2
    LowPages = 2
    ChunksPerPage = 2
    OwLimit = 2
    Requests <- MixedPages
SYMMETRY Symmetry
VIEW View
INVARIANTS
    TypeOK
    OneUse
    ReadBack
    ListsComplete
    StopsForWantOfBlocks
    OwChunksInOwBlocks
CHECK_DEADLOCK FALSE
