SPECIFICATION Spec
CONSTANTS
    Lpn = {p1, p2, p3}
    NoLpn = NoLpn
    NumBanks = 2
    LogBlks = 3
    LowPages = 1
    ChunksPerPage = 2
    OwLimit = 2
    Requests <- MixedPages
SYMMETRY Symmetry
VIEW View
INVARIANTS
    NestsTwiceAtMost
    OneUse
    OwChunksInOwBlocks
CHECK_DEADLOCK FALSE
