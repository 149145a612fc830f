SPECIFICATION Spec
CONSTANTS
    Lpn = {p1, p2, p3}
    NoLpn = NoLpn
    NumBanks = 1
    LogBlks = 4
    LowPages = 1
    ChunksPerPage = 2
    OwLimit = 2
    Requests <- MixedPages
SYMMETRY Symmetry
VIEW View
INVARIANTS
    ReadBack
