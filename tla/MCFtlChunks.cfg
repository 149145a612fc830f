SPECIFICATION Spec
CONSTANTS
    Lpn = {p1, p2}
    NoLpn = NoLpn
    NumBanks = 1
    LogBlks = 4
    LowPages = 1
    ChunksPerPage = 2
    OwLimit = 2
    Requests <- AllChunks
SYMMETRY Symmetry
VIEW View
CONSTRAINT OverwritesAmple
INVARIANTS
    ReadBack
    CountsExact
    GcFindsExpected
PROPERTIES
    ProgramsAllowed
