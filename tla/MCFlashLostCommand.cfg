SPECIFICATION Spec
CONSTANTS
    NumBanks = 2
    MaxResets = 1
    ChunksPerPage = 2
    NumWrBufs = 4
    MaxChunks = 2
    MaxPages = 2
    Jobs = {"read", "erase"}
INVARIANT ReadsDeliver
VIEW View
