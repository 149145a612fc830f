SPECIFICATION Spec
CONSTANTS
    NumBanks = 2
    MaxResets = 0
    ChunksPerPage = 2
    NumWrBufs = 4
    MaxChunks = 2
    MaxPages = 2
    Jobs = {"collect"}
INVARIANT GcBufKept
VIEW View
