SPECIFICATION Spec
CONSTANTS
    NumBanks = 2
    MaxResets = 0
    ChunksPerPage = 2
    NumWrBufs = 4
    MaxChunks = 1
    MaxPages = 1
    Jobs = {"page", "in place", "partial", "trim", "read", "collect"}
INVARIANTS TypeOK BuffersKept WriteBuffersKept ReadsDeliver
VIEW View
