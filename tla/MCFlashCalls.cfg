SPECIFICATION Spec
CONSTANTS
    NumBanks = 2
    MaxResets = 1
    ChunksPerPage = 1
    NumWrBufs = 4
    MaxChunks = 1
    MaxPages = 1
    Jobs = {"page", "trim", "collect", "erase"}
PROPERTIES CallsReturn
