SPECIFICATION Spec
CONSTANTS
    EccUnit = 8
    NumBanks = 2
    VBlks = 8
    FirstBlk = 2
    LogBlks = 2
    FreeBlks = 2
    ScanItems = 3
    MaxFailures = 1
    MaxNest = 2
    Pages <- MCPages
    PowerUp <- MCPowerUp
INVARIANTS TypeOK BlocksDistinct VictimsCurrent BitmapExact GoodBlocksUsed
PROPERTY BlocksKept
CHECK_DEADLOCK FALSE
VIEW View
