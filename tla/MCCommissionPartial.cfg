SPECIFICATION DriveSpec
CONSTANTS
    EccUnit = 8
    NumBanks = 2
    VBlks = 5
    FirstBlk = 1
    LogBlks = 1
    FreeBlks = 1
    ScanItems = 4
    MaxFailures = 0
    MaxNest = 0
    Pages = {}
    PowerUp <- MCPowerUp
    Factory <- MCFactory
    Sdram = 64
    BuiltFor = 64
    Cuts = {0, 3}
    BootBanks = {0}
INVARIANT WarnedOrSpared
CHECK_DEADLOCK FALSE
