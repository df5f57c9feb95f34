SPECIFICATION FsSpec
CONSTANTS
    MaxPid = 3
    MaxDepth = 1
    Stops = FALSE
    HolderKills = TRUE
INVARIANTS
    HolderAliveInside
CHECK_DEADLOCK FALSE
