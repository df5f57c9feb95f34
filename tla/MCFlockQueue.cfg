SPECIFICATION FlockSpec
CONSTANTS
    MaxPid = 3
    Handles = {1, 2, 3}
    ProcOf <- Alone
    HandleOf <- Alone
    MaxEntries = 2
INVARIANTS
    QueuedIsReady
CHECK_DEADLOCK FALSE
