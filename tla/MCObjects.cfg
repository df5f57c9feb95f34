SPECIFICATION Spec
CONSTANTS
    MaxPid = 3
    MaxDepth = 2
    Stops = TRUE
    HolderKills = FALSE
    Handles = {1, 2, 3}
    ProcOf <- Alone
    HandleOf <- Alone
    MaxEntries = 2
    Tasks = {"t1", "t2", "t3"}
    Drainers = {"d1", "d2"}
    MaxPending = 2
    Moves = {"fslock", "nested", "flock", "shared", "fifo", "keys", "ready", "tasks"}
    p1 = p1
    p2 = p2
    p3 = p3
INVARIANTS
    TypesOK
    NoneLeftAsleep
    HolderAliveInside
    DeferredHasHolder
    FlockExclusive
    BooksExact
    ListMatchesPending
PROPERTIES
    PreemptedWithinTick
    DrainedIsIdle
CHECK_DEADLOCK FALSE
