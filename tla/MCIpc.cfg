SPECIFICATION IpcSpec
CONSTANTS
    t1 = t1
    t2 = t2
    t3 = t3
    p1 = p1
    p2 = p2
    p3 = p3
    q1 = q1
    q2 = q2
    Threads <- MCThreads
    Root = t1
    ProcOf <- MCProcOf
    ByteOf <- MCDistinct
    PIPE_CAPACITY = 2
    PIPE_BUF = 1
    MaxIO = 2
SYMMETRY Symmetric
INVARIANTS
    IpcTypeOK
    NoLostWakeup
    NoCallLeftAsleep
    NoSignalOrTimeMissed
    UndoBalances
    LifetimesExact
    DeliveryExact
    OverrunExact
PROPERTIES
    EofIsFinal
    ImplementsByteStream
    ReceivesInOrder
    SleepsLongEnough
CHECK_DEADLOCK FALSE
