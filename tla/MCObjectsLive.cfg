SPECIFICATION Spec
CONSTANTS
    Moves = {"pipe", "fifo", "ready", "tasks", "fslock", "signals"}
    th1 = th1
    th2 = th2
    th3 = th3
PROPERTIES
    NobodyWaitsForEver
CHECK_DEADLOCK FALSE
