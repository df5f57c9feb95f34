SPECIFICATION Spec
CONSTANTS
    MaxPid = 3
    Workload = {"fork", "clone", "exit", "wait4"}
    Signals = {"KILL"}
    Options = {{}}
INVARIANTS
    GroupDeathSeen
CHECK_DEADLOCK FALSE
