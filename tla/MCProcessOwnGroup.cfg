SPECIFICATION SpecAll
CONSTANTS
    MaxPid = 3
    Workload = {"fork", "wait4", "sleep"}
    Signals = {"KILL"}
    Options = {{}}
INVARIANTS
    OnlyRunningRuns
CHECK_DEADLOCK FALSE
