SPECIFICATION LoadSpec
CONSTANTS
    MaxPid = 4
    Workload = {"fork", "vfork", "execve", "clone", "exit", "exit_group", "wait4", "sleep", "io", "sigaction", "kill", "killpg", "keyboard"}
    Signals = {"KILL", "STOP", "CONT"}
    Options = {{}, {"WNOHANG"}, {"WUNTRACED", "WCONTINUED"}}
INVARIANTS
    SchedInv
    StopNoteIsStopped
    WaitNotLost
    VforkBorrows
    ZombieHasParent
PROPERTIES
    DeadForGood
CHECK_DEADLOCK FALSE
