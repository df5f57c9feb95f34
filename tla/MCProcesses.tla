---------------------------- MODULE MCProcesses -----------------------------
(***************************************************************************)
(* Five workloads of the process table and the scheduler.  One of them     *)
(* runs in a behaviour: trees of up to four threads without signals, and   *)
(* with vfork, clone and kill; the other calls by up to three threads; and *)
(* job control of three processes, with kill or with killpg and the        *)
(* keyboard.  The constants of the .cfg file are the union of the five.    *)
(***************************************************************************)
EXTENDS Process

VARIABLE load

Tree == INSTANCE Process WITH
    Workload <- {"fork", "vfork", "execve", "clone", "exit", "exit_group", "wait4"},
    Signals <- {"KILL"}, Options <- {{}}

Kills == INSTANCE Process WITH
    Workload <- {"vfork", "clone", "exit", "wait4", "kill"}, Signals <- {"KILL"}, Options <- {{}}

Every == INSTANCE Process WITH
    Workload <- Calls \ {"kill", "killpg", "vfork"}, Signals <- {"KILL"}, Options <- {{"WNOHANG"}}

Jobs == INSTANCE Process WITH
    Workload <- {"fork", "exit_group", "wait4", "kill"},
    Options <- {{"WUNTRACED", "WCONTINUED"}}

Keys == INSTANCE Process WITH
    Workload <- {"vfork", "execve", "exit_group", "wait4", "killpg", "keyboard"},
    Options <- {{"WUNTRACED", "WCONTINUED"}}

Few == 3    \* the pids handed out where every call or every signal is used

loadVars == <<vars, load>>

LoadInit == Init /\ load \in {"tree", "kills", "every", "jobs", "keys"}

LoadNext ==
    /\ UNCHANGED load
    /\ \/ load = "tree" /\ Tree!Next
       \/ load = "kills" /\ Kills!Next
       \/ load = "every" /\ Every!Next /\ nextPid' <= Few + 1
       \/ load = "jobs" /\ Jobs!Next /\ nextPid' <= Few + 1
       \/ load = "keys" /\ Keys!Next /\ nextPid' <= Few + 1

LoadSpec == LoadInit /\ [][LoadNext]_loadVars
=============================================================================
