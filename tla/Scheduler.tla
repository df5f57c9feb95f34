----------------------------- MODULE Scheduler -----------------------------
(***************************************************************************)
(* The process table's scheduling state and the single-core scheduler of   *)
(* sys/process/scheduler.rs.  Kernel code runs with interrupts masked and  *)
(* is never preempted, so a step of this model is the code between two     *)
(* entries of schedule(); cpu says which part of the kernel is executing:  *)
(*   "run"       the current thread, in user mode or inside a system call; *)
(*   "signal"    the loop of signal_foreground_group over its targets;     *)
(*   "schedule"  schedule_inner, before it picks the next thread;          *)
(*   "idle"      wait_for_ready, which takes the best ready thread, or     *)
(*               halts with interrupts enabled while there is none.        *)
(* Only one thread of control exists: while cpu is "signal" or "schedule"  *)
(* nothing else can take a step.                                           *)
(* Which of the queued threads is best is the subject of ReadyQueue; here  *)
(* any of them may be chosen.                                              *)
(***************************************************************************)
EXTENDS Integers, FiniteSets

CONSTANT MaxPid     \* the pids handed out are 1 .. MaxPid; pids are never reused

ASSUME SchedulerAssumption == MaxPid \in Nat /\ MaxPid >= 2

Pids == 1..MaxPid
INIT == 1
NoPid == 0

VARIABLES
    state,      \* ProcState of each pid; "Absent" when the table has no entry
    pc,         \* the call each thread is inside; its BlockReason when Blocked
    space,      \* the pids whose address_space is Some
    queue,      \* READY_QUEUE: how often each pid is in it
    reaps,      \* PENDING_THREAD_REAPS
    current,    \* CURRENT_PID
    cpu

schedVars == <<state, pc, space, queue, reaps, current, cpu>>

States == {"Absent", "Ready", "Running", "Blocked", "Stopped", "Zombie"}
ReapKinds == {"RemoveEntry", "TeardownOnly"}

User == [op |-> "user"]
Sleep == [op |-> "sleep"]       \* wakes for its event or for a signal
Io == [op |-> "io"]             \* wakes for its event only

Exists(p) == state[p] # "Absent"
Alive(p) == state[p] \notin {"Absent", "Zombie"}

-----------------------------------------------------------------------------
(* A table update: toReady are woken and enqueued, toZombie and toStopped  *)
(* leave the queue with their new state, gone are removed from the table.  *)
(* A thread that is woken on the way to its own death stays dead.          *)

\* remove_ready drops every entry of p; the value is what is left.
remove_ready(p) == 0

Move(toReady, toZombie, toStopped, gone) ==
    /\ state' = [p \in Pids |-> IF p \in gone THEN "Absent"
                               ELSE IF p \in toZombie THEN "Zombie"
                               ELSE IF p \in toStopped THEN "Stopped"
                               ELSE IF p \in toReady THEN "Ready" ELSE state[p]]
    /\ queue' = [p \in Pids |-> IF p \in toZombie \/ (p \in toStopped /\ state[p] = "Ready")
                               THEN remove_ready(p)
                               ELSE IF p \in toReady \ toStopped THEN queue[p] + 1
                               ELSE queue[p]]

enqueue_ready(p) == Move({p}, {}, {}, {})

\* The current thread marks itself Blocked inside call and enters schedule().
Block(t, call) ==
    /\ state' = [state EXCEPT ![t] = "Blocked"]
    /\ pc' = [pc EXCEPT ![t] = call]
    /\ cpu' = "schedule"
    /\ UNCHANGED queue

Return(t) == pc' = [pc EXCEPT ![t] = User]

\* The current thread is executing user code.  Nothing in the return path
\* looks at its state again, so neither does this.
InUser(t) == cpu = "run" /\ current = t /\ pc[t] = User

\* Where a device or timer interrupt can arrive: in user code, or in the halt
\* of wait_for_ready, which is reached only with an empty queue.
Interruptible ==
    \/ cpu = "run" /\ pc[current] = User
    \/ cpu = "idle" /\ \A p \in Pids : queue[p] = 0

-----------------------------------------------------------------------------
(* schedule_inner up to wait_for_ready: the pending reaps of every thread  *)
(* but the one whose kernel stack is in use, then the current thread back  *)
(* on the queue if it can still run.                                       *)

reap_pending_threads == {r \in reaps : r[1] # current}

schedule_inner ==
    /\ cpu = "schedule"
    /\ LET due(p, kind) == <<p, kind>> \in reap_pending_threads
           again == IF state[current] \in {"Ready", "Running"} THEN {current} ELSE {}
       IN /\ state' = [p \in Pids |-> CASE due(p, "RemoveEntry") -> "Absent"
                                        [] p \in again -> "Ready"
                                        [] OTHER -> state[p]]
          /\ queue' = [p \in Pids |-> IF p \in again THEN queue[p] + 1 ELSE queue[p]]
          /\ space' = {p \in space : \A kind \in ReapKinds : ~due(p, kind)}
          /\ reaps' = reaps \ reap_pending_threads
    /\ cpu' = "idle"
    /\ UNCHANGED <<pc, current>>

\* wait_for_ready found n: activate_and_prepare and the switch to it.
Dispatch(n) ==
    /\ cpu = "idle"
    /\ queue[n] > 0
    /\ queue' = [queue EXCEPT ![n] = @ - 1]
    /\ state' = [state EXCEPT ![n] = "Running"]
    /\ current' = n
    /\ cpu' = "run"
    /\ UNCHANGED <<pc, space, reaps>>
=============================================================================
