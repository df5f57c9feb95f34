----------------------------- MODULE Taskqueue ------------------------------
(***************************************************************************)
(* The system's task queue, sys/kern/subr_taskqueue.rs, over the wait      *)
(* channels of sys/kern/kern_synch.rs.  Tasks are enqueued from system     *)
(* calls and interrupts and called, in order, by one kernel thread (the    *)
(* only number start_threads is given); a task's function may sleep, so    *)
(* that anything can happen while it runs.  Other threads drain tasks.     *)
(* A step is what kernel code does between two sleeps: interrupts are      *)
(* masked in it.                                                           *)
(***************************************************************************)
EXTENDS Integers, Sequences

CONSTANTS
    Tasks,
    Drainers,       \* the threads that call drain
    MaxPending      \* where Task.pending saturates

None == "none"
Taskq == "taskq"        \* the queue's thread
TqThreads == {Taskq} \cup Drainers

ASSUME TaskqueueAssumption ==
    MaxPending \in Nat \ {0} /\ None \notin Tasks /\ Taskq \notin Drainers

VARIABLES
    list,       \* the queued tasks, head first
    pending,    \* Task.pending
    running,    \* Queued.running
    worker,     \* the task the queue's thread is in the function of, or None
    told,       \* the count that function was called with
    chan,       \* the channel each thread sleeps on: None, "work" or "done"
    draining    \* the task each drainer waits for, or None

tqVars == <<list, pending, running, worker, told, chan, draining>>
Awake(t) == chan[t] = None
Linked(task) == \E i \in DOMAIN list : list[i] = task

-----------------------------------------------------------------------------
tsleep(t, c) == [chan EXCEPT ![t] = c]
wakeup(c) == [t \in TqThreads |-> IF chan[t] = c THEN None ELSE chan[t]]

\* One more enqueue counted: saturating_add.
counted_MUT(n) == n + 1
counted(n) == IF n < MaxPending THEN n + 1 ELSE n

\* A task that is queued already only counts the enqueue.
already_queued_MUT(task) == pending[task] > 1
already_queued(task) == pending[task] > 0

work_wakeup == wakeup("work")

enqueue(task) ==
    /\ \/ /\ already_queued(task)
          /\ pending' = [pending EXCEPT ![task] = counted(@)]
          /\ UNCHANGED <<list, chan>>
       \/ /\ ~already_queued(task)
          /\ pending' = [pending EXCEPT ![task] = 1]
          /\ list' = Append(list, task)
          /\ chan' = work_wakeup
    /\ UNCHANGED <<running, worker, told, draining>>

\* The queue's thread between two tasks: it takes the head or sleeps.
left_pending(task) == 0

RunTask ==
    /\ Awake(Taskq) /\ worker = None
    /\ \/ /\ list # <<>>
          /\ LET task == Head(list)
             IN /\ list' = Tail(list)
                /\ running' = task /\ worker' = task
                /\ told' = pending[task]
                /\ pending' = [pending EXCEPT ![task] = left_pending(task)]
          /\ UNCHANGED chan
       \/ /\ list = <<>>
          /\ chan' = tsleep(Taskq, "work")
          /\ UNCHANGED <<list, pending, running, worker, told>>
    /\ UNCHANGED draining

\* The task's function returns.
TaskDone ==
    /\ worker # None
    /\ worker' = None /\ running' = None /\ told' = 0
    /\ chan' = wakeup("done")
    /\ UNCHANGED <<list, pending, draining>>

\* One pass of drain's loop; it sleeps for a tick at most.
undrained_MUT(task) == pending[task] # 0
undrained(task) == pending[task] # 0 \/ running = task

drain(d, task) ==
    /\ \/ /\ ~undrained(task)
          /\ draining' = [draining EXCEPT ![d] = None]
          /\ UNCHANGED chan
       \/ /\ undrained(task)
          /\ draining' = [draining EXCEPT ![d] = task]
          /\ chan' = tsleep(d, "done")
    /\ UNCHANGED <<list, pending, running, worker, told>>

Drain(d) == Awake(d) /\ draining[d] = None /\ \E task \in Tasks : undrained(task) /\ drain(d, task)
ResumeDrain(d) == Awake(d) /\ draining[d] # None /\ drain(d, draining[d])

\* The timer's tick: the timeout of drain's sleep has passed.
expire_sleeps ==
    /\ wakeup("done") # chan
    /\ chan' = wakeup("done")
    /\ UNCHANGED <<list, pending, running, worker, told, draining>>

-----------------------------------------------------------------------------
TqInit ==
    /\ list = <<>> /\ pending = [task \in Tasks |-> 0]
    /\ running = None /\ worker = None /\ told = 0
    /\ chan = [t \in TqThreads |-> None]
    /\ draining = [d \in Drainers |-> None]

TqNext ==
    \/ \E task \in Tasks : enqueue(task)
    \/ RunTask \/ TaskDone \/ expire_sleeps
    \/ \E d \in Drainers : Drain(d) \/ ResumeDrain(d)

TqSpec == TqInit /\ [][TqNext]_tqVars

-----------------------------------------------------------------------------
(* Properties.                                                             *)

\* Type correctness: pending saturates.
TqTypeOK ==
    /\ list \in Seq(Tasks)
    /\ pending \in [Tasks -> 0..MaxPending]
    /\ running \in Tasks \cup {None} /\ worker \in Tasks \cup {None}
    /\ told \in 0..MaxPending
    /\ chan \in [TqThreads -> {None, "work", "done"}]
    /\ draining \in [Drainers -> Tasks \cup {None}]

\* The intrusive list is sound: a task is linked once exactly when it has
\* enqueues pending, also when it is enqueued again from its own function, and
\* a function is called for one enqueue at least.
ListMatchesPending ==
    /\ \A i, j \in DOMAIN list : list[i] = list[j] => i = j
    /\ \A task \in Tasks : Linked(task) <=> pending[task] > 0
    /\ worker # None => told > 0

\* No lost wakeup: the queue's thread does not sleep on a queue with work.
WorkerNotLost == chan[Taskq] = "work" => list = <<>>

\* "Returns once `task` is neither queued on `queue` nor running there": in the
\* step in which drain returns, the task's function is not active, even if the
\* task was enqueued again while it ran.
DrainedIsIdle ==
    [][\A d \in Drainers : draining[d] # None /\ draining'[d] = None
         => worker # draining[d] /\ ~Linked(draining[d])]_tqVars
=============================================================================
