------------------------------- MODULE FsLock -------------------------------
(***************************************************************************)
(* The filesystem lock of sys/fs/fslock.rs: one recursive lock, held by a  *)
(* thread, across which the holder may sleep for the disk, and the         *)
(* terminations that cannot be carried out while it is held.  Threads are  *)
(* single-threaded processes over the scheduler of module Scheduler.       *)
(*                                                                         *)
(* Closing a dead process's files takes the lock and gives it back inside  *)
(* one step, as nothing sleeps on the way (closing polls the disk).        *)
(***************************************************************************)
EXTENDS Scheduler

CONSTANTS
    MaxDepth,       \* how deep the model takes the lock
    Stops,          \* whether processes are also stopped and continued
    HolderKills     \* whether the keyboard kills the holder in the idle loop

ASSUME FsLockAssumption ==
    MaxDepth \in Nat \ {0} /\ Stops \in BOOLEAN /\ HolderKills \in BOOLEAN

VARIABLES
    owner,          \* OWNER, NoPid when free
    asleep,         \* OWNER_ASLEEP
    depth,          \* DEPTH
    waiters,        \* WAITERS
    deferred,       \* DEFERRED, the order of which does not matter
    posted          \* the processes with a fatal signal posted by run_deferred

lockVars == <<owner, asleep, depth, waiters, deferred, posted>>
fsVars == <<schedVars, lockVars>>

Fs == [op |-> "fs"]             \* executing inside the filesystem
Dying == [op |-> "dying"]       \* the same, closing its own files as it ends
Disk == [op |-> "disk"]         \* inside the filesystem, asleep in wait_for_disk
Entering(d, next) == [op |-> "enter", depth |-> d, next |-> next]
Away(d) == [op |-> "away", depth |-> d]     \* asleep with the lock given up

Inside(t) == pc[t].op \in {"fs", "dying", "disk"}
Ending(t) == pc[t] = Entering(0, Dying)
Waiting == {p \in Pids : state[p] = "Blocked" /\ pc[p].op = "enter"}
Executing(t, op) == cpu = "run" /\ current = t /\ pc[t].op = op

-----------------------------------------------------------------------------
(* enter and exit.                                                         *)

\* DEPTH once the lock is taken; d is the depth reacquire stores, 0 in enter.
depth_taken(d) == IF d = 0 THEN depth + 1 ELSE d

\* One pass of enter's loop, for the first level (d = 0) or to take the lock
\* back at depth d (reacquire); next is where the thread goes on.
Enter(t, d, next) ==
    /\ \/ /\ owner \in {NoPid, t}
          /\ owner' = t
          /\ depth' = depth_taken(d)
          /\ pc' = [pc EXCEPT ![t] = next]
          /\ UNCHANGED <<state, queue, cpu, waiters>>
       \/ /\ owner \notin {NoPid, t}
          /\ waiters' = waiters + 1
          /\ Block(t, Entering(d, next))
          /\ UNCHANGED <<owner, depth>>
    /\ UNCHANGED <<space, reaps, current, asleep, deferred, posted>>

\* The waiters of exit, and what it does at the last level: they are woken and
\* the deferred terminations carried out, the caller's own as a posted signal.
\* self is the caller's state afterwards, unless it is woken itself.
wake_waiters == IF waiters > 0 THEN Waiting ELSE {}

run_deferred_MUT == {}
run_deferred == deferred

Release(t, self, woken) ==
    LET D == {p \in run_deferred : p # t /\ Alive(p)}
        W == wake_waiters \cup woken
    IN /\ state' = [p \in Pids |-> IF p \in D THEN "Zombie"
                                  ELSE IF p \in W THEN "Ready"
                                  ELSE IF p = t THEN self ELSE state[p]]
       /\ queue' = [p \in Pids |-> IF p \in D \/ (p = t /\ self = "Zombie") THEN remove_ready(p)
                                  ELSE IF p \in W THEN queue[p] + 1 ELSE queue[p]]
       /\ space' = space \ D
       /\ owner' = NoPid /\ depth' = 0
       /\ deferred' = deferred \ run_deferred
       /\ posted' = posted \cup (run_deferred \cap {t})
       /\ UNCHANGED <<current, asleep, waiters>>

\* A system call enters the filesystem; so does the death of the caller.
enter(t) == InUser(t) /\ t \notin posted /\ Enter(t, 0, Fs)

do_exit(t) == InUser(t) /\ Enter(t, 0, Dying)

ResumeEnter(t) ==
    /\ Executing(t, "enter")
    /\ LET d == pc[t].depth
       IN \/ /\ owner \in {NoPid, t}
             /\ owner' = t
             /\ depth' = depth_taken(d)
             /\ waiters' = waiters - 1
             /\ pc' = [pc EXCEPT ![t] = pc[t].next]
             /\ UNCHANGED <<state, queue, cpu>>
          \/ /\ owner \notin {NoPid, t}
             /\ Block(t, pc[t])
             /\ UNCHANGED <<owner, depth, waiters>>
    /\ UNCHANGED <<space, reaps, current, asleep, deferred, posted>>

\* The filesystem calls back into the kernel, and the kernel into it.
reenter(t) ==
    /\ Executing(t, "fs")
    /\ depth < MaxDepth
    /\ Enter(t, 0, Fs)

exit(t) ==
    /\ Executing(t, "fs")
    /\ \/ /\ depth > 1
          /\ depth' = depth - 1
          /\ UNCHANGED <<schedVars, owner, asleep, waiters, deferred, posted>>
       \/ /\ depth = 1
          /\ Release(t, "Running", {})
          /\ Return(t)
          /\ UNCHANGED <<reaps, cpu>>

\* The last thing terminate_process does for the caller itself.
exit_dying(t) ==
    /\ Executing(t, "dying")
    /\ Release(t, "Zombie", {})
    /\ reaps' = reaps \cup {<<t, "TeardownOnly">>}
    /\ cpu' = "schedule"
    /\ UNCHANGED pc

-----------------------------------------------------------------------------
(* Sleeping inside the filesystem.                                         *)

wait_for_disk(t) ==
    /\ Executing(t, "fs")
    /\ Block(t, Disk)
    /\ asleep' = TRUE
    /\ UNCHANGED <<space, reaps, current, owner, depth, waiters, deferred, posted>>

\* After a wake: the transfer is done or timed out, or the thread sleeps again.
DiskDone(t) ==
    /\ Executing(t, "disk")
    /\ pc' = [pc EXCEPT ![t] = Fs]
    /\ asleep' = FALSE
    /\ UNCHANGED <<state, space, queue, reaps, current, cpu, owner, depth, waiters, deferred, posted>>

DiskAgain(t) ==
    /\ Executing(t, "disk")
    /\ Block(t, Disk)
    /\ UNCHANGED <<space, reaps, current, lockVars>>

\* wake_disk_waiters, from the disk's interrupt or the timer's.
wake_disk_waiters ==
    /\ Interruptible
    /\ LET W == {p \in Pids : state[p] = "Blocked" /\ pc[p] = Disk}
       IN W # {} /\ Move(W, {}, {}, {})
    /\ UNCHANGED <<pc, space, reaps, current, cpu, lockVars>>

\* A sleep that waits for another process gives the lock up and takes it back.
\* A signal posted to the caller on the way wakes it before it sleeps, and it
\* does not sleep again.
release_for_sleep(t) ==
    /\ Executing(t, "fs") /\ t \notin posted
    /\ Release(t, "Blocked", run_deferred \cap {t})
    /\ pc' = [pc EXCEPT ![t] = Away(depth)]
    /\ cpu' = "schedule"
    /\ UNCHANGED reaps

WakeAway(p) ==
    /\ Interruptible
    /\ state[p] = "Blocked" /\ pc[p].op = "away"
    /\ enqueue_ready(p)
    /\ UNCHANGED <<pc, space, reaps, current, cpu, lockVars>>

reacquire(t) == Executing(t, "away") /\ Enter(t, pc[t].depth, Fs)

-----------------------------------------------------------------------------
(* Signals, sent by the current process or from the keyboard.              *)

busy_MUT == owner = current /\ asleep
busy == owner # NoPid /\ (owner # current \/ asleep)

\* terminate_thread_group for another process than the current one.
terminate_other(p) ==
    /\ Interruptible /\ Alive(p) /\ p # current
    /\ \/ /\ busy
          /\ deferred' = deferred \cup {p}
          /\ UNCHANGED <<state, queue, space>>
       \/ /\ ~busy
          /\ Move({}, {p}, {}, {})
          /\ space' = space \ {p}
          /\ UNCHANGED deferred
    /\ UNCHANGED <<pc, reaps, current, cpu, owner, asleep, depth, waiters, posted>>

\* The same, from the keyboard in the idle loop, for the process that called
\* schedule() last.  It counts as ending itself: busy is not asked, and its
\* files are closed on its stack, at once or when enter gets the lock.  (More
\* kills of a process that already waits there only add to waiters, and the
\* model leaves them out.)
terminate_idle(p) ==
    /\ cpu = "idle" /\ Interruptible /\ Alive(p) /\ p = current
    /\ owner = p => HolderKills
    /\ ~Ending(p)
    /\ \/ /\ owner \in {NoPid, p}
          /\ Move({}, {p}, {}, {})
          /\ reaps' = reaps \cup {<<p, "TeardownOnly">>}
          /\ UNCHANGED <<pc, cpu, waiters>>
       \/ /\ owner \notin {NoPid, p}
          /\ Block(p, Entering(0, Dying))
          /\ waiters' = waiters + 1
          /\ UNCHANGED reaps
    /\ UNCHANGED <<space, current, owner, asleep, depth, deferred, posted>>

StopProcess(p) ==
    /\ Stops
    /\ Interruptible /\ Alive(p) /\ state[p] \notin {"Running", "Stopped"}
    /\ Move({}, {}, {p}, {})
    /\ UNCHANGED <<pc, space, reaps, current, cpu, lockVars>>

ContinueProcess(p) ==
    /\ Stops
    /\ Interruptible /\ state[p] = "Stopped"
    /\ Move({p}, {}, {}, {})
    /\ UNCHANGED <<pc, space, reaps, current, cpu, lockVars>>

\* The timer's quantum.
Preempt(t) ==
    /\ InUser(t) /\ t \notin posted
    /\ cpu' = "schedule"
    /\ UNCHANGED <<state, pc, space, queue, reaps, current, lockVars>>

-----------------------------------------------------------------------------
FsInit ==
    /\ state = [p \in Pids |-> IF p = INIT THEN "Running" ELSE "Ready"]
    /\ pc = [p \in Pids |-> User]
    /\ space = Pids
    /\ queue = [p \in Pids |-> IF p = INIT THEN 0 ELSE 1]
    /\ reaps = {}
    /\ current = INIT
    /\ cpu = "run"
    /\ owner = NoPid /\ asleep = FALSE /\ depth = 0 /\ waiters = 0
    /\ deferred = {} /\ posted = {}

Schedule == (schedule_inner \/ \E n \in Pids : Dispatch(n)) /\ UNCHANGED lockVars

Sleeping(t) == wait_for_disk(t) \/ release_for_sleep(t)
Locking(t) == enter(t) \/ reenter(t) \/ exit(t) \/ do_exit(t) \/ exit_dying(t)
Resuming(t) == ResumeEnter(t) \/ DiskDone(t) \/ DiskAgain(t) \/ reacquire(t)

Signalling == \E p \in Pids \ {INIT} :
    terminate_other(p) \/ terminate_idle(p) \/ StopProcess(p) \/ ContinueProcess(p)

FsNext ==
    \/ Schedule
    \/ \E t \in Pids : Locking(t) \/ Sleeping(t) \/ Resuming(t) \/ Preempt(t) \/ WakeAway(t)
    \/ wake_disk_waiters
    \/ Signalling

FsSpec == FsInit /\ [][FsNext]_fsVars

\* Every queued thread runs in the end (sched_4bsd lets the priority of a thread
\* that runs decay), the disk answers or the timer looks again, and a filesystem
\* operation is finite.
FsFairness ==
    /\ WF_fsVars(Schedule)
    /\ \A t \in Pids : /\ SF_fsVars(Dispatch(t) /\ UNCHANGED lockVars)
                       /\ WF_fsVars(Resuming(t))
                       /\ SF_fsVars(DiskDone(t))
                       /\ WF_fsVars(exit_dying(t))
                       /\ SF_fsVars(exit(t) /\ depth = 1)
                       /\ WF_fsVars(Preempt(t))
    /\ SF_fsVars(wake_disk_waiters)

FsFairSpec == FsSpec /\ FsFairness

-----------------------------------------------------------------------------
(* Properties.                                                             *)

\* Type correctness of the lock's state.
FsTypeOK ==
    /\ owner \in Pids \cup {NoPid}
    /\ asleep \in BOOLEAN
    /\ depth \in 0..MaxDepth
    /\ waiters \in Nat
    /\ deferred \subseteq Pids /\ posted \subseteq Pids

\* Only the holder is inside the filesystem, and the holder lives: no kill,
\* from the keyboard or from another process, ends it half way through an
\* operation, even while it is asleep and its own pid is still the current one.
HolderAliveInside ==
    /\ \A t \in Pids : Alive(t) /\ Inside(t) => owner = t
    /\ owner # NoPid => Alive(owner) /\ Inside(owner) /\ depth > 0
    /\ asleep <=> owner # NoPid /\ pc[owner] = Disk

\* No lost wakeup: nobody is left asleep in enter once the lock is free.
FreeMeansNoSleeper == owner = NoPid => Waiting = {}

\* A deferred termination waits only for the holder: none is forgotten when
\* the lock is released.
DeferredHasHolder == deferred # {} => owner # NoPid

\* A process that was to be killed while the lock was held is killed, or gets
\* the signal, however often the holder sleeps for the disk.
DeferredCarriedOut == \A p \in Pids : p \in deferred ~> p \notin deferred
=============================================================================
