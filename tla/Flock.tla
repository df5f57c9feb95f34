------------------------------- MODULE Flock --------------------------------
(***************************************************************************)
(* flock(2) of sys/kern/vfs_advlock.rs on one vnode.  The lock belongs to  *)
(* an open file description, which threads of a process share through its  *)
(* descriptor table and processes share after a fork.  A pass of flock's   *)
(* loop runs under the filesystem lock and a wait gives that lock up, so a *)
(* pass is one step and the wait for the filesystem lock on either side of *)
(* the sleep is part of waiting to run (module FsLock has the lock itself).*)
(***************************************************************************)
EXTENDS Scheduler

CONSTANTS
    Handles,        \* the open file descriptions of the vnode
    ProcOf,         \* the process (thread group) of each thread
    HandleOf,       \* the description each process has a descriptor of
    MaxEntries      \* how often a thread may be queued, in the model

ASSUME FlockAssumption ==
    ProcOf \in [Pids -> Pids] /\ HandleOf \in [Pids -> Handles] /\ MaxEntries \in Nat

VARIABLES
    locks,          \* LOCKS: what each description holds on the vnode
    open,           \* the processes whose descriptor is still open
    caught          \* the threads with a caught signal pending

flockVars == <<locks, open, caught>>
allVars == <<schedVars, flockVars>>

Kinds == {"none", "SH", "EX"}
Flock(how) == [op |-> "flock", how |-> how]
Handle(t) == HandleOf[ProcOf[t]]
ThreadsOf(q) == {t \in Pids : ProcOf[t] = q}
Waiters == {p \in Pids : state[p] = "Blocked" /\ pc[p].op = "flock"}

-----------------------------------------------------------------------------
\* Another description holds a lock that excludes one of kind how for h.
conflicts_MUT(h, how) == \E g \in Handles \ {h} : how = "EX" /\ locks[g] # "none"
conflicts(h, how) ==
    \E g \in Handles \ {h} : locks[g] = "EX" \/ (how = "EX" /\ locks[g] = "SH")

\* Whether a lock granted in place of the one h holds lets others in.
downgrade(h, how) == locks[h] = "EX" /\ how = "SH"

\* wake_flock_waiters, for the threads in W.
wake_flock_waiters(W) == Move(W, {}, {}, {})

\* The call is over; a caught signal is delivered on the way to user mode.
Done(t) == Return(t) /\ caught' = caught \ {t} /\ cpu' = cpu

Unlock(t) ==
    /\ locks' = [locks EXCEPT ![Handle(t)] = "none"]
    /\ wake_flock_waiters(Waiters)
    /\ Done(t)

Grant(t, how) ==
    /\ ~conflicts(Handle(t), how)
    /\ locks' = [locks EXCEPT ![Handle(t)] = how]
    /\ wake_flock_waiters(IF downgrade(Handle(t), how) THEN Waiters ELSE {})
    /\ Done(t)

\* A conversion that would have to wait loses the lock it converts.
GiveUp(t) == locks' = [locks EXCEPT ![Handle(t)] = "none"]

WouldBlock(t, how) ==
    /\ conflicts(Handle(t), how)
    /\ GiveUp(t)
    /\ wake_flock_waiters(IF locks[Handle(t)] # "none" THEN Waiters ELSE {})
    /\ Done(t)

\* The caller is marked Blocked before it wakes the others, so it wakes itself
\* too, and schedule() then finds a thread that is already queued.
Wait(t, how) ==
    /\ conflicts(Handle(t), how)
    /\ GiveUp(t)
    /\ LET W == IF locks[Handle(t)] # "none" THEN Waiters \cup {t} ELSE {}
       IN /\ state' = [p \in Pids |-> IF p \in W THEN "Ready"
                                     ELSE IF p = t THEN "Blocked" ELSE state[p]]
          /\ queue' = [p \in Pids |-> IF p \in W THEN queue[p] + 1 ELSE queue[p]]
          /\ \A p \in W : queue[p] < MaxEntries
    /\ pc' = [pc EXCEPT ![t] = Flock(how)]
    /\ cpu' = "schedule"
    /\ UNCHANGED caught

flock(t, how, nonblock) ==
    /\ InUser(t) /\ ProcOf[t] \in open
    /\ \/ how = "UN" /\ Unlock(t)
       \/ how # "UN" /\ Grant(t, how)
       \/ how # "UN" /\ nonblock /\ WouldBlock(t, how)
       \/ how # "UN" /\ ~nonblock /\ Wait(t, how)
    /\ UNCHANGED <<space, reaps, current, open>>

\* The sleeper runs again: EINTR for a caught signal, else another pass.
ResumeFlock(t) ==
    /\ cpu = "run" /\ current = t /\ pc[t].op = "flock"
    /\ \/ /\ t \in caught
          /\ Done(t)
          /\ UNCHANGED <<state, queue, locks>>
       \/ t \notin caught /\ Grant(t, pc[t].how)
       \/ t \notin caught /\ Wait(t, pc[t].how)
    /\ UNCHANGED <<space, reaps, current, open>>

-----------------------------------------------------------------------------
(* The ways a description loses its last descriptor.                       *)

\* vn_close is called when no other process has a descriptor of h.
last_close(q) == q \in open /\ \A r \in open \ {q} : HandleOf[r] # HandleOf[q]

\* close_one with, in vn_close, release_all: the locks q's descriptor ends,
\* and whom that wakes.
Closed(q) == IF last_close(q) THEN [locks EXCEPT ![HandleOf[q]] = "none"] ELSE locks
ClosedWakes(q) == IF Closed(q) # locks THEN Waiters ELSE {}

close_one(t) ==
    /\ InUser(t) /\ ProcOf[t] \in open
    /\ locks' = Closed(ProcOf[t])
    /\ open' = open \ {ProcOf[t]}
    /\ wake_flock_waiters(ClosedWakes(ProcOf[t]))
    /\ UNCHANGED <<pc, space, reaps, current, cpu, caught>>

\* A process ends: by its own exit, or killed while another one is current.
terminate_thread_group(q) ==
    /\ Interruptible /\ \E t \in ThreadsOf(q) : Alive(t)
    /\ locks' = Closed(q)
    /\ open' = open \ {q}
    /\ Move(ClosedWakes(q), ThreadsOf(q), {}, {})
    /\ LET own == ThreadsOf(q) \cap {current}
       IN /\ space' = space \ (ThreadsOf(q) \ own)
          /\ reaps' = reaps \cup {<<t, "TeardownOnly">> : t \in own}
          /\ cpu' = IF own # {} /\ cpu = "run" THEN "schedule" ELSE cpu
    /\ UNCHANGED <<pc, current, caught>>

\* A caught signal for a thread in flock; wake_if_sleeping wakes a sleeper.
post_signal(p) ==
    /\ Interruptible /\ Alive(p) /\ pc[p].op = "flock" /\ p \notin caught
    /\ caught' = caught \cup {p}
    /\ wake_flock_waiters({p} \cap Waiters)
    /\ UNCHANGED <<pc, space, reaps, current, cpu, locks, open>>

FlockPreempt(t) ==
    /\ InUser(t) /\ queue[t] < MaxEntries
    /\ cpu' = "schedule"
    /\ UNCHANGED <<state, pc, space, queue, reaps, current, flockVars>>

-----------------------------------------------------------------------------
FlockInit ==
    /\ state = [p \in Pids |-> IF p = INIT THEN "Running" ELSE "Ready"]
    /\ pc = [p \in Pids |-> User]
    /\ space = Pids
    /\ queue = [p \in Pids |-> IF p = INIT THEN 0 ELSE 1]
    /\ reaps = {}
    /\ current = INIT
    /\ cpu = "run"
    /\ locks = [h \in Handles |-> "none"]
    /\ open = {ProcOf[t] : t \in Pids}
    /\ caught = {}

FlockSchedule == (schedule_inner \/ \E n \in Pids : Dispatch(n)) /\ UNCHANGED flockVars

FlockNext ==
    \/ FlockSchedule
    \/ \E t \in Pids : \/ \E how \in {"SH", "EX", "UN"}, nb \in BOOLEAN : flock(t, how, nb)
                       \/ ResumeFlock(t) \/ close_one(t) \/ post_signal(t) \/ FlockPreempt(t)
    \/ \E q \in Pids \ {INIT} : terminate_thread_group(q)

FlockSpec == FlockInit /\ [][FlockNext]_allVars

-----------------------------------------------------------------------------
(* Properties.                                                             *)

\* Type correctness: in particular no thread is queued a negative number of times.
FlockTypeOK ==
    /\ state \in [Pids -> States]
    /\ queue \in [Pids -> Nat]
    /\ locks \in [Handles -> Kinds]
    /\ open \subseteq Pids /\ caught \subseteq Pids

\* An exclusive lock excludes every other description, through conversions,
\* closes, deaths and waits that are cut short.
FlockExclusive ==
    \A g, h \in Handles : g # h /\ locks[g] = "EX" => locks[h] = "none"

\* No lost wakeup: a thread is asleep in flock only while a lock of another
\* description still stands in its way.
FlockNotLost == \A t \in Waiters : conflicts(Handle(t), pc[t].how)

\* vfs_advlock.rs: "A description's locks go when it's closed or unlocks."
ClosedHoldsNothing ==
    \A h \in Handles : locks[h] # "none" => \E q \in open : HandleOf[q] = h

\* scheduler.rs in wait_for_ready's caller: "every pid sitting in `READY_QUEUE`
\* has `state == Ready`".
QueuedIsReady == \A p \in Pids : queue[p] > 0 => state[p] = "Ready"
=============================================================================
