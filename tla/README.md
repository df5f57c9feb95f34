# A TLA+ verification of the OxideBSD kernel

OxideBSD is a small BSD-like operating system in Rust: a monolithic kernel under
`src/sys`, and user programs around it. The kernel runs on **one processor and is
never preempted**: interrupts are masked in it, so what a system call does
between two calls of `schedule()` is one atomic step, and other threads and
interrupts come in exactly where a thread sleeps, where user code runs and where
the processor idles. Everything that is hard about this kernel lies in those
gaps: what was true before a sleep may be false after it, a wake may come too
early or not at all, a process may be killed, stopped or reaped while it is half
way through something, and a machine may stop between two disk writes. That is
what the modules here describe and check.

TLC checks the modules on small instances; TLAPS proves the central invariants
and three refinements for instances of any size. `PROJECT.json` maps every
definition to the lines it translates and lists the runs, the mutants (for each
property, a plausible bug that breaks it), the hazards and the theorems.

## 1. The parts of the system

Parts marked * are modelled, parts marked + are proved about.

| Part | State | Hard behaviour | Correct means |
|---|---|---|---|
| Scheduler*+ (`process/scheduler.rs`) | `READY_QUEUE`, `CURRENT_PID`, pending reaps | a queued thread is killed; an exiting thread runs on the stack its reap frees; `CURRENT_PID` is stale while idle | queue = the Ready threads; nothing in use is freed |
| Priorities* (`process/sched_4bsd.rs`, timer) | `estcpu`, nice, quantum | the tick that decays also compares | bands stay apart; a better thread waits for one tick that may preempt; nobody starves at equal nice |
| Processes and threads*+ (`process/lifecycle.rs`) | the process table, parents, children, vfork links | parent and child die in any order; vfork partners are killed or stopped | no lost wait4; every zombie has a living parent; a vfork caller stays off the CPU exactly during the borrow |
| Kill, stop, continue*+ (`process/signals.rs`) | pending sets, stop and continue notes | a loop over a group whose members it kills; interrupts in the idle loop | only Running threads run; notes are about the current state |
| Signal delivery* (`process/signals.rs`, `syscall/mod.rs`) | masks, real-time queues, handler stack | handlers that chain, sigsuspend, a wait that races a signal | the mask is restored; no sleep on a pending signal; queues and pending sets agree |
| Sleeping and timers* (`process/timers.rs`) | deadlines, interval and POSIX timers | lost ticks, a clock that is set, a tick that finds the table locked | sleeps last long enough and end; overruns are exact |
| Filesystem lock*+ (`fs/fslock.rs`) | owner, depth, waiters, deferred kills | the holder sleeps; kills must wait for it | only the living holder is inside; no waiter or deferred kill is forgotten |
| Pipes*+ and FIFOs* (`fs/pipe.rs`) | buffer, closed ends, counts of opens | partial writes between sleeps, last close by kill, opens that wait | a byte stream; final end of file; no lost wakeup |
| flock*+ (`kern/vfs_advlock.rs`) | locks of a vnode by description | conversion, shared descriptions | exclusion; no lost wakeup |
| Task queue*+ (`kern/subr_taskqueue.rs`) | list, pending counts, running | enqueue while the task runs | list = tasks with enqueues; drain returns when idle |
| POSIX message queues*+, SysV queues*, semaphores*, shared memory* (`fs/mqueue.rs`, `fs/sysv_*.rs`) | queues, values, undo, attach counts | arrays are atomic; removal under sleepers; undo at exit | limits, lifetimes and order exact; no lost wakeup |
| Futexes*+ (`process/limits.rs`) | waiters by address | a wake races the deadline; requeue | a wake is not lost |
| Memory map*+ (`process/vm_map.rs`) | entries, total size, search cursor | splits at both ends of a range; a cursor that must lose no gap | the map is a partial function of pages |
| Copy-on-write*+ (`memory/refs.rs`, `memory/address_space.rs`, `process/mm.rs`) | leaves, counts of sharers, free frames | forks that fail half way, protections changed on shared pages | each space has memory of its own; frames are counted exactly |
| Page cache* (`memory/pagecache.rs`) | entries, uses, frames | a fill sleeps for the disk while the file changes | pages of one state of the file; frames exact |
| Buffer cache and oxfs* (`kern/vfs_bio.rs`, `modules/oxfs`) | buffers, dirty list, disk | a crash between two writes; eviction of what is dirty | the disk is consistent; fsync is complete |
| Vnodes and name cache* (`kern/vfs_subr.rs`, `vfs_cache.rs`) | use and hold counts, free list, names | recycling under sleepers, forced unmounts | nothing dangling; names are true |
| File descriptor tables, sockets and TCP, terminals and sessions, init, the OOM killer, drivers, boot, formats, user tools | | | not modelled, or only through the modules above; `PROJECT.json` has the reason for each |

## 2. The modules

| Module | Models | State |
|---|---|---|
| `Scheduler` | `schedule_inner`, `wait_for_ready`, the ready queue as how often each pid is in it, the reaps put off until another thread is current | `state`, `pc`, `space`, `queue`, `reaps`, `current`, `cpu` |
| `Process` (extends `Scheduler`) | life cycle, wait4, the kill family | parents, children, thread groups, vfork links, notes, pending signals, the rest of a signal loop |
| `FsLock` (extends `Scheduler`) | the filesystem lock | `OWNER`, `OWNER_ASLEEP`, `DEPTH`, `WAITERS`, `DEFERRED` |
| `Flock` (extends `Scheduler`) | flock(2) on a vnode | the locks, open descriptions, caught signals |
| `Pipe`, `ByteStream` | an anonymous pipe, and what it promises: put, take, hang up | buffer, closed ends, descriptors, what each thread is in |
| `Fifo` | a named pipe | counts of ends, counts of opens, blocked opens |
| `ReadyQueue` | priorities and the ordered queue, the tick and the fault trampoline it does not preempt | `READY_QUEUE`, `estcpu`, nice, quantum, phase |
| `Taskqueue` | the task queue over wait channels | list, pending, running, channels |
| `Sleepers` | processes and the calls they sleep in, which `Mqueue`, `SysvSem`, `SysvMsg` and `Futex` extend | state, call, caught signals |
| `Mqueue`, `SysvMsg`, `SysvSem`, `SysvShm`, `Futex` | the IPC objects | queues, sets, segments, words |
| `Signals` | how one thread receives signals | one record `proc`: mask, pending, queues, handler stack |
| `Timers` | sleeps, the interval timer and POSIX timers of a process, under the timer interrupt | time, ticks, deadlines |
| `VmMap`, `VmPages` | the map of an address space by entries, and the map of pages it implements | entries, size, cursor |
| `Cow`, `PrivateMemory` | copy-on-write fork, and the private memory it implements | leaves, protections, counts, free frames, contents |
| `PageCache` | the page cache and those who fill, map and change files | cache, disk version, lock, uses, where each process is |
| `Bio`, `Oxfs` | the buffer cache as operators, and oxfs on it with crashes | cache, platter, files in use and open for writing |
| `Vnodes` | vnodes and the name cache of a mount | vnodes, lock, descriptors, mappings, running programs |
| `MCProcesses`, `MCObjects`, `MCObjectsLive`, `MCIpc`, `MCMemory` | the instances of the passing runs; several parts that share nothing stand side by side, and in a behaviour one of them moves | |
| `MCProcess`, `MCFsLock`, `MCFlock`, `MCDeviations` | the instances of the runs that end with a counterexample | |
| `ProcessProofs`, `TreeProofs`, `SyncProofs`, `PipeProofs`, `MqueueProofs`, `FutexProofs`, `VmMapProofs`, `CowProofs` | the proofs | |

How code becomes actions:

* **A step is a piece of kernel code between two `schedule()` calls.** A call that
  may sleep is an action for the pass up to the sleep and a `Resume...` action for
  the pass after it; `pc` (or `call`) holds what the sleeping stack remembers,
  including values read before the sleep.
* **`state`, `queue` and `pc` are separate.** A thread that is Ready is in the queue
  because the code put it there. Scheduler keeps the number of entries, so that a
  missing, a stale or a doubled entry can be seen, and `Dispatch` may pick any of
  them; ReadyQueue keeps the order and says which.
* **The processor.** `cpu` is `"run"` (the current thread executes), `"signal"` (the
  loop that signals a group), `"schedule"` (in `schedule_inner`), or `"idle"` (in
  `wait_for_ready`). Interrupts arrive in user code, or in the idle halt with an
  empty queue; `current` goes on naming the last thread there, as `CURRENT_PID` does.
* **Signals** in Process are what they do: terminate, stop, continue, or wake a
  sleeper because a handler is to run; masks, queues and handlers are in Signals.
  Process groups are arbitrary sets of processes, chosen at each kill, which is what
  any history of setpgid amounts to. A signal character comes from the PS/2 or a USB
  keyboard (`keyboard_interrupt_handler`), which leaves user code it killed or stopped
  through `schedule()`, or over the serial console (`serial_interrupt`), which does not
  and leaves that to the next tick. The second, and kill(0, sig), are the steps
  `RunsOn`: `Spec` is the system without them, `SpecAll` the whole.
* **Disk.** An oxfs operation runs to its end under the filesystem lock and leaves
  the disk commands it issued; they are carried out block by block, and a crash may
  come between any two.
* **Data** is abstracted: bytes are told apart only by their writer (so the order of one
  writer's own bytes is not seen), a buffer in
  Fifo is how much it holds, a disk transfer is a sleep that ends, a block of a file
  is known by the file that wrote it.

## 3. The runs

| Run | Instance | What it shows |
|---|---|---|
| `process` (MCProcesses) | five workloads: a tree of up to 4 threads (fork, vfork, exec, clone, exit, exit_group, wait4), and one of 4 with kills (vfork, clone, exit, wait4, kill); the other calls with 3; job control with 3, by kill or by killpg and the keyboards | the invariant `SchedInv` (queue exact, nothing freed in use, only the Running thread runs), `StopNoteIsStopped`, `WaitNotLost`, `VforkBorrows`, `ZombieHasParent`, `DeadForGood` |
| `objects` (MCObjects) | the filesystem lock (two processes that nest and are stopped, three that are killed), flock with own and with shared descriptions, a FIFO, the ready queue, the task queue | nobody is left asleep, only the living holder is inside, deferred kills have a holder, exclusion, exact books, the task list, preemption within a tick (outside the fault trampoline), drain |
| `objects_live` (MCObjectsLive) | pipe, FIFO, ready queue, task queue, filesystem lock, signals | `NobodyWaitsForEver` |
| `ipc` (MCIpc) | pipe; message queues, semaphores, shared memory, futexes, signals, sleeps and timers in 14 instances, with processes that are interchangeable as a symmetry set | no lost wakeup anywhere, nobody sleeps on a pending signal or a passed deadline, SEM_UNDO balances, lifetimes, delivery and overruns are exact, receives take the oldest message of those asked for, sleeps are not short, end of file is final, Pipe implements ByteStream |
| `memory` (MCMemory) | the memory map, copy-on-write, the page cache, oxfs with crashes, vnodes | `MapSound`, the map implements VmPages; `RefsExact`, `WritesGoThrough`, Cow implements PrivateMemory; frames, files, disk, vnodes and names as in section 1 |
| `own_group`, `leader_exit`, `fslock_holder`, `flock_queue`, `vnode_close`, `oxfs_order`, `signal_budget` | see section 5 | what a comment of the source says, and the code does not do |

**Bounds.** `MaxPid` counts every thread ever created, pid 1 included. Three are
enough for a parent, a child and a sibling, thread or killer; four add a grandchild,
so that an orphan is taken over while it is a zombie. A pipe of capacity 2 with
transfers of up to 2 makes a write sleep with part of its bytes written, and two
threads in one process and one in another tell descriptors from threads. A filesystem
lock of depth 2 shows the nesting; one holder, one waiter and one victim are three
processes. FIFO opens are capped at `MaxOpens` of each direction in a FIFO's life: two
let an open be missed, abandoned and repeated. The FIFO has three processes in
`objects`, and two in `objects_live`. In ReadyQueue the source's constants make
`estcpu` range over hundreds of values; one thread has them (`keys`, with a second of
5 ticks), and four threads of every class have small ones (`ready`). `MaxPending` 2
reaches saturation. `MaxEntries` in Flock caps how often a thread can be in the queue,
as the code allows it to be there twice (section 5). The IPC objects have one instance
with three processes at a full or empty object (a crowd) and one with two ids, so that
an object is removed and made anew under sleepers. `MaxNs` and `MaxLost` bound the
time and the lost ticks of Timers, where a tick has two parts and sleeps of two and
three of them need rounding. One of two senders of a message queue with room for more
sends again while the other's message of the same priority is queued. In Signals one
of the two handlers has SA_NODEFER in one instance, and `MaxNested` bounds the
handlers on the stack. The memory map has three pages, of which a range leaves a head,
a middle and a tail; Cow has two spaces with every protection and three without, three
frames for at most six leaves, so that frames run out and counts fill (`MaxRefs` 2).
The page cache has one file of two pages and one or two frames, so that a fill finds
none free, in three instances: writes and truncations, forced unmounts, and three
processes. oxfs has one file behind an indirect block on a disk with room for just
that, and two files of a direct block each on a disk with one block for both, so that
disks fill and a freed block becomes another file's; more than `DirtyLimit` dirty
buffers make a write flush. A miss may evict any cached block in the middle of an
operation on the one file (`Evictions`); the two files have no evictions, and no file
has both a direct and an indirect block (section 5). `maxvnodes` is one or two, so
that every lookup recycles; one instance folds case and runs programs. Deadlock is not
checked, because every one of these systems may come to rest: all processes asleep,
ended or with nothing to call, or a bound spent.

**What the passing runs leave out.** `OnlyRunningRuns` (part of `SchedInv`) is
checked, with all else of the `process` run, for signals of the keyboards, and kills
of processes and of groups the caller is not in; with a signal character from the
serial console or kill(0, sig) it fails (`own_group`), and with it `SchedInv`,
`StopNoteIsStopped`, `ZombieHasParent` and `DeadForGood`: the thread that runs on may
fork, sleep or wait as a zombie. The filesystem lock leaves out the keyboard killing
the lock's holder in the idle loop (`HolderKills`); with it `HolderAliveInside` fails
(`fslock_holder`). A close that races a lookup (`Races`), be it of close(2), an exit
or a kill, and files of double-indirect blocks are in the violation runs only. They
are constants or separate next-state relations, not changes of the modules.

**Fairness** is assumed in `objects_live` only: weak fairness of the steps of woken
threads, of the timer's tick, of `schedule()`, of the task queue's thread and its
tasks, and of a handler's return; and, for the filesystem lock, strong fairness of the
dispatch of a queued thread (the priority of those that run decays, and kernel code is
finite), of the disk's answer or the timer's second look (`wake_disk_waiters` is called
from both), and of a filesystem operation's end, since a stop or another sleep may
come in between. No fairness is assumed of system calls: nobody has to read, write or
close. That a queued thread runs is itself checked, in the ready queue, for threads
of equal nice value; a thread of nice +20 may wait for ever next to busy threads
of nice -20, by design of the priorities. Of the fault trampoline it is assumed that the
thread gets out of it, a few instructions on: a tick that falls inside it preempts nobody.

## 4. The proofs

TLAPS checks the eight proof modules to the last leaf, for every value of the
constants that satisfies the named assumptions: `PipeAssumption` (a positive
capacity, a root thread among the threads), `SchedulerAssumption` (at least two pids),
`ProcessAssumption` (workloads, signals and options of the known kinds),
`FlockAssumption` (threads have processes, processes have descriptions),
`TaskqueueAssumption` (a positive saturation; the names of no task and of the
queue's thread are not in use), VmMap's
(addresses are naturals, `mmap_base` is not below `lo`, lengths are positive) and
Cow's (finitely many spaces and pages, pages and frames are numbers and 0 is no
frame, the value of an absent page is no value). TLC evaluates them in the runs.
Mqueue and Futex have several instances side by side in the `ipc` run; their
assumptions, `MqConstants` and `FutexConstants`, are hypotheses of the theorems.

**Pipes** (`PipeProofs`), any number of threads and processes, any capacity.
`NoLostWakeupAlways` proves `Spec => [](TypeOK /\ NoLostWakeup)`. The inductive
invariant is `PipeInv`, which adds `CallsFit`: only a thread inside poll(2) sleeps
as a poller, so that the end whose readiness it waits for is known, and a write's
written and remaining bytes never exceed what was asked for, so that a resumed write
keeps its type. There is one lemma for each routine (read, write, poll, close), and
`NextInv` combines them. `PipeImplementsByteStream` is the refinement, from lemmas
that each routine is a put, a take, a hang-up or a stutter of ByteStream.
`EndOfFileIsFinal` is the action property that nothing is written once the write
end is closed.

**The scheduler and the process table** (`ProcessProofs`), any
number of pids, any workload. `SchedInvAlways` proves
`SpecAll /\ [][~RunsOn]_vars => []SchedInv`: of the whole system, as long as no signal
character comes over the serial console and no program signals its own group, after
which the invariant is false (`own_group`). The other theorems of the two modules have
the same hypothesis.
`ReadyQueueAlwaysExact`, `NeverFreedInUse` and `OnlyTheRunningThreadRuns` are
consequences. The three properties are not inductive alone. A reap removes a table
entry, so `SchedInv` says that what is queued for reaping is dead; a fork fills an
entry, so it says that pids not handed out are absent; the death of a group spares or
includes the current thread, so it says that leaders are in their groups; and a group
signal is a loop that other events do not interrupt but that kills as it goes, so it
says in which states the loop can find the current thread. The argument goes through one
operator, `Move` (who is woken, killed, stopped, removed): `MoveFacts` shows that it
keeps the queue exact if it wakes only threads that are not queued, `WokenBlocked`
that wakers pick only blocked threads, `TerminateKept` and `GroupKept` do
termination, `Assemble` puts the invariant back together, and there is one lemma per
group of actions. `ReadyQueueAlwaysExact` is about the calls of module Process. A routine
that marks itself Blocked and then wakes its own kind breaks it: flock does
(section 5).

**The process tree** (`TreeProofs`), over the same specification:
`TreeAlwaysSound`, `StopsReportedAreStops`, `VforkAlwaysBorrows`, `WaitNeverLost`,
`ZombiesHaveParents` and the action property `DeadStayDead`. The inductive invariant
`ProcInv` is `SchedInv`, `TreeInv`, `StopNoteIsStopped`, `VforkBorrows` and
`WaitNotLost` together, because each leans on the others: that a death wakes the right
wait4 needs the dead process to be listed by the parent it names (`TreeInv`); that this
list is right after the parent's own death needs `reparent_orphans` to hand every
child, zombies included, to a living pid 1; a stop that is reported must be of a
process that a later kill has not ended; and a vfork's borrow ends by exec, exit or a
kill of either side. To the tree every step is of one of six kinds: a thread is
created, some threads end, a child is reaped, a program is executed, a vfork caller
goes on, or nothing changes. `NextShape` shows so action by action, and
the rest of the module that each kind keeps each conjunct. The proof
attempt corrected a property: `WaitNotLost` says of stops only that no wait4 but pid
1's sleeps through them, since a stopped child that pid 1 inherits wakes nobody
(section 5).

**The filesystem lock** (`SyncProofs`), any number of threads, any depth.
`FsLockSound` proves `FsInv`; `HolderAlwaysInside` and `EnterNotLost` follow. The
lock's `WAITERS` is a count that decides whether a release looks for sleepers at all,
so the invariant must say that it is never less than the number of threads in
`enter` (`Cardinality(Entrants) <= waiters`; a waiter that was killed leaves it too
high, which is harmless), next to which states and program counters go together. The
hypothesis `HolderKills = FALSE` excludes the one event that breaks the lock
(`fslock_holder`, section 5). `DeferredNeverForgotten`, that a termination put off has
a holder who will carry it out, needs no hypothesis.

**File locks** (`SyncProofs`), any threads, processes and descriptions, shared or
not. `FlockExclusiveAlways` and `FlockNotLostAlways` follow from `FlockInv`: a lock is
granted only past `conflicts`, and whoever drops or weakens a lock wakes all who
wait, so a sleeper always has a lock of another description against it. The second
needs no assumption about the ready queue, although flock leaves doubled entries there
(section 5): an entry too many makes a thread look again, which is harmless.
`ClosedHoldsNothingAlways`, that a lock does not outlive its description, needs more:
`OpenInv` says that the dead are not queued and that whoever is inside flock has its
descriptor open. That is true only when every process has one thread, which is the
theorem's hypothesis; a sibling thread that closes the descriptor during the wait breaks
it (section 5).

**The task queue** (`SyncProofs`), any tasks, drainers and saturation. `TqInv` is the
type invariant, `ListMatchesPending` (a task is linked once exactly when its count is
not 0, so enqueue may decide by the count alone), `WorkerNotLost` and the fact that
`running` names the task the thread is in. The action property `DrainedIsIdle`
follows: drain sees `pending` and `running` at 0, and by `TqInv` that is the list and
the worker.

**POSIX message queues** (`MqueueProofs`), any processes, descriptions, queues,
priorities and capacity. `MqInv` has the types, `TableBooks` (`open_count` is the
number of descriptions of the queue, a queue exists while it has a name or a
description, the name is that of a queue not unlinked, a registration belongs to an open
description), `CallsHeld` (whoever sleeps in a queue has a description of it),
`PrioritySorted` and, where copying a message out cannot fail, `NoLostWakeup`.
`SleepersQueueLives` is not inductive by itself: that no close removes a queue under
a sleeper follows from `CallsHeld` and the count. For `NoLostWakeup` the argument is that
a queue changes from empty, or from full, in one send or receive only, and that this
one wakes all who wait on that side. `insert_by_priority` is shown to insert behind the
last message of at least its priority, which keeps the order; that messages of one
priority keep theirs (`PriorityFifo`) is left to TLC.

**Futexes** (`FutexProofs`), any threads, groups and words. `NoStaleSleeperAlways`: nobody
sleeps for a value its word no longer has, unless the thread that stored the new one
has its wake still to do. `FutexInv` adds `OneJoiner`: an exit wakes one waiter of
the thread's `Tid` word, so at most one may wait there. A waiter that is
requeued waits from then on for its new word to change from what it holds at the move,
and a signal, a deadline or a kill only takes a waiter away.

**The memory map** (`VmMapProofs`), any range of pages, any requests.
`MapAlwaysSound` proves `MapSound`: entries are disjoint, `size` is the total of what
counts, the cursor loses no gap, and `find_space` returns the first place that
fits, although it searches from the cursor and jumps from entry to entry. The
inductive invariant is `VmInv` (`TypeOK`, `Disjoint`, `SizeExact`, `CursorSound`).
`SizeExact` is a sum over a set of records that splits change in several places at
once; `SumIsCount` turns it into the number of pages covered, by the least-number
principle on the size of the set, and then removing or splitting is set algebra.
`FirstFitIs` shows the search correct: no candidate start between where it began and what it
returns can fit, since each jump passes an entry that overlaps it. `MapOfPages` is the
refinement of VmPages, with one lemma per operation on which pages are covered and
what they show.

**Copy-on-write** (`CowProofs`), any finite number of spaces and pages, any
frames. `FramesAlwaysCounted` proves `RefsExact`, `WritesAlwaysGoThrough` that a
page the program may write is writable or faults to a copy and that the scratch page
never needs a frame, and `MemoryAlwaysPrivate` the refinement of PrivateMemory. The
inductive invariant `CowInv` adds what makes these true together: a space maps a frame
at most once (so a fork that adds one to the count of each frame adds one for each
new leaf), a writable leaf has its frame to itself (so a store is seen by nobody
else), a space that does not exist has no leaves and no protections left over, and the
scratch page is present and never protected. Each step changes the set of leaves that
map a frame by nothing, by one more or by one less; `GainsOne` and `LosesOne` are
the arithmetic of these cases. There is one lemma per action (`FillKept`, `ForkKept`
and so on); each shows that the action keeps `CowInv` and that it is a step of
PrivateMemory, or invisible there: a resolved copy, a failed fork and a changed
protection are.

**Only model-checked.** For want of a proof so far: Fifo, ReadyQueue, SysvShm, signal
delivery, timers, the page cache and vnodes. Out of the prover's reach: all liveness
(`NobodyWaitsForEver`), which needs fairness and ENABLED; and what is computed by
recursion or by a fold over data of any length, because the library's induction
theorems take an operator as a parameter: the operation arrays of SysvSem (whether an
array can proceed, and `UndoBalances`, which is a sum), the byte counts and the
selection of SysvMsg, `PriorityFifo` of Mqueue, and oxfs on the buffer cache, whose
write paths are RECURSIVE. Where a proof here needs induction on a number it uses a
least counterexample in a set of naturals.

## 5. Where the code and its comments disagree

With a run each:

* `own_group`: the serial console's interrupt has no frame and leaves the reschedule to
  the next tick (`tty/console.rs:88`), so a thread killed or stopped by ^C or ^Z from
  there runs on, and its next sleep overwrites its state, which is the crash that
  `cpu/interrupts.rs:920` describes and calls closed. A tick that polls a USB keyboard from
  inside the fault trampoline leaves the request to the next as well. And kill(0, sig),
  which goes through the members of the caller's own group, returns to user mode when
  the caller itself was killed or stopped (`process/signals.rs:250`). The counterexample
  is of the serial console; the run has both.
* `leader_exit`: a thread group's leader that exits before its threads is queued for
  removal like any thread, so when the group ends nobody tells the parent, which sleeps
  in wait4 for ever (`process/lifecycle.rs:2260`).
* `fslock_holder`: a process asleep on the disk with the filesystem lock is still
  `CURRENT_PID` when the processor idles. Killed from the keyboard then, it counts as
  ending itself, `busy` is not asked, and the lock stays with a dead owner
  (`process/lifecycle.rs:2107`).
* `flock_queue`: a conversion that has to wait marks its caller Blocked and then wakes
  every waiter, the caller included; `schedule()` queues it a second time, and the
  spare entry can run it when it is no longer Ready (`kern/vfs_advlock.rs:72`). The
  filesystem lock has the same shape where `release_for_sleep` carries out the
  caller's own deferred kill.
* `vnode_close`: close(2), and every exit and kill with the file open (`close_all`,
  `fs/fd.rs:937`), gives the vnode up without the filesystem lock and may sleep before
  it is done with it; a call with a path can recycle and free the vnode
  meanwhile (`kern/vfs_subr.rs:200`).
* `oxfs_order`: the outer index block of a double-indirect file can reach the disk
  before the inner one it points at (`modules/oxfs/src/buf.rs:87`).
* `signal_budget`: a delivery that is free takes one from a budget that may be 0, which
  wraps, and handlers may then chain without bound (`process/signals.rs:1283`).

Without a run, met while modelling:

* A pipe write of no more than PIPE_BUF bytes may be split when there is less room
  (`fs/pipe.rs:175`), where `fs/pipe.rs:375` speaks of "POSIX's atomic-write size".
* SIGCONT sets the continue note and posts SIGCHLD but wakes no wait4 that sleeps with
  WCONTINUED (`process/signals.rs:381`), although `process/lifecycle.rs:1863` names the
  continue transitions among those that wake the parent. `WaitNotLost` therefore speaks
  of deaths and stops only.
* `reparent_orphans` wakes pid 1 for the zombies it hands over and not for stopped
  processes (`process/lifecycle.rs:2175`): a wait4 of pid 1 with WUNTRACED can sleep
  next to a stopped child it has just inherited.
* Two comments are older than `reparent_orphans`: "Orphaned grandchildren are *not*
  reparented" (`process/lifecycle.rs:2013`) and "this codebase never reparents an
  orphan", so that a zombie may be "*never* reaped by anyone, ever"
  (`process/lifecycle.rs:2426`). The code hands them to pid 1, which is what
  `ZombieHasParent` says and `ZombiesHaveParents` proves.
* A waiter killed in `fslock::enter` stays counted in WAITERS (`fs/fslock.rs:59`);
  the count errs on the high side and costs a needless scan, never a wakeup.
* With two threads on one descriptor, one can close it while the other sleeps in
  flock, which is then granted a lock that no close will release
  (`kern/vfs_advlock.rs:78`), where the module says that a "description's locks go when
  it's closed or unlocks" (`kern/vfs_advlock.rs:3`). The runs have one thread per
  process, for which `ClosedHoldsNothing` is proved.
* A tick in the idle loop is charged to the last thread that ran, in `estcpu` and
  towards its CPU limit (`cpu/interrupts.rs:498`); ReadyQueue models it so.
* A LOCK_NB conversion that fails has lost the lock it was to convert, as in other
  BSDs.
* `Taskqueue.running` is one pointer: with more than one thread per queue `drain`
  could return early. Only one is ever started (`kern/subr_taskqueue.rs:150`).
* `semop` adds without the test against SEMVMX that SETVAL has (`fs/sysv_sem.rs:444`);
  `mq_timedreceive` with a bad buffer takes the message and wakes no sender
  (`fs/mqueue.rs:554`); the last close of an unlinked queue, by one thread while
  another sleeps in it, wakes nobody (`fs/mqueue.rs:354`); msgctl IPC_SET that raises
  the limit wakes no sender (`fs/sysv_msg.rs:477`); a shmat that fails for want of
  memory leaves its attach counted (`fs/sysv_shm.rs:353`). The instances leave these
  events out, by constants such as `BadBuffers` and `FramesRunOut`, or state their
  properties around them.
* A buffer whose write failed is marked clean (`kern/vfs_bio.rs:478`); `Failures` turns
  failing writes on in Oxfs, and the runs have them off.
* Without an HPET a nanosleep can be a tick short (`process/timers.rs:28`).
* An absolute time of CLOCK_REALTIME is turned into ticks towards zero
  (`process/timers.rs:439`), so a sleep to it can end less than a tick early, where
  other conversions are "rounded up (never fires *earlier* than requested)"
  (`process/timers.rs:363`). `SleepsLongEnough` allows that tick for this clock alone.
* When a System V segment that was removed loses its last attachment, the entry of its key
  goes, whose it may be by then (`fs/sysv_shm.rs:425`, `fs/sysv_shm.rs:462`): a segment
  made meanwhile with the same key can no longer be found by it. The model does so too;
  `LifetimesExact` asks of the keys only that each names a segment there is.
* write(2) calls `changed` before the file system takes the giant lock
  (`kern/vfs_vnops.rs:289`, `kern/vnode_if.rs:147`), where the page cache says "The VFS is
  the caller, holding the giant lock" (`memory/pagecache.rs:440`). An entry made while
  such a write waits is never retired and can show a mix of two states of the file;
  `OneStateOfFile` speaks of entries made while nobody was changing it.
* A fill asks whether its entry is stale only before it sleeps, so one that is under way
  may publish a page of the changed file, although "a page it can't fill is never filled
  later" (`memory/pagecache.rs:424`); `OneStateOfFile` leaves out entries that were given
  up as stale.
* A remount read-only is refused only for files open for writing. An unlinked file that is
  open for reading leaves a disk marked clean, and its release writes to it later
  (`modules/oxfs/src/lib.rs:380` asks nothing about the mount); a remount read-write
  sweeps its inode although it is in use, where "Nothing can refer to one yet"
  (`modules/oxfs/src/lib.rs:405`). Oxfs has both; `CleanIsClean` is silent after such a
  remount (`excused`).
* `release_inode` marks the unwritten index block of the file clean before it reads the
  pointers in it (`modules/oxfs/src/lib.rs:396`). A miss in between can evict it
  (`kern/vfs_bio.rs:358`), and the old contents of the block come back from the disk, so
  that blocks are leaked or others' are freed. It takes a file with both a direct and an
  index block, which the instances of the `memory` run do not have; with
  `DIRECT_BLOCKS` 1, `MaxSize` 2 and `LastBlk` 6 TLC finds it as a violation of
  `DiskConsistent`.

## 6. What is not modelled

In the modelled parts: the exit of pid 1, which the kernel supervises; the hang-up of
a session whose leader dies; the limits that refuse a fork; poll on anything but a
pipe; the OOM killer; processes with more than one thread in FsLock and Fifo, and in
the runs of Flock; more than one vnode in Flock; dup'ed descriptors of a pipe within a
process beyond one per end; shared mappings and the growth of the stack in Cow; links,
renames and subdirectories in oxfs. The parts not modelled at all, and why, are the
components of `PROJECT.json` with status `not_modelled`: TCP and sockets, terminals
and sessions, the OOM killer and init's supervision, which would come next, and those
that are hardware state (page tables, drivers, processor support), pure formatting
(devfs, procfs, sysctl), sequential data handling (on-disk formats, user tools) or
code from elsewhere.

## 7. Running it

    tlc -config MCProcesses.cfg MCProcesses
    tlc -config MCObjects.cfg MCObjects
    tlc -config MCObjectsLive.cfg MCObjectsLive
    tlc -config MCIpc.cfg MCIpc
    tlc -config MCMemory.cfg MCMemory
    tlapm PipeProofs.tla       (and ProcessProofs, TreeProofs, SyncProofs, MqueueProofs,
                                FutexProofs, VmMapProofs, CowProofs)

These end with no error; the configurations of the runs of section 5 (`MCProcess...`,
`MCFsLockHolder`, `MCFlockQueue`, `MCClose`, `MCOrder`, `MCChain`) end with a
counterexample.
`..._MUT` operators are the mutated forms that show each property can fail; no
specification uses them.
