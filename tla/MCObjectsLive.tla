--------------------------- MODULE MCObjectsLive ----------------------------
(***************************************************************************)
(* What must eventually happen in pipes, named pipes, the ready queue, the *)
(* task queue, the filesystem lock and a thread's signals, side by side as *)
(* in MCObjects: one of them moves.                                        *)
(***************************************************************************)
EXTENDS Integers, TLC

CONSTANTS Moves, th1, th2, th3

VARIABLES
    moving,
    pData, pClosed, pSlots, pNonblock, pState, pCall,
    fExists, fCount, fOpens, fData, fOpening, fEnd, fState, fCall, fCaught,
    rReady, rCurrent, rIdle, rEstcpu, rNice, rQuantum, rPhase, rMid,
    tList, tPending, tRunning, tWorker, tTold, tChan, tDraining,
    kState, kPc, kSpace, kQueue, kReaps, kCurrent, kCpu,
    kOwner, kAsleep, kDepth, kWaiters, kDeferred, kPosted,
    proc

pVars == <<pData, pClosed, pSlots, pNonblock, pState, pCall>>
fVars == <<fExists, fCount, fOpens, fData, fOpening, fEnd, fState, fCall, fCaught>>
rVars == <<rReady, rCurrent, rIdle, rEstcpu, rNice, rQuantum, rPhase, rMid>>
tVars == <<tList, tPending, tRunning, tWorker, tTold, tChan, tDraining>>
kLock == <<kOwner, kAsleep, kDepth, kWaiters, kDeferred, kPosted>>
kVars == <<kState, kPc, kSpace, kQueue, kReaps, kCurrent, kCpu, kLock>>
vars == <<moving, pVars, fVars, rVars, tVars, kVars, proc>>

\* Two threads of one process, th1 and th2, and one of a process it forks.
P == INSTANCE Pipe WITH
    Threads <- {th1, th2, th3}, Root <- th1,
    ProcOf <- th1 :> "p" @@ th2 :> "p" @@ th3 :> "q",
    ByteOf <- [t \in {th1, th2, th3} |-> "A"], PIPE_CAPACITY <- 1, PIPE_BUF <- 1, MaxIO <- 1,
    data <- pData, closed <- pClosed, slots <- pSlots, nonblock <- pNonblock,
    state <- pState, call <- pCall

\* A process that opens a FIFO and the one at its other end.
F == INSTANCE Fifo WITH
    Procs <- {th1, th2}, PIPE_CAPACITY <- 1, MaxOpens <- 2,
    exists <- fExists, count <- fCount, opens <- fOpens, data <- fData,
    opening <- fOpening, end <- fEnd, state <- fState, call <- fCall, caught <- fCaught

\* Three time-sharing threads of equal nice value.
R == INSTANCE ReadyQueue WITH
    Threads <- 1..3, First <- 1, Kernel <- {}, RtOf <- <<0, 0, 0>>,
    Nices <- {0}, Loads <- {0, 2},
    TIMER_HZ <- 2, PREEMPT_QUANTUM_TICKS <- 2, PRIO_MIN <- -3, PRIO_MAX <- 3,
    INVERSE_ESTCPU_WEIGHT <- 2, RQ_PPQ <- 2, FSCALE <- 2,
    ready <- rReady, current <- rCurrent, idle <- rIdle, estcpu <- rEstcpu,
    nice <- rNice, quantum <- rQuantum, phase <- rPhase, mid <- rMid

T == INSTANCE Taskqueue WITH
    Tasks <- {"t1", "t2", "t3"}, Drainers <- {"d1"}, MaxPending <- 2,
    list <- tList, pending <- tPending, running <- tRunning, worker <- tWorker,
    told <- tTold, chan <- tChan, draining <- tDraining

\* Two processes that take the filesystem lock and are killed.
K == INSTANCE FsLock WITH
    MaxPid <- 2, MaxDepth <- 1, Stops <- FALSE, HolderKills <- FALSE,
    state <- kState, pc <- kPc, space <- kSpace, queue <- kQueue, reaps <- kReaps,
    current <- kCurrent, cpu <- kCpu, owner <- kOwner, asleep <- kAsleep, depth <- kDepth,
    waiters <- kWaiters, deferred <- kDeferred, posted <- kPosted

\* A signal that stops by default and a real-time one, which the handler of the
\* first blocks.
G == INSTANCE Signals WITH
    Sigs <- {2, 3}, SIGRTMIN <- 3, Default <- (2 :> "stop" @@ 3 :> "term"), RT_QUEUE_CAP <- 1,
    SaMask <- (2 :> {3} @@ 3 :> {}), NoDefer <- {}, HandlerCalls <- 1,
    MaxNested <- 2, WrapAt <- 65536

Init == moving \in Moves /\ P!Init /\ F!Init /\ R!Init /\ T!TqInit /\ K!FsInit /\ G!Init

Next ==
    /\ UNCHANGED moving
    /\ \/ moving = "pipe" /\ P!Next /\ UNCHANGED <<fVars, rVars, tVars, kVars, proc>>
       \/ moving = "fifo" /\ F!Next /\ UNCHANGED <<pVars, rVars, tVars, kVars, proc>>
       \/ moving = "ready" /\ R!Next /\ UNCHANGED <<pVars, fVars, tVars, kVars, proc>>
       \/ moving = "tasks" /\ T!TqNext /\ UNCHANGED <<pVars, fVars, rVars, kVars, proc>>
       \/ moving = "fslock" /\ K!FsNext /\ UNCHANGED <<pVars, fVars, rVars, tVars, proc>>
       \/ moving = "signals" /\ G!Next /\ UNCHANGED <<pVars, fVars, rVars, tVars, kVars>>

\* The fairness of each object's own specification, while it is the one that
\* moves: a thread that can run runs in the end, the timer keeps ticking, and
\* not always in the few instructions of the fault trampoline, the disk answers,
\* a handler returns, and a filesystem operation is finite.
\* As one object moves, the fairness of steps of different objects can be
\* stated of their disjunction.
Pipes(A) == moving = "pipe" /\ A /\ UNCHANGED <<moving, fVars, rVars, tVars, kVars, proc>>
Fifos(A) == moving = "fifo" /\ A /\ UNCHANGED <<moving, pVars, rVars, tVars, kVars, proc>>
Ready(A) == moving = "ready" /\ A /\ UNCHANGED <<moving, pVars, fVars, tVars, kVars, proc>>
Tasks(A) == moving = "tasks" /\ A /\ UNCHANGED <<moving, pVars, fVars, rVars, kVars, proc>>
Locks(A) == moving = "fslock" /\ A /\ UNCHANGED <<moving, pVars, fVars, rVars, tVars, proc>>
Signal(A) == moving = "signals" /\ A /\ UNCHANGED <<moving, pVars, fVars, rVars, tVars, kVars>>

Woken(t) == Pipes(P!Resume(t))

Opener(t) == Fifos(F!ResumeOpen(t) \/ F!ResumeTransfer(t))

GoesOn(t) == Locks(K!Resuming(t) \/ K!exit_dying(t) \/ K!Preempt(t))

Fairness ==
    /\ WF_vars(Woken(th1) \/ Opener(th1) \/ Ready(rMid /\ R!fault_trampoline)
               \/ Tasks(T!RunTask) \/ Locks(K!Schedule) \/ Signal(G!do_sigreturn))
    /\ WF_vars(Woken(th2) \/ Opener(th2) \/ Tasks(T!TaskDone) \/ GoesOn(1))
    /\ WF_vars(Woken(th3) \/ Tasks(T!ResumeDrain("d1")) \/ GoesOn(2))
    /\ \A t \in 1..2 :
         /\ SF_vars(Locks(K!Dispatch(t) /\ UNCHANGED kLock))
         /\ SF_vars(Locks(K!DiskDone(t)))
         /\ SF_vars(Locks(K!exit(t) /\ kDepth = 1))
    /\ SF_vars(Locks(K!wake_disk_waiters) \/ Ready(R!Tick /\ ~rMid))

Spec == Init /\ [][Next]_vars /\ Fairness

-----------------------------------------------------------------------------
(* What each object owes to one of its threads or tasks, and what it owes. *)

Thread == <<th1, th2, th3>>
Task == <<"t1", "t2", "t3">>

Owed(i) ==
    CASE moving = "pipe" -> P!HungUp(Thread[i])
      [] moving = "fifo" -> i # 3 /\ F!PeerOpened(Thread[i])
      [] moving = "ready" -> R!Queued(i)
      [] moving = "tasks" -> tPending[Task[i]] > 0
      [] moving = "fslock" -> i \in kDeferred
      [] moving = "signals" -> proc.run = "run" /\ proc.at = "user" /\ proc.stack # <<>>

Paid(i) ==
    CASE moving = "pipe" -> pCall[Thread[i]] = P!NoCall
      [] moving = "fifo" -> i = 3 \/ fCall[Thread[i]] = F!NoCall
      [] moving = "ready" -> R!Runs(i)
      [] moving = "tasks" -> tWorker = Task[i]
      [] moving = "fslock" -> i \notin kDeferred
      [] moving = "signals" -> proc.run # "run" \/ proc.at # "user" \/ proc.stack = <<>>

\* Nobody waits for ever: a read or write of a pipe returns once the other end
\* is closed for good; an open of a FIFO returns once the other end was opened,
\* even if it is closed again before the waiter runs; a ready thread runs, when
\* the threads have equal nice values; an enqueued task is called; a process
\* that was to be killed while the filesystem lock was held is killed, however
\* often the holder sleeps; and a handler that sends its own signal again does
\* not keep the program from going on.
NobodyWaitsForEver == \A i \in 1..3 : Owed(i) ~> Paid(i)
=============================================================================
