----------------------------- MODULE MCObjects ------------------------------
(***************************************************************************)
(* The kernel's objects that share nothing but the scheduler, side by      *)
(* side: the filesystem lock, file locks, named pipes, the ready queue and *)
(* the task queue.  In a behaviour one of them moves and the others keep   *)
(* their initial state.  The filesystem lock and the file locks share the  *)
(* variables of the scheduler.                                             *)
(***************************************************************************)
EXTENDS FsLock, Flock, Taskqueue

CONSTANTS Moves, p1, p2, p3

VARIABLES
    moving,
    fExists, fCount, fOpens, fData, fOpening, fEnd, fState, fCall, fCaught,
    rReady, rCurrent, rIdle, rEstcpu, rNice, rQuantum, rPhase, rMid

fVars == <<fExists, fCount, fOpens, fData, fOpening, fEnd, fState, fCall, fCaught>>
rVars == <<rReady, rCurrent, rIdle, rEstcpu, rNice, rQuantum, rPhase, rMid>>
vars == <<moving, fsVars, flockVars, fVars, rVars, tqVars>>

\* Three processes that take the lock one level deep and are killed; the .cfg
\* file has two that nest it and are stopped as well.
Kills == INSTANCE FsLock WITH MaxDepth <- 1, Stops <- FALSE

\* The .cfg file has three processes with a description of a file each; here
\* two of them share one, as after a fork.
Alone == [t \in Pids |-> t]
Share == INSTANCE Flock WITH HandleOf <- <<1, 2, 2>>

F == INSTANCE Fifo WITH
    Procs <- {p1, p2, p3}, PIPE_CAPACITY <- 1, MaxOpens <- 2,
    exists <- fExists, count <- fCount, opens <- fOpens, data <- fData,
    opening <- fOpening, end <- fEnd, state <- fState, call <- fCall, caught <- fCaught

\* One thread with the source's constants, a shorter second apart, for every
\* priority it can have.
K == INSTANCE ReadyQueue WITH
    Threads <- {1}, First <- 1, Kernel <- {}, RtOf <- <<0>>,
    Nices <- {-20, 0, 20}, Loads <- {0, 2048, 40960},
    TIMER_HZ <- 5, PREEMPT_QUANTUM_TICKS <- 4, PRIO_MIN <- -20, PRIO_MAX <- 20,
    INVERSE_ESTCPU_WEIGHT <- 8, RQ_PPQ <- 4, FSCALE <- 2048,
    ready <- rReady, current <- rCurrent, idle <- rIdle, estcpu <- rEstcpu,
    nice <- rNice, quantum <- rQuantum, phase <- rPhase, mid <- rMid

\* Two time-sharing threads, a real-time one and a kernel one, scaled down.
R == INSTANCE ReadyQueue WITH
    Threads <- 1..4, First <- 1, Kernel <- {4}, RtOf <- <<0, 0, 50, 0>>,
    Nices <- {0, 3}, Loads <- {0, 2},
    TIMER_HZ <- 2, PREEMPT_QUANTUM_TICKS <- 2, PRIO_MIN <- -3, PRIO_MAX <- 3,
    INVERSE_ESTCPU_WEIGHT <- 1, RQ_PPQ <- 2, FSCALE <- 2,
    ready <- rReady, current <- rCurrent, idle <- rIdle, estcpu <- rEstcpu,
    nice <- rNice, quantum <- rQuantum, phase <- rPhase, mid <- rMid

\* The lock and the file locks start from the same state of the scheduler.
Init ==
    /\ moving \in Moves
    /\ FsInit /\ FlockInit /\ TqInit
    /\ F!Init
    /\ IF moving = "keys" THEN K!Init ELSE R!Init

\* A process that stays out of the filesystem.
Keeps(p) == pc'[p] = pc[p]

Next ==
    /\ UNCHANGED moving
    /\ \/ moving = "fslock" /\ Kills!FsNext /\ UNCHANGED <<flockVars, fVars, rVars, tqVars>>
       \/ moving = "nested" /\ FsNext /\ Keeps(3) /\ UNCHANGED <<flockVars, fVars, rVars, tqVars>>
       \/ moving = "flock" /\ FlockNext /\ UNCHANGED <<lockVars, fVars, rVars, tqVars>>
       \/ moving = "shared" /\ Share!FlockNext /\ UNCHANGED <<lockVars, fVars, rVars, tqVars>>
       \/ moving = "fifo" /\ F!Next /\ UNCHANGED <<fsVars, flockVars, rVars, tqVars>>
       \/ moving = "keys" /\ K!Next /\ UNCHANGED <<fsVars, flockVars, fVars, tqVars>>
       \/ moving = "ready" /\ R!Next /\ UNCHANGED <<fsVars, flockVars, fVars, tqVars>>
       \/ moving = "tasks" /\ TqNext /\ UNCHANGED <<fsVars, flockVars, fVars, rVars>>

Spec == Init /\ [][Next]_vars

-----------------------------------------------------------------------------
(* Properties, next to those of the modules extended; the modules say     *)
(* what each of them means.                                                *)

\* Type correctness of every object: counts stay in their bounds, pending
\* saturates, estcpu is limited, no thread is queued a negative number of times.
TypesOK ==
    /\ FsTypeOK /\ FlockTypeOK /\ TqTypeOK
    /\ moving = "fifo" => F!TypeOK
    /\ moving = "keys" => K!TypeOK /\ K!KeyBands
    /\ moving = "ready" => R!TypeOK /\ R!KeyBands

\* No lost wakeup: nothing sleeps in the filesystem lock's enter, in flock, in a
\* FIFO's open, read or write, or as the queue's thread once what it sleeps for
\* has happened.
NoneLeftAsleep ==
    /\ FreeMeansNoSleeper /\ WorkerNotLost
    /\ IF moving = "shared" THEN Share!FlockNotLost ELSE FlockNotLost
    /\ moving = "fifo" => F!NoLostWakeup

\* A FIFO's counts are exactly its open ends and blocked opens, and a
\* description that is closed holds no lock (release_all).
BooksExact ==
    /\ moving = "fifo" => F!CountsMatch
    /\ IF moving = "shared" THEN Share!ClosedHoldsNothing ELSE ClosedHoldsNothing

\* timer_interrupt_handler: no better thread waits after a tick.
PreemptedWithinTick == R!PreemptedWithinTick
=============================================================================
