-------------------------------- MODULE MCIpc -------------------------------
(***************************************************************************)
(* Pipes, message queues, semaphores, shared memory, futexes, signals and  *)
(* timers, in instances that make their interesting cases happen.  They    *)
(* share nothing: in a behaviour the one that load names moves.  Pipe has  *)
(* variables of its own; the others hold their state in v1 to v11, as the  *)
(* instances say, and a variable an instance does not use is None.         *)
(***************************************************************************)
EXTENDS Pipe, TLC

CONSTANTS t1, t2, t3, p1, p2, p3, q1, q2

\* The processes of message queues and semaphores are interchangeable: nothing
\* there depends on the order of pids.
Crowd == {p1, p2, p3}
Pair == {q1, q2}
Symmetric == Permutations(Crowd) \cup Permutations(Pair)

\* Two of the pipe's threads share a process; where O_NONBLOCK is set and
\* cleared, the second of them is not created.
MCThreads == {t1, t2, t3}
MCProcOf == (t1 :> "p") @@ (t2 :> "p") @@ (t3 :> "q")
MCDistinct == (t1 :> "A") @@ (t2 :> "B") @@ (t3 :> "C")

VARIABLES load, v1, v2, v3, v4, v5, v6, v7, v8, v9, v10, v11

few == <<v1, v2, v3, v4, v5, v6, v7>>
rest == <<v8, v9, v10, v11>>
ipcVars == <<load, vars, few, rest>>

-----------------------------------------------------------------------------
\* POSIX message queues: three processes at one queue that holds one message,
\* two that make, unlink and share queues, and two that fill a queue with
\* messages of two priorities.
MqCrowd == INSTANCE Mqueue WITH
    Procs <- Crowd, Ends <- {1}, MaxId <- 1, Prios <- {0}, mq_maxmsg <- 1, BadBuffers <- FALSE,
    state <- v1, call <- v2, caught <- v3, name <- v4, queues <- v5, ends <- v6, fd <- v7

MqLife == INSTANCE Mqueue WITH
    Procs <- Pair, Ends <- {1, 2}, MaxId <- 2, Prios <- {0}, mq_maxmsg <- 1, BadBuffers <- FALSE,
    state <- v1, call <- v2, caught <- v3, name <- v4, queues <- v5, ends <- v6, fd <- v7

MqOrder == INSTANCE Mqueue WITH
    Procs <- Pair, Ends <- {1}, MaxId <- 1, Prios <- {0, 1}, mq_maxmsg <- 3, BadBuffers <- FALSE,
    state <- v1, call <- v2, caught <- v3, name <- v4, queues <- v5, ends <- v6, fd <- v7

\* System V semaphores: a mutual exclusion lock with SEM_UNDO beside a count of
\* items, taken together by one of the arrays.
Op(num, op, undo, nowait) == [num |-> num, op |-> op, undo |-> undo, nowait |-> nowait]
Lock == <<Op("lock", 0, FALSE, FALSE), Op("lock", 1, TRUE, FALSE)>>
Unlock == <<Op("lock", -1, TRUE, TRUE)>>
PutItem == <<Op("items", 1, FALSE, FALSE)>>
TakeItem == <<Op("lock", 0, FALSE, FALSE), Op("items", -1, TRUE, FALSE), Op("lock", 1, TRUE, FALSE)>>

SemCrowd == INSTANCE SysvSem WITH
    Procs <- Crowd, Keys <- {"k"}, Sems <- {"lock", "items"}, MaxId <- 1, MaxVal <- 1, SEMVMX <- 1,
    OpArrays <- {Lock, Unlock, PutItem, TakeItem}, Undoable <- {"lock"},
    state <- v1, call <- v2, caught <- v3, keys <- v4, sets <- v5, made <- v6, undo <- v7

SemLife == INSTANCE SysvSem WITH
    Procs <- Pair, Keys <- {"k"}, Sems <- {"lock"}, MaxId <- 2, MaxVal <- 1, SEMVMX <- 1,
    OpArrays <- {Lock, Unlock}, Undoable <- {"lock"},
    state <- v1, call <- v2, caught <- v3, keys <- v4, sets <- v5, made <- v6, undo <- v7

\* System V message queues.
AllSelectors == [typ : {0, 1, -2}, except : {FALSE}] \cup {[typ |-> 1, except |-> TRUE]}

MsgOrder == INSTANCE SysvMsg WITH
    Procs <- Pair, MaxId <- 1, Types <- {1, 2}, Lens <- {1, 2}, Selectors <- AllSelectors,
    DEFAULT_QBYTES <- 3, NewQbytes <- {2},
    state <- v1, call <- v2, caught <- v3, key <- v4, queues <- v5, made <- v6

MsgCrowd == INSTANCE SysvMsg WITH
    Procs <- Crowd, MaxId <- 2, Types <- {1, 2}, Lens <- {1}, Selectors <- AllSelectors,
    DEFAULT_QBYTES <- 1, NewQbytes <- {1},
    state <- v1, call <- v2, caught <- v3, key <- v4, queues <- v5, made <- v6

\* System V shared memory.
Shm == INSTANCE SysvShm WITH
    Spaces <- {1, 2}, Addrs <- {1}, Keys <- {"k"}, MaxId <- 2, MaxAttach <- 2,
    FramesRunOut <- FALSE,
    keys <- v1, segs <- v2, made <- v3, alive <- v4, map <- v5, attach <- v6

\* Futexes: three threads of a process with a lock and a condition, and two
\* processes with a semaphore in shared memory.
FutexGroup == INSTANCE Futex WITH
    Procs <- 1..3, tgid <- <<1, 1, 1>>, Words <- {"cond", "lock"}, Shared <- {}, Tid <- "tid",
    Timeouts <- FALSE, state <- v1, call <- v2, caught <- v3, word <- v4

FutexShared == INSTANCE Futex WITH
    Procs <- 1..3, tgid <- <<1, 1, 3>>, Words <- {}, Shared <- {"sem"}, Tid <- "tid",
    Timeouts <- TRUE, state <- v1, call <- v2, caught <- v3, word <- v4

\* A standard signal that ends or stops by default and a real-time one, which
\* the handler of the first blocks.
SigTerm == INSTANCE Signals WITH
    Sigs <- {1, 3}, SIGRTMIN <- 3, Default <- (1 :> "term" @@ 3 :> "term"), RT_QUEUE_CAP <- 2,
    SaMask <- (1 :> {3} @@ 3 :> {}), NoDefer <- {1}, HandlerCalls <- 1,
    MaxNested <- 2, WrapAt <- 65536, proc <- v1

SigStop == INSTANCE Signals WITH
    Sigs <- {2, 3}, SIGRTMIN <- 3, Default <- (2 :> "stop" @@ 3 :> "term"), RT_QUEUE_CAP <- 2,
    SaMask <- (2 :> {3} @@ 3 :> {}), NoDefer <- {}, HandlerCalls <- 1,
    MaxNested <- 2, WrapAt <- 65536, proc <- v1

\* Sleeps and the interval timer, and a POSIX timer.
Sleeps == INSTANCE Timers WITH
    Timers <- {}, PerTick <- 2, MaxNs <- 7, MaxLost <- 1, Durations <- {2, 3},
    Intervals <- {0, 1}, Walls <- {0, 2},
    ns <- v1, now <- v2, lost <- v3, served <- v4, ahead <- v5, cpu <- v6, asleep <- v7,
    call <- v8, pending <- v9, itimer <- v10, slot <- v11

Posix == INSTANCE Timers WITH
    Timers <- {"a"}, PerTick <- 2, MaxNs <- 5, MaxLost <- 1, Durations <- {1},
    Intervals <- {0, 1, 2}, Walls <- {0, 2},
    ns <- v1, now <- v2, lost <- v3, served <- v4, ahead <- v5, cpu <- v6, asleep <- v7,
    call <- v8, pending <- v9, itimer <- v10, slot <- v11

-----------------------------------------------------------------------------
None == "none"
Three == v1 = None /\ v2 = None /\ v3 = None
Four == v4 = None /\ v5 = None /\ v6 = None /\ v7 = None
Last4 == v8 = None /\ v9 = None /\ v10 = None /\ v11 = None

IpcInit ==
    /\ Init
    /\ \/ load \in {"pipe", "nonblock"} /\ Three /\ Four /\ Last4
       \/ /\ Last4
          /\ \/ load = "mq crowd" /\ MqCrowd!Init
             \/ load = "mq life" /\ MqLife!Init
             \/ load = "mq order" /\ MqOrder!Init
             \/ load = "sem crowd" /\ SemCrowd!Init
             \/ load = "sem life" /\ SemLife!Init
             \/ load = "msg order" /\ MsgOrder!Init /\ v7 = None
             \/ load = "msg crowd" /\ MsgCrowd!Init /\ v7 = None
             \/ load = "shm" /\ Shm!Init /\ v7 = None
             \/ load = "futex group" /\ FutexGroup!Init /\ v5 = None /\ v6 = None /\ v7 = None
             \/ load = "futex shared" /\ FutexShared!Init /\ v5 = None /\ v6 = None /\ v7 = None
             \/ load = "sig term" /\ SigTerm!Init /\ v2 = None /\ v3 = None /\ Four
             \/ load = "sig stop" /\ SigStop!Init /\ v2 = None /\ v3 = None /\ Four
       \/ load = "sleeps" /\ Sleeps!Init
       \/ load = "posix" /\ Posix!Init

Ipc ==
    \/ load = "mq crowd" /\ MqCrowd!Next
    \/ load = "mq life" /\ MqLife!Next
    \/ load = "mq order" /\ MqOrder!Next
    \/ load = "sem crowd" /\ SemCrowd!Next
    \/ load = "sem life" /\ SemLife!Next
    \/ load = "msg order" /\ MsgOrder!Next /\ UNCHANGED v7
    \/ load = "msg crowd" /\ MsgCrowd!Next /\ UNCHANGED v7
    \/ load = "shm" /\ Shm!Next /\ UNCHANGED v7
    \/ load = "futex group" /\ FutexGroup!Next /\ UNCHANGED <<v5, v6, v7>>
    \/ load = "futex shared" /\ FutexShared!Next /\ UNCHANGED <<v5, v6, v7>>
    \/ load = "sig term" /\ SigTerm!Next /\ UNCHANGED <<v2, v3, v4, v5, v6, v7>>
    \/ load = "sig stop" /\ SigStop!Next /\ UNCHANGED <<v2, v3, v4, v5, v6, v7>>

IpcNext ==
    /\ UNCHANGED load
    /\ \/ load = "pipe" /\ Next /\ UNCHANGED <<nonblock, few, rest>>
       \/ load = "nonblock" /\ Next /\ state'[t2] = "unborn" /\ UNCHANGED <<few, rest>>
       \/ Ipc /\ UNCHANGED <<vars, rest>>
       \/ load = "sleeps" /\ Sleeps!Next /\ UNCHANGED vars
       \/ load = "posix" /\ Posix!Next /\ UNCHANGED vars

IpcSpec == IpcInit /\ [][IpcNext]_ipcVars

-----------------------------------------------------------------------------
(* Properties, next to those of Pipe; the modules say what they mean.      *)

\* Type correctness, of the pipe and of what moves.
IpcTypeOK ==
    /\ TypeOK
    /\ load = "mq crowd" => MqCrowd!TypeOK
    /\ load = "mq life" => MqLife!TypeOK
    /\ load = "mq order" => MqOrder!TypeOK
    /\ load = "sem crowd" => SemCrowd!TypeOK
    /\ load = "sem life" => SemLife!TypeOK
    /\ load = "msg order" => MsgOrder!TypeOK
    /\ load = "msg crowd" => MsgCrowd!TypeOK
    /\ load = "shm" => Shm!TypeOK
    /\ load = "futex group" => FutexGroup!TypeOK
    /\ load = "futex shared" => FutexShared!TypeOK
    /\ load = "sig term" => SigTerm!TypeOK
    /\ load = "sig stop" => SigStop!TypeOK
    /\ load = "sleeps" => Sleeps!TypeOK
    /\ load = "posix" => Posix!TypeOK

\* No lost wakeup: nobody sleeps in mq_send, mq_receive, semop, msgsnd, msgrcv
\* or futex(FUTEX_WAIT) once the call can go on or its object is gone.
NoCallLeftAsleep ==
    /\ load = "mq crowd" => MqCrowd!NoLostWakeup /\ MqCrowd!SleepersQueueLives
    /\ load = "mq life" => MqLife!NoLostWakeup /\ MqLife!SleepersQueueLives
    /\ load = "mq order" => MqOrder!NoLostWakeup /\ MqOrder!SleepersQueueLives
    /\ load = "sem crowd" => SemCrowd!NoLostWakeup
    /\ load = "sem life" => SemLife!NoLostWakeup
    /\ load = "msg order" => MsgOrder!NoLostWakeup
    /\ load = "msg crowd" => MsgCrowd!NoLostWakeup
    /\ load = "futex group" => FutexGroup!NoStaleSleeper
    /\ load = "futex shared" => FutexShared!NoStaleSleeper

\* Nobody sleeps in pause, sigsuspend, sigtimedwait, ppoll, nanosleep or
\* clock_nanosleep once its signal is pending or its time has come.
NoSignalOrTimeMissed ==
    /\ load = "sig term" => SigTerm!NoSleepOnSignal
    /\ load = "sig stop" => SigStop!NoSleepOnSignal
    /\ load = "sleeps" => Sleeps!WokenInTime /\ Sleeps!NoSleepOnTimer
    /\ load = "posix" => Posix!WokenInTime /\ Posix!NoSleepOnTimer

\* mq_receive takes the oldest of the messages of the highest priority, and
\* msgrcv the first message its msgtyp and MSG_EXCEPT ask for.
ReceivesInOrder ==
    [][/\ load = "mq order" => MqOrder!PriorityFifo
       /\ load = "mq life" => MqLife!PriorityFifo
       /\ load = "msg order" => MsgOrder!SelectionExact
       /\ load = "msg crowd" => MsgCrowd!SelectionExact]_ipcVars

\* Semaphore operations with SEM_UNDO are undone when their process ends.
UndoBalances ==
    /\ load = "sem crowd" => SemCrowd!UndoBalances
    /\ load = "sem life" => SemLife!UndoBalances

\* A queue, a set or a segment lives exactly as long as its name, key, open
\* descriptors and attachments say, counts are exact, and a key leads to an object
\* that is there: for sets, to every one of its key.
LifetimesExact ==
    /\ load = "mq crowd" => MqCrowd!QueueLifetime
    /\ load = "mq life" => MqLife!QueueLifetime
    /\ load = "sem crowd" => SemCrowd!KeysExact
    /\ load = "sem life" => SemLife!KeysExact
    /\ load = "shm" => Shm!NattchExact /\ Shm!MappedIsAttached /\ Shm!KeysLive

\* The mask is the program's own again once sigsuspend, ppoll and the handlers
\* they let in have returned; a real-time signal is pending exactly while its
\* queue has an entry; and sigreturn chains to no delivery the outermost one had
\* not found pending.
DeliveryExact ==
    /\ load = "sig term" =>
         /\ SigTerm!MaskRestored
         /\ SigTerm!PendingMatchesQueue
         /\ SigTerm!ChainWithinSnapshot
    /\ load = "sig stop" =>
         /\ SigStop!MaskRestored
         /\ SigStop!PendingMatchesQueue
         /\ SigStop!ChainWithinSnapshot

\* A sleep lasts as long as was asked for; on the wall clock, to less than a tick.
SleepsLongEnough ==
    [][/\ load = "sleeps" => Sleeps!SleptLongEnough
       /\ load = "posix" => Posix!SleptLongEnough]_ipcVars

\* timer_getoverrun gives the expirations since the signal, by the clock.
OverrunExact == load = "posix" => Posix!OverrunExact
=============================================================================
