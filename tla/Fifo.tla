-------------------------------- MODULE Fifo --------------------------------
(***************************************************************************)
(* A named pipe of sys/fs/pipe.rs: opens that wait for their other end,    *)
(* the counts of open ends that the buffer's closed flags follow, and the  *)
(* reads and writes that block on them.  Processes have one thread and at  *)
(* most one descriptor of the FIFO; the bytes themselves are the subject   *)
(* of module Pipe, and here a buffer is how much it holds.                 *)
(* A step is what a system call does between two calls of schedule(); the  *)
(* filesystem lock is given up for the sleep in open (module FsLock).      *)
(***************************************************************************)
EXTENDS Integers, FiniteSets, TLC

CONSTANTS
    Procs,
    PIPE_CAPACITY,
    MaxOpens        \* bound: opens of each direction while the FIFO exists

Dirs == {"read", "write"}
Modes == SUBSET Dirs \ {{}}         \* O_RDONLY, O_WRONLY, O_RDWR
Other(d) == IF d = "read" THEN "write" ELSE "read"

VARIABLES
    exists,     \* FIFOS has an entry, and PIPES its buffer
    count,      \* Fifo.readers, Fifo.writers
    opens,      \* Fifo.reader_opens, Fifo.writer_opens
    data,       \* how much the buffer holds
    opening,    \* FIFO_OPENING: the mode of each blocked open, {} for none
    end,        \* FIFO_ENDS: the mode of each process's descriptor, {} for none
    state,      \* "run" (Ready or Running), a BlockReason, or "dead"
    call,       \* the system call each process is inside
    caught      \* the processes with a caught signal pending

fifo == <<exists, count, opens, data>>
vars == <<fifo, opening, end, state, call, caught>>

NoCall == [op |-> "none"]
OpenCall(mode, seen) == [op |-> "open", mode |-> mode, seen |-> seen]
Blocked == {"WaitingForPipeData", "WaitingForPipeSpace", "Polling"}

-----------------------------------------------------------------------------
\* fifo_changed wakes readers, writers and everyone in fifo_open or poll.
fifo_changed_MUT == {"WaitingForPipeData", "WaitingForPipeSpace"}
fifo_changed == Blocked

Woken(R) == [p \in Procs |-> IF state[p] \in R THEN "run" ELSE state[p]]
Idle(p) == state[p] = "run" /\ call[p] = NoCall
Returns(p) == call' = [call EXCEPT ![p] = NoCall] /\ caught' = caught \ {p}

\* What an open adds to, and a close takes from, a count.
one(mode, d) == IF d \in mode THEN 1 ELSE 0

Opened(f, mode) == [d \in Dirs |-> (IF exists THEN f[d] ELSE 0) + one(mode, d)]

\* fifo_release, for the modes in M of processes that give up their ends; the
\* last one out takes the buffer with it.
given_back_MUT(M, d) == Cardinality({p \in DOMAIN M : d \in M[p] /\ end[p] # {}})
given_back(M, d) == Cardinality({p \in DOMAIN M : d \in M[p]})

fifo_release(M) ==
    /\ count' = [d \in Dirs |-> count[d] - given_back(M, d)]
    /\ exists' = (exists /\ \E d \in Dirs : count'[d] # 0)
    /\ data' = IF exists' THEN data ELSE 0
    /\ opens' = IF exists' THEN opens ELSE [d \in Dirs |-> 0]

\* The direction an open has to wait for, given the counts after it, if any.
Awaits(mode, nonblock, n) ==
    {d \in Dirs : mode = {Other(d)} /\ n[d] = 0 /\ (d = "write" => ~nonblock)}

\* oxidebsd_fifo_open up to its first sleep.  A nonblocking open for writing
\* with no reader fails with ENXIO and changes nothing.
fifo_open(p, mode, nonblock) ==
    /\ Idle(p) /\ end[p] = {}
    /\ \A d \in mode : exists => opens[d] < MaxOpens
    /\ ~(mode = {"write"} /\ nonblock /\ (exists => count["read"] = 0))
    /\ exists' = TRUE
    /\ count' = Opened(count, mode)
    /\ opens' = Opened(opens, mode)
    /\ \/ /\ Awaits(mode, nonblock, count') = {}
          /\ end' = [end EXCEPT ![p] = mode]
          /\ state' = Woken(fifo_changed)
          /\ UNCHANGED <<opening, call>>
       \/ /\ Awaits(mode, nonblock, count') # {}
          /\ opening' = [opening EXCEPT ![p] = mode]
          /\ state' = [Woken(fifo_changed) EXCEPT ![p] = "Polling"]
          /\ call' = [call EXCEPT ![p] = OpenCall(mode, opens')]
          /\ UNCHANGED end
    /\ UNCHANGED <<data, caught>>

\* The other end was opened since, even if it has been closed again.
met(c) == \E d \in Dirs : c.mode = {Other(d)} /\ opens[d] # c.seen[d]

\* The loop of oxidebsd_fifo_open after a wake.
ResumeOpen(p) ==
    /\ state[p] = "run" /\ call[p].op = "open"
    /\ LET c == call[p]
           GivesBack == /\ fifo_release(p :> c.mode)
                        /\ state' = Woken(fifo_changed)
                        /\ UNCHANGED end
       IN \/ /\ met(c)
             /\ \/ end' = [end EXCEPT ![p] = c.mode] /\ UNCHANGED <<fifo, state>>
                \/ GivesBack                        \* the descriptor table is full
             /\ opening' = [opening EXCEPT ![p] = {}]
             /\ Returns(p)
          \/ /\ ~met(c) /\ p \in caught             \* EINTR
             /\ GivesBack
             /\ opening' = [opening EXCEPT ![p] = {}]
             /\ Returns(p)
          \/ /\ ~met(c) /\ p \notin caught
             /\ state' = [state EXCEPT ![p] = "Polling"]
             /\ UNCHANGED <<fifo, opening, end, call, caught>>

-----------------------------------------------------------------------------
\* One pass of blocking_read and write_into.  End of file, EPIPE and EAGAIN
\* return and change nothing else.
fifo_read(p) ==
    \/ /\ data > 0
       /\ data' = data - 1
       /\ state' = Woken({"WaitingForPipeSpace", "Polling"})
       /\ Returns(p)
    \/ /\ data = 0 /\ count["write"] = 0
       /\ Returns(p)
       /\ UNCHANGED <<data, state>>
    \/ /\ data = 0 /\ count["write"] > 0
       /\ state' = [state EXCEPT ![p] = "WaitingForPipeData"]
       /\ call' = [call EXCEPT ![p] = [op |-> "read"]]
       /\ UNCHANGED <<data, caught>>

room == data < PIPE_CAPACITY

fifo_write(p) ==
    \/ /\ count["read"] = 0
       /\ Returns(p)
       /\ UNCHANGED <<data, state>>
    \/ /\ count["read"] > 0 /\ room
       /\ data' = data + 1
       /\ state' = Woken({"WaitingForPipeData", "Polling"})
       /\ Returns(p)
    \/ /\ count["read"] > 0 /\ ~room
       /\ state' = [state EXCEPT ![p] = "WaitingForPipeSpace"]
       /\ call' = [call EXCEPT ![p] = [op |-> "write"]]
       /\ UNCHANGED <<data, caught>>

Transfer(p) ==
    /\ \/ Idle(p) /\ "read" \in end[p] /\ fifo_read(p)
       \/ Idle(p) /\ "write" \in end[p] /\ fifo_write(p)
    /\ UNCHANGED <<exists, count, opens, opening, end>>

ResumeTransfer(p) ==
    /\ state[p] = "run"
    /\ \/ call[p].op = "read" /\ fifo_read(p)
       \/ call[p].op = "write" /\ fifo_write(p)
    /\ UNCHANGED <<exists, count, opens, opening, end>>

fifo_close(p) ==
    /\ Idle(p) /\ end[p] # {}
    /\ fifo_release(p :> end[p])
    /\ end' = [end EXCEPT ![p] = {}]
    /\ state' = Woken(fifo_changed)
    /\ UNCHANGED <<opening, call, caught>>

\* The process dies: abandon_fifo_open, and close_all of its descriptors.
terminate_process(p) ==
    /\ state[p] # "dead"
    /\ IF opening[p] \cup end[p] = {}
         THEN state' = [state EXCEPT ![p] = "dead"] /\ UNCHANGED fifo
         ELSE /\ fifo_release(p :> opening[p] \cup end[p])
              /\ state' = [Woken(fifo_changed) EXCEPT ![p] = "dead"]
    /\ opening' = [opening EXCEPT ![p] = {}]
    /\ end' = [end EXCEPT ![p] = {}]
    /\ call' = [call EXCEPT ![p] = NoCall]
    /\ caught' = caught \ {p}

\* A caught signal; wake_if_sleeping wakes a sleeper in open, not one in
\* read or write.
post_signal(p) ==
    /\ state[p] # "dead" /\ call[p].op = "open" /\ p \notin caught
    /\ caught' = caught \cup {p}
    /\ state' = [state EXCEPT ![p] = IF @ = "Polling" THEN "run" ELSE @]
    /\ UNCHANGED <<fifo, opening, end, call>>

-----------------------------------------------------------------------------
Init ==
    /\ exists = FALSE /\ data = 0
    /\ count = [d \in Dirs |-> 0] /\ opens = [d \in Dirs |-> 0]
    /\ opening = [p \in Procs |-> {}] /\ end = [p \in Procs |-> {}]
    /\ state = [p \in Procs |-> "run"]
    /\ call = [p \in Procs |-> NoCall]
    /\ caught = {}

Next == \E p \in Procs :
    \/ \E mode \in Modes, nonblock \in BOOLEAN : fifo_open(p, mode, nonblock)
    \/ ResumeOpen(p) \/ Transfer(p) \/ ResumeTransfer(p) \/ fifo_close(p)
    \/ terminate_process(p) \/ post_signal(p)

Spec == Init /\ [][Next]_vars

-----------------------------------------------------------------------------
\* Type correctness: no count goes below zero, the buffer stays in its bounds.
TypeOK ==
    /\ exists \in BOOLEAN
    /\ count \in [Dirs -> 0..Cardinality(Procs)]
    /\ opens \in [Dirs -> 0..MaxOpens]
    /\ data \in 0..PIPE_CAPACITY
    /\ opening \in [Procs -> SUBSET Dirs] /\ end \in [Procs -> SUBSET Dirs]
    /\ state \in [Procs -> Blocked \cup {"run", "dead"}]
    /\ caught \subseteq Procs

\* readers and writers count exactly the open ends and the blocked opens,
\* through failed, interrupted and abandoned opens; so an open that waits finds
\* its FIFO when it wakes (the expect in oxidebsd_fifo_open), and nothing is
\* left of a FIFO that nobody has open.
CountsMatch ==
    /\ \A d \in Dirs :
         count[d] = Cardinality({p \in Procs : d \in opening[p] \cup end[p]})
    /\ exists <=> \E p \in Procs : opening[p] \cup end[p] # {}
    /\ ~exists => data = 0

\* Someone opened the end that p's open waits for after p began to wait.
PeerOpened(p) ==
    /\ call[p].op = "open"
    /\ \E d \in Dirs : call[p].mode = {Other(d)} /\ opens[d] > call[p].seen[d]

\* No lost wakeup: an open sleeps only until the other end is opened, a read
\* only while there is no data and a writer might send some, a write only
\* while the buffer is full and a reader might drain it.
NoLostWakeup ==
    \A p \in Procs :
      /\ state[p] = "Polling" => ~PeerOpened(p)
      /\ state[p] = "WaitingForPipeData" => data = 0 /\ count["write"] > 0
      /\ state[p] = "WaitingForPipeSpace" => data = PIPE_CAPACITY /\ count["read"] > 0
=============================================================================
