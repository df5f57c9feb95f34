---------------------------------- MODULE Pipe ----------------------------------
(***************************************************************************)
(* An anonymous pipe, sys/fs/pipe.rs: one PipeBuffer, the two descriptions *)
(* that name its ends, and the threads that read, write, poll and close    *)
(* it.                                                                     *)
(*                                                                         *)
(* The kernel runs on one processor and is never preempted: what a system  *)
(* call does between two calls of schedule() is one atomic step.  A step   *)
(* that sleeps sets the thread's state to Blocked and ends; a woken thread *)
(* re-enters its loop at the top.  "run" stands for Ready and Running:     *)
(* which of the runnable threads goes next is any of them.                 *)
(***************************************************************************)
EXTENDS Integers, Sequences, FiniteSets

CONSTANTS
  Threads,        \* threads that may ever exist
  Root,           \* the thread whose pipe(2) made the pipe
  ProcOf,         \* ProcOf[t]: the process (thread group) t belongs to
  ByteOf,         \* ByteOf[t]: the byte t writes
  PIPE_CAPACITY,  \* bytes the buffer holds
  PIPE_BUF,       \* room poll(2) wants before it calls the pipe writable
  MaxIO           \* bound: the largest read or write a thread asks for

ASSUME PipeAssumption ==
  /\ Root \in Threads
  /\ PIPE_CAPACITY \in Nat \ {0}
  /\ PIPE_BUF \in 1..PIPE_CAPACITY
  /\ MaxIO \in Nat \ {0}

Procs == {ProcOf[t] : t \in Threads}
Bytes == {ByteOf[t] : t \in Threads}
Ends == {"Read", "Write"}

VARIABLES
  data,      \* PipeBuffer.data
  closed,    \* the ends closed for good: read_closed, write_closed
  slots,     \* slots[p]: the ends process p has a descriptor for
  nonblock,  \* nonblock[e]: O_NONBLOCK on the end's description
  state,     \* state[t]: scheduling state, as far as the pipe is concerned
  call       \* call[t]: the system call t is inside

vars == <<data, closed, slots, nonblock, state, call>>

Blocked == {"WaitingForPipeData", "WaitingForPipeSpace", "Polling"}
NoCall == [op |-> "none"]
Calls ==
  {NoCall}
    \cup [op : {"read"}, resid : 1..MaxIO]
    \cup [op : {"write"}, resid : 1..MaxIO, written : 0..MaxIO]
    \cup [op : {"poll"}, end : Ends]

(***************************************************************************)
(* The buffer is removed from PIPES once both ends are closed.  A removed  *)
(* buffer answers as an empty one with both ends closed does, so it is     *)
(* modelled as that.                                                       *)
(***************************************************************************)
ReadClosed == "Read" \in closed
WriteClosed == "Write" \in closed

TypeOK ==
  /\ data \in Seq(Bytes) /\ Len(data) <= PIPE_CAPACITY
  /\ closed \subseteq Ends
  /\ slots \in [Procs -> SUBSET Ends]
  /\ nonblock \in [Ends -> BOOLEAN]
  /\ state \in [Threads -> Blocked \cup {"unborn", "run", "dead"}]
  /\ call \in [Threads -> Calls]

\* pipe(2): an empty buffer, and the caller's process has both ends.
Init ==
  /\ data = <<>>
  /\ closed = {}
  /\ slots = [p \in Procs |-> IF p = ProcOf[Root] THEN Ends ELSE {}]
  /\ nonblock = [e \in Ends |-> FALSE]
  /\ state = [t \in Threads |-> IF t = Root THEN "run" ELSE "unborn"]
  /\ call = [t \in Threads |-> NoCall]

-----------------------------------------------------------------------------
\* wake_blocked_readers, wake_blocked_writers: both also wake every poller.
wake_blocked_readers == {"WaitingForPipeData", "Polling"}
wake_blocked_writers_MUT == {"WaitingForPipeSpace"}    \* forgets the pollers
wake_blocked_writers == {"WaitingForPipeSpace", "Polling"}

\* The states after every thread blocked for a reason in R is made Ready.
Woken(R) == [t \in Threads |-> IF state[t] \in R THEN "run" ELSE state[t]]

Returns(t) == call' = [call EXCEPT ![t] = NoCall]

\* The bytes left after a read takes n from the front.
Drained_MUT(n) == SubSeq(data, 1, Len(data) - n)         \* takes from the back
Drained(n) == SubSeq(data, n + 1, Len(data))

(***************************************************************************)
(* One pass of blocking_read's loop with n bytes still asked for.  A fault *)
(* in the caller's buffer moves fewer bytes and returns the error.         *)
(***************************************************************************)
blocking_read(t, n) ==
  LET avail == IF n < Len(data) THEN n ELSE Len(data) IN
  \/ /\ data # <<>>
     /\ \E moved \in 0..avail :
          /\ data' = Drained(moved)
          /\ state' = IF moved > 0 THEN Woken(wake_blocked_writers) ELSE state
     /\ Returns(t)
  \/ /\ data = <<>>
     /\ WriteClosed \/ nonblock["Read"]      \* end of file, or EAGAIN
     /\ Returns(t)
     /\ UNCHANGED <<data, state>>
  \/ /\ data = <<>>
     /\ ~ WriteClosed /\ ~ nonblock["Read"]
     /\ state' = [state EXCEPT ![t] = "WaitingForPipeData"]
     /\ call' = [call EXCEPT ![t] = [op |-> "read", resid |-> n]]
     /\ UNCHANGED data

\* write(2) fails: EPIPE, or short.
Broken_MUT == ReadClosed                                  \* forgets write_closed
Broken == ReadClosed \/ WriteClosed
Copies(t, n) == [i \in 1..n |-> ByteOf[t]]
Room_MUT == PIPE_CAPACITY + 1 - Len(data)                 \* one byte too many
Room == PIPE_CAPACITY - Len(data)

(***************************************************************************)
(* write_into's loop up to its return or its sleep, with n bytes still to  *)
(* write and w written.  When the bytes outnumber the room the buffer is   *)
(* filled, the readers are woken, and the next pass finds it full.         *)
(***************************************************************************)
write_into(t, n, w) ==
  LET moves == IF n < Room THEN n ELSE Room IN
  \/ /\ Broken
     /\ Returns(t)
     /\ UNCHANGED <<data, state>>
  \/ /\ ~ Broken
     /\ Room > 0
     /\ \E moved \in 0..moves :               \* fewer than moves: a fault
          /\ data' = data \o Copies(t, moved)
          /\ \/ /\ moved < moves \/ moved = n \/ nonblock["Write"]
                /\ state' = Woken(wake_blocked_readers)
                /\ Returns(t)
             \/ /\ moved = moves /\ moved < n /\ ~ nonblock["Write"]
                /\ state' = [Woken(wake_blocked_readers)
                               EXCEPT ![t] = "WaitingForPipeSpace"]
                /\ call' = [call EXCEPT ![t] =
                     [op |-> "write", resid |-> n - moved, written |-> w + moved]]
  \/ /\ ~ Broken
     /\ Room = 0
     /\ UNCHANGED data
     /\ \/ /\ nonblock["Write"]
           /\ Returns(t)
           /\ UNCHANGED state
        \/ /\ ~ nonblock["Write"]
           /\ state' = [state EXCEPT ![t] = "WaitingForPipeSpace"]
           /\ call' = [call EXCEPT ![t] =
                         [op |-> "write", resid |-> n, written |-> w]]

\* readiness: what poll(2) reports of an end; hangup and error end a poll too.
read_side == data # <<>> \/ WriteClosed
write_side == Broken \/ Room >= PIPE_BUF
readiness(e) == IF e = "Read" THEN read_side ELSE write_side

(***************************************************************************)
(* One pass of poll(2)'s loop on one end.  It returns when the end is      *)
(* ready or its descriptor is gone (POLLNVAL), and also when its deadline  *)
(* has passed or a signal is pending; it may sleep only when the end is    *)
(* not ready.                                                              *)
(***************************************************************************)
poll(t, e) ==
  /\ \/ /\ Returns(t)
        /\ UNCHANGED state
     \/ /\ ~ readiness(e) /\ e \in slots[ProcOf[t]]
        /\ state' = [state EXCEPT ![t] = "Polling"]
        /\ call' = [call EXCEPT ![t] = [op |-> "poll", end |-> e]]
  /\ UNCHANGED data

-----------------------------------------------------------------------------
\* A thread in user mode, about to make a system call on the end e.
InUser(t) == state[t] = "run" /\ call[t] = NoCall
Holds(t, e) == e \in slots[ProcOf[t]]

Read(t) ==
  /\ InUser(t) /\ Holds(t, "Read")
  /\ \E n \in 1..MaxIO : blocking_read(t, n)
  /\ UNCHANGED <<closed, slots, nonblock>>

Write(t) ==
  /\ InUser(t) /\ Holds(t, "Write")
  /\ \E n \in 1..MaxIO : write_into(t, n, 0)
  /\ UNCHANGED <<closed, slots, nonblock>>

Poll(t) ==
  /\ InUser(t)
  /\ \E e \in slots[ProcOf[t]] : poll(t, e)
  /\ UNCHANGED <<closed, slots, nonblock>>

(***************************************************************************)
(* A woken thread goes on with the call it slept in, on the buffer it      *)
(* started with: the descriptor may have been closed meanwhile.            *)
(***************************************************************************)
Resume(t) ==
  /\ state[t] = "run"
  /\ \/ call[t].op = "read" /\ blocking_read(t, call[t].resid)
     \/ call[t].op = "write" /\ write_into(t, call[t].resid, call[t].written)
     \/ call[t].op = "poll" /\ poll(t, call[t].end)
  /\ UNCHANGED <<closed, slots, nonblock>>

\* A caught signal or the deadline wakes a sleeping poll(2).
WakePoll(t) ==
  /\ state[t] = "Polling"
  /\ state' = [state EXCEPT ![t] = "run"]
  /\ UNCHANGED <<data, closed, slots, nonblock, call>>

\* fcntl(F_SETFL) sets or clears O_NONBLOCK on the end's description.
SetNonblock(t) ==
  /\ InUser(t)
  /\ \E e \in slots[ProcOf[t]] : nonblock' = [nonblock EXCEPT ![e] = ~ @]
  /\ UNCHANGED <<data, closed, slots, state, call>>

(***************************************************************************)
(* Process p drops its descriptors for the ends E, each through close_one: *)
(* the last reference to an end runs pipe_close and so close_direction,    *)
(* which wakes the threads waiting on the other end.  The threads in dying *)
(* are zombies by then.                                                    *)
(***************************************************************************)
LastRefs(p, E) == {e \in E : \A q \in Procs \ {p} : e \notin slots[q]}

close_direction(E) ==
  (IF "Write" \in E THEN wake_blocked_readers ELSE {})
    \cup (IF "Read" \in E THEN wake_blocked_writers ELSE {})

close_one(p, E, dying) ==
  LET last == LastRefs(p, E) IN
  /\ slots' = [slots EXCEPT ![p] = @ \ E]
  /\ closed' = closed \cup last
  /\ data' = IF closed' = Ends THEN <<>> ELSE data
  /\ nonblock' = [e \in Ends |-> nonblock[e] /\ e \notin last]
  /\ state' = [t \in Threads |->
                 IF t \in dying THEN "dead" ELSE Woken(close_direction(last))[t]]

Close(t) ==
  /\ InUser(t)
  /\ \E e \in slots[ProcOf[t]] : close_one(ProcOf[t], {e}, {})
  /\ UNCHANGED call

\* The process exits or is killed, with its threads wherever they are;
\* close_all closes what it had open.
Exit(p) ==
  LET mine == {t \in Threads : ProcOf[t] = p} IN
  /\ \E t \in mine : state[t] \notin {"unborn", "dead"}
  /\ close_one(p, slots[p], mine)
  /\ call' = [t \in Threads |-> IF t \in mine THEN NoCall ELSE call[t]]

\* fork(2) copies the descriptor table to a new process (fork_inherit);
\* a thread of pthread_create(3) shares its creator's.
Fork(t, u) ==
  /\ InUser(t)
  /\ state[u] = "unborn"
  /\ \/ ProcOf[u] = ProcOf[t] /\ UNCHANGED slots
     \/ /\ \A v \in Threads : ProcOf[v] = ProcOf[u] => state[v] = "unborn"
        /\ slots' = [slots EXCEPT ![ProcOf[u]] = slots[ProcOf[t]]]
  /\ state' = [state EXCEPT ![u] = "run"]
  /\ UNCHANGED <<data, closed, nonblock, call>>

Next ==
  \/ \E t \in Threads :
       \/ Read(t) \/ Write(t) \/ Poll(t) \/ Resume(t)
       \/ WakePoll(t) \/ SetNonblock(t) \/ Close(t)
  \/ \E p \in Procs : Exit(p)
  \/ \E t, u \in Threads : Fork(t, u)

\* The scheduler runs every Ready thread sooner or later.
Fairness == \A t \in Threads : WF_vars(Resume(t))

Spec == Init /\ [][Next]_vars /\ Fairness

-----------------------------------------------------------------------------
(***************************************************************************)
(* No wakeup is lost: a thread asleep in read(2) has nothing to read and   *)
(* can still be given something, one asleep in write(2) has no room and    *)
(* can still be given some, and one asleep in poll(2) waits for an end     *)
(* that is not ready.  Every path of pipe.rs that changes the buffer or    *)
(* closes an end has to wake the right side for this to hold.              *)
(***************************************************************************)
NoLostWakeup ==
  \A t \in Threads :
    /\ state[t] = "WaitingForPipeData" => data = <<>> /\ ~ WriteClosed
    /\ state[t] = "WaitingForPipeSpace" => Room = 0 /\ ~ ReadClosed
    /\ state[t] = "Polling" => ~ readiness(call[t].end)

\* Inductive strengthening of NoLostWakeup: a call's byte counts add up to
\* what was asked for, and only a thread inside poll(2) sleeps as Polling.
CallsFit ==
  \A t \in Threads :
    /\ call[t].op = "write" => call[t].resid + call[t].written <= MaxIO
    /\ state[t] = "Polling" => call[t].op = "poll"
PipeInv == TypeOK /\ NoLostWakeup /\ CallsFit

(***************************************************************************)
(* End of file is final: once the write end is closed and the buffer is    *)
(* drained, so that read(2) returns 0, no byte ever appears again.  A      *)
(* sibling thread still asleep in write(2) when the last write descriptor  *)
(* closes is what write_into's test of write_closed is for.                *)
(***************************************************************************)
EndOfFile == WriteClosed /\ data = <<>>
EofIsFinal == [][EndOfFile => EndOfFile']_vars

(***************************************************************************)
(* A thread inside read(2) after the write end is closed, or inside        *)
(* write(2) after the read end is, whose call has to end.                  *)
(***************************************************************************)
HungUp(t) ==
  \/ call[t].op = "read" /\ WriteClosed
  \/ call[t].op = "write" /\ ReadClosed

(***************************************************************************)
(* The pipe is a byte stream: every read takes from the front what writes  *)
(* put at the back, never past PIPE_CAPACITY, and a write that finds       *)
(* either end closed puts nothing.                                         *)
(***************************************************************************)
Stream == INSTANCE ByteStream WITH
  Capacity <- PIPE_CAPACITY,
  queue <- data, writing <- ~ WriteClosed, reading <- ~ ReadClosed
ImplementsByteStream == Stream!StreamSpec
=============================================================================
