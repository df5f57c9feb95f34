------------------------------- MODULE PipeProofs -------------------------------
(***************************************************************************)
(* Proofs about the pipe, for any number of threads and processes and any  *)
(* capacity.  PipeInv is inductive: the lemmas take the kernel's routines  *)
(* one at a time, and the theorems combine them.                           *)
(***************************************************************************)
EXTENDS Pipe, SequenceTheorems, TLAPS

\* The fields a call in progress has.
LEMMA CallForms ==
  ASSUME NEW x \in Calls
  PROVE  /\ x.op = "read" => x.resid \in 1..MaxIO
         /\ x.op = "write" => x.resid \in 1..MaxIO /\ x.written \in 0..MaxIO
         /\ x.op = "poll" => x.end \in Ends
BY DEF Calls, NoCall

\* The values the actions give to a call are calls.
LEMMA CallTypes ==
  /\ NoCall \in Calls
  /\ \A n \in 1..MaxIO : [op |-> "read", resid |-> n] \in Calls
  /\ \A n \in 1..MaxIO, w \in 0..MaxIO :
       [op |-> "write", resid |-> n, written |-> w] \in Calls
  /\ \A e \in Ends : [op |-> "poll", end |-> e] \in Calls
BY DEF Calls, NoCall

\* The invariant holds of a new pipe.
LEMMA InitInv == Init => PipeInv
<1> SUFFICES ASSUME Init PROVE PipeInv
  OBVIOUS
<1>1. TypeOK
  BY PipeAssumption, CallTypes DEF Init, TypeOK, Ends, Blocked
<1>2. NoLostWakeup
  BY DEF Init, NoLostWakeup
<1>3. CallsFit
  BY DEF Init, CallsFit, NoCall
<1> QED
  BY <1>1, <1>2, <1>3 DEF PipeInv

\* One pass of a read.
LEMMA ReadInv ==
  ASSUME PipeInv, NEW t \in Threads, state[t] = "run", NEW n \in 1..MaxIO,
         blocking_read(t, n), UNCHANGED <<closed, slots, nonblock>>
  PROVE  PipeInv'
<1> USE PipeAssumption DEF PipeInv
<1>1. CASE data # <<>> /\ Returns(t)
           /\ \E moved \in 0..Len(data) :
                /\ data' = Drained(moved)
                /\ state' = IF moved > 0 THEN Woken(wake_blocked_writers)
                                         ELSE state
  <2> PICK moved \in 0..Len(data) :
        /\ data' = Drained(moved)
        /\ state' = IF moved > 0 THEN Woken(wake_blocked_writers) ELSE state
    BY <1>1
  <2>1. data' \in Seq(Bytes) /\ Len(data') = Len(data) - moved
    BY DEF TypeOK, Drained
  <2>2. TypeOK'
    BY <1>1, <2>1, CallTypes
       DEF TypeOK, Returns, Woken, wake_blocked_writers, Blocked
  <2>3. moved = 0 => data' = data
    BY DEF Drained, TypeOK
  <2>4. NoLostWakeup'
    BY <1>1, <2>1, <2>3
       DEF NoLostWakeup, TypeOK, Returns, Woken, wake_blocked_writers, Room,
           ReadClosed, WriteClosed, readiness, read_side, write_side, Broken
  <2>5. CallsFit'
    BY <1>1 DEF CallsFit, TypeOK, Returns, Woken, wake_blocked_writers, NoCall
  <2> QED
    BY <2>2, <2>4, <2>5
<1>2. CASE Returns(t) /\ UNCHANGED <<data, state>>
  <2>1. TypeOK'
    BY <1>2, CallTypes DEF TypeOK, Returns
  <2>2. NoLostWakeup'
    BY <1>2 DEF NoLostWakeup, TypeOK, Returns, Room, ReadClosed, WriteClosed,
                readiness, read_side, write_side, Broken
  <2>3. CallsFit'
    BY <1>2 DEF CallsFit, TypeOK, Returns, NoCall
  <2> QED
    BY <2>1, <2>2, <2>3
<1>3. CASE /\ data = <<>> /\ ~ WriteClosed
           /\ state' = [state EXCEPT ![t] = "WaitingForPipeData"]
           /\ call' = [call EXCEPT ![t] = [op |-> "read", resid |-> n]]
           /\ UNCHANGED data
  <2>1. TypeOK'
    BY <1>3, CallTypes DEF TypeOK, Blocked
  <2>2. NoLostWakeup'
    BY <1>3 DEF NoLostWakeup, TypeOK, Room, ReadClosed, WriteClosed,
                readiness, read_side, write_side, Broken
  <2>3. CallsFit'
    BY <1>3 DEF CallsFit, TypeOK
  <2> QED
    BY <2>1, <2>2, <2>3
<1>4. \A moved \in 0..(IF n < Len(data) THEN n ELSE Len(data)) :
        moved \in 0..Len(data)
  BY DEF TypeOK
<1> QED
  BY <1>1, <1>2, <1>3, <1>4 DEF blocking_read

\* A write up to its return or its sleep.
LEMMA WriteInv ==
  ASSUME PipeInv, NEW t \in Threads, state[t] = "run",
         NEW n \in 1..MaxIO, NEW w \in 0..MaxIO, n + w <= MaxIO,
         write_into(t, n, w), UNCHANGED <<closed, slots, nonblock>>
  PROVE  PipeInv'
<1> USE PipeAssumption DEF PipeInv
<1> DEFINE sleep(r, k) == [op |-> "write", resid |-> r, written |-> k]
<1>1. CASE Returns(t) /\ UNCHANGED <<data, state>>
  <2>1. TypeOK'
    BY <1>1, CallTypes DEF TypeOK, Returns
  <2>2. NoLostWakeup'
    BY <1>1 DEF NoLostWakeup, TypeOK, Returns, Room, ReadClosed, WriteClosed,
                readiness, read_side, write_side, Broken
  <2>3. CallsFit'
    BY <1>1 DEF CallsFit, TypeOK, Returns, NoCall
  <2> QED
    BY <2>1, <2>2, <2>3
<1>2. CASE /\ Room = 0 /\ ~ ReadClosed /\ UNCHANGED data
           /\ state' = [state EXCEPT ![t] = "WaitingForPipeSpace"]
           /\ call' = [call EXCEPT ![t] = sleep(n, w)]
  <2>1. TypeOK'
    BY <1>2, CallTypes DEF TypeOK, Blocked
  <2>2. NoLostWakeup'
    BY <1>2 DEF NoLostWakeup, TypeOK, Room, ReadClosed, WriteClosed,
                readiness, read_side, write_side, Broken
  <2>3. CallsFit'
    BY <1>2 DEF CallsFit, TypeOK
  <2> QED
    BY <2>1, <2>2, <2>3
<1>3. ASSUME ~ ReadClosed, NEW moved \in 0..n, moved <= Room,
             data' = data \o Copies(t, moved)
      PROVE  /\ data' \in Seq(Bytes)
             /\ Len(data') = Len(data) + moved
             /\ Len(data') <= PIPE_CAPACITY
  <2>1. Copies(t, moved) \in Seq(Bytes) /\ Len(Copies(t, moved)) = moved
    BY DEF Copies, Bytes
  <2>2. data \in Seq(Bytes) /\ Len(data) + moved <= PIPE_CAPACITY
    BY <1>3 DEF TypeOK, Room
  <2>3. data' \in Seq(Bytes) /\ Len(data') = Len(data) + moved
    BY <1>3, <2>1, <2>2, ConcatProperties, Zenon
  <2> QED
    BY <2>2, <2>3
<1>4. ASSUME ~ ReadClosed, NEW moved \in 0..n, moved <= Room,
             data' = data \o Copies(t, moved),
             state' = Woken(wake_blocked_readers), Returns(t)
      PROVE  PipeInv'
  <2>1. TypeOK'
    BY <1>3, <1>4, CallTypes, Zenon
       DEF TypeOK, Returns, Woken, wake_blocked_readers, Blocked
  <2>2. \A u \in Threads : state[u] = "WaitingForPipeSpace" => data' = data
    <3> SUFFICES ASSUME Room = 0 PROVE data' = data
      BY DEF NoLostWakeup
    <3>1. moved = 0
      BY <1>4
    <3>2. Copies(t, 0) = <<>>
      BY DEF Copies
    <3> QED
      BY <1>4, <3>1, <3>2 DEF TypeOK
  <2>3. NoLostWakeup'
    BY <1>4, <2>2
       DEF NoLostWakeup, TypeOK, Returns, Woken, wake_blocked_readers, Room,
           ReadClosed, WriteClosed
  <2>4. CallsFit'
    BY <1>4, SMTT(30) DEF CallsFit, TypeOK, Returns, Woken, wake_blocked_readers, NoCall
  <2> QED
    BY <2>1, <2>3, <2>4
<1>5. ASSUME ~ ReadClosed, NEW moved \in 0..n, moved = Room, moved < n,
             data' = data \o Copies(t, moved), Room > 0,
             state' = [Woken(wake_blocked_readers)
                         EXCEPT ![t] = "WaitingForPipeSpace"],
             call' = [call EXCEPT ![t] = sleep(n - moved, w + moved)]
      PROVE  PipeInv'
  <2>1. n - moved \in 1..MaxIO /\ w + moved \in 0..MaxIO
    BY <1>5
  <2> moved <= Room
    BY <1>5
  <2>a. /\ data' \in Seq(Bytes)
        /\ Len(data') = Len(data) + moved
        /\ Len(data') <= PIPE_CAPACITY
    BY <1>3, <1>5, Zenon
  <2>2. TypeOK'
    BY <1>5, <2>1, <2>a, CallTypes
       DEF TypeOK, Woken, wake_blocked_readers, Blocked
  <2>3. Room' = 0
    BY <1>5, <2>a DEF Room, TypeOK
  <2>4. NoLostWakeup'
    BY <1>5, <2>3
       DEF NoLostWakeup, TypeOK, Woken, wake_blocked_readers,
           ReadClosed, WriteClosed
  <2>5. CallsFit'
    BY <1>5, <2>1 DEF CallsFit, TypeOK, Woken, wake_blocked_readers
  <2> QED
    BY <2>2, <2>4, <2>5
<1>6. Room \in Nat
  BY DEF Room, TypeOK
<1> QED
  <2>1. CASE Broken
    BY <1>1, <2>1 DEF write_into
  <2>2. CASE ~ Broken /\ Room = 0
    BY <1>1, <1>2, <2>2 DEF write_into, Broken
  <2>3. CASE ~ Broken /\ Room > 0
    <3> DEFINE moves == IF n < Room THEN n ELSE Room
    <3>1. PICK moved \in 0..moves :
            /\ data' = data \o Copies(t, moved)
            /\ \/ /\ state' = Woken(wake_blocked_readers)
                  /\ Returns(t)
               \/ /\ moved = moves /\ moved < n
                  /\ state' = [Woken(wake_blocked_readers)
                                 EXCEPT ![t] = "WaitingForPipeSpace"]
                  /\ call' = [call EXCEPT ![t] = sleep(n - moved, w + moved)]
      BY <2>3, <1>6 DEF write_into
    <3>2. moved \in 0..n /\ moved <= Room
      BY <1>6
    <3>3. moved = moves /\ moved < n => moved = Room
      BY <1>6
    <3>4. ~ ReadClosed
      BY <2>3 DEF Broken
    <3> HIDE DEF moves, sleep
    <3>5. CASE state' = Woken(wake_blocked_readers) /\ Returns(t)
      BY <1>4, <3>1, <3>2, <3>4, <3>5, SMTT(30)
    <3>6. CASE /\ moved = moves /\ moved < n
               /\ state' = [Woken(wake_blocked_readers)
                               EXCEPT ![t] = "WaitingForPipeSpace"]
               /\ call' = [call EXCEPT ![t] = sleep(n - moved, w + moved)]
      BY <1>5, <2>3, <3>1, <3>2, <3>3, <3>4, <3>6, Zenon
    <3> QED
      BY <3>1, <3>5, <3>6
  <2> QED
    BY <1>6, <2>1, <2>2, <2>3

\* One pass of a poll.
LEMMA PollInv ==
  ASSUME PipeInv, NEW t \in Threads, state[t] = "run", NEW e \in Ends,
         poll(t, e), UNCHANGED <<closed, slots, nonblock>>
  PROVE  PipeInv'
<1> USE DEF PipeInv
<1>1. TypeOK'
  BY CallTypes DEF TypeOK, poll, Returns, Blocked
<1>2. readiness(e)' = readiness(e)
  BY DEF poll, readiness, read_side, write_side, Broken, Room, ReadClosed,
         WriteClosed
<1>3. NoLostWakeup'
  BY <1>2 DEF NoLostWakeup, TypeOK, poll, Returns, Room, ReadClosed,
              WriteClosed, readiness, read_side, write_side, Broken
<1>4. CallsFit'
  BY DEF CallsFit, TypeOK, poll, Returns, NoCall
<1> QED
  BY <1>1, <1>3, <1>4

\* Closing descriptors, one or a dying process's all.
LEMMA CloseInv ==
  ASSUME PipeInv, NEW p \in Procs, NEW E \in SUBSET slots[p],
         NEW dying \in SUBSET Threads, close_one(p, E, dying),
         \A t \in Threads : call'[t] = call[t] \/ t \in dying,
         call' \in [Threads -> Calls],
         \A t \in dying : call'[t] = NoCall
  PROVE  PipeInv'
<1> USE DEF PipeInv
<1> DEFINE last == LastRefs(p, E)
<1>1. E \subseteq Ends /\ last \subseteq Ends
  BY DEF TypeOK, LastRefs
<1>2. TypeOK'
  <2>1. data' \in Seq(Bytes) /\ Len(data') <= PIPE_CAPACITY
    BY PipeAssumption DEF TypeOK, close_one
  <2>2. nonblock' \in [Ends -> BOOLEAN]
    BY DEF close_one
  <2>3. slots' \in [Procs -> SUBSET Ends] /\ closed' \subseteq Ends
    BY <1>1 DEF TypeOK, close_one
  <2>4. state' \in [Threads -> Blocked \cup {"unborn", "run", "dead"}]
    BY DEF TypeOK, close_one, Woken
  <2> QED
    BY <2>1, <2>2, <2>3, <2>4 DEF TypeOK
<1>3. NoLostWakeup'
  <2> SUFFICES ASSUME NEW t \in Threads
               PROVE  /\ state'[t] = "WaitingForPipeData"
                           => data' = <<>> /\ ~ WriteClosed'
                      /\ state'[t] = "WaitingForPipeSpace"
                           => Room' = 0 /\ ~ ReadClosed'
                      /\ state'[t] = "Polling" => ~ readiness(call[t].end)'
    BY DEF NoLostWakeup, CallsFit, close_one
  <2>1. CASE t \in dying
    BY <2>1 DEF close_one
  <2>2. CASE last = {}
    BY <2>2, <1>1 DEF close_one, TypeOK, NoLostWakeup, Woken, close_direction,
         readiness, read_side, write_side, Broken, Room, ReadClosed,
         WriteClosed, Ends
  <2>3. CASE t \notin dying /\ last # {}
    <3>1. state'[t] = Woken(close_direction(last))[t]
      BY <2>3 DEF close_one
    <3>2. state'[t] # "Polling"
      BY <1>1, <2>3, <3>1 DEF Woken, close_direction, wake_blocked_readers,
           wake_blocked_writers, Ends
    <3>3. state'[t] = "WaitingForPipeData"
            => "Write" \notin last /\ state[t] = "WaitingForPipeData"
      BY <3>1 DEF Woken, close_direction, wake_blocked_readers
    <3>4. state'[t] = "WaitingForPipeSpace"
            => "Read" \notin last /\ state[t] = "WaitingForPipeSpace"
      BY <3>1 DEF Woken, close_direction, wake_blocked_writers
    <3>5. data' = data \/ closed' = Ends
      BY DEF close_one
    <3> QED
      BY <3>2, <3>3, <3>4, <3>5 DEF NoLostWakeup, close_one, Room, ReadClosed,
           WriteClosed, Ends
  <2> QED
    BY <2>1, <2>2, <2>3
<1>4. CallsFit'
  BY DEF CallsFit, close_one, Woken, NoCall
<1> QED
  BY <1>2, <1>3, <1>4

\* Every step keeps the invariant.
LEMMA NextInv == PipeInv /\ [Next]_vars => PipeInv'
<1> SUFFICES ASSUME PipeInv, [Next]_vars PROVE PipeInv'
  OBVIOUS
<1>1. ASSUME NEW t \in Threads, Read(t) PROVE PipeInv'
  BY <1>1, ReadInv DEF Read, InUser
<1>2. ASSUME NEW t \in Threads, Write(t) PROVE PipeInv'
  BY <1>2, WriteInv, PipeAssumption DEF Write, InUser
<1>3. ASSUME NEW t \in Threads, Poll(t) PROVE PipeInv'
  <2>1. ProcOf[t] \in Procs
    BY DEF Procs
  <2> QED
    BY <1>3, <2>1, PollInv DEF Poll, InUser, PipeInv, TypeOK
<1>4. ASSUME NEW t \in Threads, Resume(t) PROVE PipeInv'
  <2>1. call[t] \in Calls
    BY DEF PipeInv, TypeOK
  <2>2. CASE call[t].op = "read" /\ blocking_read(t, call[t].resid)
    BY <1>4, <2>1, <2>2, CallForms, ReadInv DEF Resume
  <2>3. CASE call[t].op = "write"
             /\ write_into(t, call[t].resid, call[t].written)
    BY <1>4, <2>1, <2>3, CallForms, WriteInv DEF Resume, PipeInv, CallsFit
  <2>4. CASE call[t].op = "poll" /\ poll(t, call[t].end)
    BY <1>4, <2>1, <2>4, CallForms, PollInv DEF Resume
  <2> QED
    BY <1>4, <2>2, <2>3, <2>4 DEF Resume
<1>5. ASSUME NEW t \in Threads, WakePoll(t) PROVE PipeInv'
  <2>1. TypeOK'
    BY <1>5 DEF WakePoll, PipeInv, TypeOK
  <2>2. NoLostWakeup' /\ CallsFit'
    BY <1>5 DEF WakePoll, PipeInv, TypeOK, NoLostWakeup, CallsFit, readiness,
      read_side, write_side, Broken, Room, ReadClosed,
      WriteClosed
  <2> QED
    BY <2>1, <2>2 DEF PipeInv
<1>6. ASSUME NEW t \in Threads, SetNonblock(t) PROVE PipeInv'
  <2>1. TypeOK'
    BY <1>6, Zenon DEF SetNonblock, PipeInv, TypeOK
  <2>2. NoLostWakeup' /\ CallsFit'
    BY <1>6 DEF SetNonblock, PipeInv, NoLostWakeup, CallsFit, readiness,
      read_side, write_side, Broken, Room, ReadClosed, WriteClosed
  <2> QED
    BY <2>1, <2>2 DEF PipeInv
<1>7. ASSUME NEW t \in Threads, Close(t) PROVE PipeInv'
  <2>1. PICK e \in slots[ProcOf[t]] : close_one(ProcOf[t], {e}, {})
    BY <1>7, Zenon DEF Close
  <2>2. ProcOf[t] \in Procs
    BY DEF Procs
  <2>3. call' = call /\ call' \in [Threads -> Calls]
    BY <1>7 DEF Close, PipeInv, TypeOK
  <2> QED
    BY <2>1, <2>2, <2>3, CloseInv
<1>8. ASSUME NEW p \in Procs, Exit(p) PROVE PipeInv'
  <2> DEFINE mine == {t \in Threads : ProcOf[t] = p}
  <2>1. close_one(p, slots[p], mine)
    BY <1>8 DEF Exit
  <2>2. call' = [t \in Threads |-> IF t \in mine THEN NoCall ELSE call[t]]
    BY <1>8 DEF Exit
  <2>3. call' \in [Threads -> Calls]
    BY <2>2, CallTypes DEF PipeInv, TypeOK
  <2> HIDE DEF mine
  <2>4. mine \in SUBSET Threads
    BY DEF mine
  <2> QED
    BY <2>1, <2>2, <2>3, <2>4, CloseInv
<1>9. ASSUME NEW t \in Threads, NEW u \in Threads, Fork(t, u) PROVE PipeInv'
  <2>1. slots' \in [Procs -> SUBSET Ends]
    BY <1>9 DEF Fork, PipeInv, TypeOK, Procs
  <2>2. TypeOK'
    BY <1>9, <2>1 DEF Fork, PipeInv, TypeOK
  <2>3. NoLostWakeup' /\ CallsFit'
    BY <1>9 DEF Fork, PipeInv, TypeOK, NoLostWakeup, CallsFit, readiness,
      read_side, write_side, Broken, Room, ReadClosed, WriteClosed
  <2> QED
    BY <2>2, <2>3 DEF PipeInv
<1>10. CASE UNCHANGED vars
  BY <1>10 DEF vars, PipeInv, TypeOK, NoLostWakeup, CallsFit, readiness,
    read_side, write_side, Broken, Room, ReadClosed, WriteClosed
<1> QED
  BY <1>1, <1>2, <1>3, <1>4, <1>5, <1>6, <1>7, <1>8, <1>9, <1>10 DEF Next

(***************************************************************************)
(* The types hold and no wakeup is lost, in any execution of pipe.rs.      *)
(***************************************************************************)
THEOREM NoLostWakeupAlways == Spec => [](TypeOK /\ NoLostWakeup)
<1>1. PipeInv => TypeOK /\ NoLostWakeup
  BY DEF PipeInv
<1> QED
  BY InitInv, NextInv, <1>1, PTL DEF Spec

-----------------------------------------------------------------------------
\* What each routine does to the buffer, seen as a step of a byte stream.
LEMMA ReadStep ==
  ASSUME TypeOK, NEW t \in Threads, NEW n \in 1..MaxIO, blocking_read(t, n),
         UNCHANGED closed
  PROVE  Stream!Take \/ UNCHANGED <<data, closed>>
<1>1. CASE UNCHANGED data
  BY <1>1
<1>2. CASE data # <<>>
  <2>1. PICK moved \in 0..Len(data) : data' = Drained(moved)
    BY <1>2 DEF TypeOK, blocking_read
  <2>2. CASE moved = 0
    BY <2>1, <2>2 DEF Drained, TypeOK
  <2>3. CASE moved # 0
    BY <2>1, <2>3 DEF Drained, Stream!Take, WriteClosed, ReadClosed, TypeOK
  <2> QED
    BY <2>2, <2>3
<1> QED
  BY <1>1, <1>2 DEF blocking_read

\* A write puts bytes at the end of the stream or leaves it alone.
LEMMA WriteStep ==
  ASSUME TypeOK, NEW t \in Threads, NEW n \in 1..MaxIO, NEW w \in 0..MaxIO,
         write_into(t, n, w), UNCHANGED closed
  PROVE  Stream!Put \/ UNCHANGED <<data, closed>>
<1> USE PipeAssumption
<1>1. CASE UNCHANGED data
  BY <1>1
<1>2. CASE ~ Broken /\ Room > 0
  <2>1. Room \in Nat
    BY DEF Room, TypeOK
  <2>2. PICK moved \in 0..n : moved <= Room /\ data' = data \o Copies(t, moved)
    BY <1>2, <2>1 DEF write_into
  <2>3. Copies(t, moved) \in Seq(Bytes) /\ Len(Copies(t, moved)) = moved
    BY DEF Copies, Bytes
  <2>4. /\ data' \in Seq(Bytes) /\ Len(data') = Len(data) + moved
        /\ \A i \in 1..Len(data) : data'[i] = data[i]
    <3> DEFINE new == Copies(t, moved)
    <3>1. data \in Seq(Bytes)
      BY DEF TypeOK
    <3> HIDE DEF new
    <3>2. /\ data \o new \in Seq(Bytes)
          /\ Len(data \o new) = Len(data) + Len(new)
          /\ \A i \in 1..Len(data) + Len(new) : (data \o new)[i] =
               IF i <= Len(data) THEN data[i] ELSE new[i - Len(data)]
      BY <2>3, <3>1, ConcatProperties, SMTT(30) DEF new
    <3>3. Len(new) = moved /\ data' = data \o new
      BY <2>2, <2>3 DEF new
    <3> QED
      BY <3>1, <3>2, <3>3
  <2>5. SubSeq(data', 1, Len(data)) = data
    BY <2>4 DEF TypeOK
  <2>6. CASE moved = 0
    BY <2>4, <2>5, <2>6 DEF TypeOK
  <2>7. CASE moved # 0
    <3>1. Len(data) < Len(data') /\ Len(data') <= PIPE_CAPACITY
      BY <2>2, <2>4, <2>7 DEF Room, TypeOK
    <3>2. ~ WriteClosed /\ ~ ReadClosed
      BY <1>2 DEF Broken
    <3>3. WriteClosed' = WriteClosed /\ ReadClosed' = ReadClosed
      BY DEF WriteClosed, ReadClosed
    <3> QED
      BY <2>5, <3>1, <3>2, <3>3 DEF Stream!Put
  <2> QED
    BY <2>6, <2>7
<1> QED
  BY <1>1, <1>2 DEF write_into

\* A close hangs up, and drops the bytes only when both ends are closed.
LEMMA CloseStep ==
  ASSUME TypeOK, NEW p \in Procs, NEW E \in SUBSET slots[p],
         NEW dying \in SUBSET Threads, close_one(p, E, dying)
  PROVE  Stream!HangUp
<1>1. closed \subseteq closed' /\ closed' \subseteq Ends
  BY DEF close_one, LastRefs, TypeOK
<1>2. data' = IF closed' = Ends THEN <<>> ELSE data
  BY DEF close_one
<1> QED
  BY <1>1, <1>2 DEF Stream!HangUp, WriteClosed, ReadClosed, Ends

\* Every step of the pipe is a step of the stream or leaves it alone.
LEMMA NextStep ==
  PipeInv /\ [Next]_vars => [Stream!StreamNext]_(Stream!stream)
<1> SUFFICES ASSUME PipeInv, [Next]_vars
             PROVE  \/ Stream!Take \/ Stream!Put \/ Stream!HangUp
                    \/ UNCHANGED <<data, closed>>
  BY DEF Stream!StreamNext, Stream!stream, WriteClosed, ReadClosed
<1> USE DEF PipeInv
<1>1. ASSUME NEW t \in Threads, Read(t) \/ Write(t)
      PROVE  Stream!Take \/ Stream!Put \/ UNCHANGED <<data, closed>>
  BY <1>1, ReadStep, WriteStep, PipeAssumption DEF Read, Write
<1>2. ASSUME NEW t \in Threads, Resume(t)
      PROVE  Stream!Take \/ Stream!Put \/ UNCHANGED <<data, closed>>
  <2>1. call[t] \in Calls
    BY DEF TypeOK
  <2> QED
    BY <1>2, <2>1, CallForms, ReadStep, WriteStep DEF Resume, poll
<1>3. ASSUME NEW t \in Threads, Close(t) PROVE Stream!HangUp
  <2>1. PICK e \in slots[ProcOf[t]] : close_one(ProcOf[t], {e}, {})
    BY <1>3, Zenon DEF Close
  <2>2. ProcOf[t] \in Procs
    BY DEF Procs
  <2> QED
    BY <2>1, <2>2, CloseStep
<1>4. ASSUME NEW p \in Procs, Exit(p) PROVE Stream!HangUp
  <2>1. PICK dying \in SUBSET Threads : close_one(p, slots[p], dying)
    BY <1>4 DEF Exit
  <2> QED
    BY <2>1, CloseStep
<1>5. ASSUME NEW t \in Threads, Poll(t) \/ WakePoll(t) \/ SetNonblock(t)
      PROVE  UNCHANGED <<data, closed>>
  BY <1>5 DEF Poll, poll, WakePoll, SetNonblock
<1>6. ASSUME NEW t \in Threads, NEW u \in Threads, Fork(t, u)
      PROVE  UNCHANGED <<data, closed>>
  BY <1>6 DEF Fork
<1>7. CASE UNCHANGED vars
  BY <1>7 DEF vars
<1> QED
  BY <1>1, <1>2, <1>3, <1>4, <1>5, <1>6, <1>7 DEF Next

(***************************************************************************)
(* pipe.rs implements a bounded byte stream: whatever the threads do, what *)
(* readers take is what writers put, in order, and nothing is put once     *)
(* either end is closed.                                                   *)
(***************************************************************************)
THEOREM PipeImplementsByteStream == Spec => ImplementsByteStream
<1>1. Init => Stream!StreamInit
  BY DEF Init, Stream!StreamInit, WriteClosed, ReadClosed
<1> QED
  BY InitInv, NextInv, NextStep, <1>1, PTL
     DEF Spec, ImplementsByteStream, Stream!StreamSpec

(***************************************************************************)
(* A reader that has seen end of file never misses a byte written later:   *)
(* none is.                                                                *)
(***************************************************************************)
THEOREM EndOfFileIsFinal == Spec => EofIsFinal
<1>1. PipeInv /\ [Next]_vars => (EndOfFile => EndOfFile')
  <2> SUFFICES ASSUME PipeInv, [Next]_vars, EndOfFile PROVE EndOfFile'
    OBVIOUS
  <2>1. CASE UNCHANGED <<data, closed>>
    BY <2>1 DEF EndOfFile, WriteClosed
  <2>2. CASE Stream!StreamNext
    BY <2>2 DEF Stream!StreamNext, Stream!Put, Stream!Take, Stream!HangUp,
                EndOfFile, PipeInv, TypeOK
  <2>3. CASE UNCHANGED Stream!stream
    BY <2>3 DEF Stream!stream, EndOfFile
  <2> QED
    BY NextStep, <2>1, <2>2, <2>3
<1> QED
  BY InitInv, NextInv, <1>1, PTL DEF Spec, EofIsFinal
=============================================================================
