------------------------------- MODULE Mqueue -------------------------------
(***************************************************************************)
(* POSIX message queues (sys/fs/mqueue.rs) under one name: queues that     *)
(* outlive their name while a description is open, sends and receives that *)
(* sleep with a deadline and are interrupted by signals, and the one       *)
(* registration for notification.  A process has at most one descriptor,   *)
(* which a fork may share.  A message is its priority and its sender.      *)
(***************************************************************************)
EXTENDS Sleepers, Sequences

CONSTANTS
    Ends,       \* bound: open descriptions (the real_fd of MQ_ENDS)
    MaxId,      \* bound: queues ever made
    Prios, mq_maxmsg,
    BadBuffers  \* whether a receive may fail in copyout

Ids == 1..MaxId
NoNotify == [kind |-> "free"]

VARIABLES
    name,       \* NAMES: the queue of the name, 0 for none
    queues,     \* QUEUES
    ends,       \* MQ_ENDS: the queue of each open description, 0 if closed
    fd          \* the description of each process's descriptor, 0 for none

vars == <<name, queues, ends, fd, sleepers>>

Live == {q \in Ids : queues[q].exists}
Unused == [exists |-> FALSE, msgs |-> <<>>, open_count |-> 0, unlinked |-> FALSE,
           notify |-> NoNotify]
Fresh == [Unused EXCEPT !.exists = TRUE]
Blocking(op, q) == {p \in Asleep(op) : call[p].q = q}

-----------------------------------------------------------------------------
\* Before the first message of a lower priority.
insert_by_priority_MUT(msgs, m) ==
    LET later == {i \in DOMAIN msgs : msgs[i].prio <= m.prio}
        pos == CHOOSE i \in later \cup {Len(msgs) + 1} :
                 \A j \in later \cup {Len(msgs) + 1} : i <= j
    IN SubSeq(msgs, 1, pos - 1) \o <<m>> \o SubSeq(msgs, pos, Len(msgs))
insert_by_priority(msgs, m) ==
    LET later == {i \in DOMAIN msgs : msgs[i].prio < m.prio}
        pos == CHOOSE i \in later \cup {Len(msgs) + 1} :
                 \A j \in later \cup {Len(msgs) + 1} : i <= j
    IN SubSeq(msgs, 1, pos - 1) \o <<m>> \o SubSeq(msgs, pos, Len(msgs))

do_mq_open(p, e) ==
    /\ Idle(p) /\ fd[p] = 0 /\ ends[e] = 0
    /\ \/ /\ name # 0 /\ UNCHANGED name                         \* without O_EXCL
          /\ queues' = [queues EXCEPT ![name].open_count = @ + 1]
       \/ /\ name = 0 /\ name' \in Ids /\ queues[name'] = Unused    \* O_CREAT
          /\ \A q \in Ids : q < name' => queues[q] # Unused
          /\ queues' = [queues EXCEPT ![name'] = [Fresh EXCEPT !.open_count = 1]]
    /\ ends' = [ends EXCEPT ![e] = name']
    /\ fd' = [fd EXCEPT ![p] = e]
    /\ UNCHANGED sleepers

\* A queue that is gone leaves its id behind, which is never used again.
Gone == [Unused EXCEPT !.unlinked = TRUE]

\* mq_close, when the last descriptor of description e is closed.
mq_close_MUT(e) ==
    LET q == queues[ends[e]]
        closed == [q EXCEPT !.open_count = @ - 1]
    IN IF closed.open_count = 0 /\ closed.unlinked THEN Gone ELSE closed
mq_close(e) ==
    LET q == queues[ends[e]]
        closed == [q EXCEPT !.open_count = @ - 1,
                            !.notify = IF @.kind # "free" /\ @.owner = e THEN NoNotify ELSE @]
    IN IF closed.open_count = 0 /\ closed.unlinked THEN Gone ELSE closed

\* close, and close_all at exit: the descriptor goes, and the description with
\* it if no other process has it.
CloseFd(p) ==
    LET e == fd[p] IN
    /\ fd' = [fd EXCEPT ![p] = 0]
    /\ IF e = 0 \/ \E o \in Procs \ {p} : fd[o] = e
         THEN UNCHANGED <<queues, ends>>
         ELSE /\ queues' = [queues EXCEPT ![ends[e]] = mq_close(e)]
              /\ ends' = [ends EXCEPT ![e] = 0]

Close(p) == Idle(p) /\ fd[p] # 0 /\ CloseFd(p) /\ UNCHANGED <<name, sleepers>>

\* A process killed inside a call; the exit of any other is its Close.
terminate_process(p) ==
    /\ state[p] # "dead" /\ call[p] # NoCall
    /\ CloseFd(p)
    /\ state' = [state EXCEPT ![p] = "dead"]
    /\ Returns(p)
    /\ UNCHANGED name

\* fork: the child has its parent's descriptor.
fork(p, c) ==
    /\ Idle(p) /\ fd[p] # 0 /\ Idle(c) /\ fd[c] = 0 /\ c # p
    /\ fd' = [fd EXCEPT ![c] = fd[p]]
    /\ UNCHANGED <<name, queues, ends, sleepers>>

do_mq_unlink(p) ==
    /\ Idle(p) /\ name # 0
    /\ name' = 0
    /\ queues' = [queues EXCEPT ![name] =
                    IF @.open_count = 0 THEN Gone ELSE [@ EXCEPT !.unlinked = TRUE]]
    /\ UNCHANGED <<ends, fd, sleepers>>

-----------------------------------------------------------------------------
\* A full queue ends a send, and an empty one a receive, with EAGAIN, ETIMEDOUT
\* or EINTR, or puts the caller to sleep.
CannotNow(p, c, nonblock) ==
    /\ \/ (nonblock \/ c.time = "past" \/ p \in caught) /\ Returns(p) /\ UNCHANGED state
       \/ ~nonblock /\ c.time # "past" /\ p \notin caught /\ SleepsIn(p, c)
    /\ UNCHANGED <<name, queues, ends, fd>>

Removed(p) == Returns(p) /\ UNCHANGED <<name, queues, ends, fd, state>>

\* The signal of a notification reaches o: a call of its that sleeps is
\* interrupted.
Notified(o, p) == IF call[o] # NoCall /\ o # p /\ state[o] # "dead" THEN {o} ELSE {}

\* One pass of do_mq_timedsend's loop.
\* The registration is used up only by a message that finds the queue empty
\* and nobody waiting for it.
fires(q, receivers) ==
    queues[q].msgs = <<>> /\ queues[q].notify.kind = "signal" /\ receivers = {}

Send(p, c, nonblock) ==
    LET q == c.q
        receivers == Blocking("receive", q)
        fired == fires(q, receivers)
        signalled == IF fired THEN Notified(queues[q].notify.pid, p) ELSE {}
    IN  \/ q \notin Live /\ Removed(p)                      \* EBADF
        \/ q \in Live /\ Len(queues[q].msgs) >= mq_maxmsg /\ CannotNow(p, c, nonblock)
        \/ /\ q \in Live /\ Len(queues[q].msgs) < mq_maxmsg
           /\ queues' = [queues EXCEPT
                ![q].msgs = insert_by_priority(@, [prio |-> c.prio, from |-> p]),
                ![q].notify = IF fired THEN NoNotify ELSE @]
           /\ state' = Woken(receivers \cup signalled)
           /\ call' = [call EXCEPT ![p] = NoCall]
           /\ caught' = (caught \cup signalled) \ {p}
           /\ UNCHANGED <<name, ends, fd>>

\* One pass of do_mq_timedreceive's loop.  A buffer copyout cannot write loses
\* the message, and returns before the senders are woken.
Receive(p, c, nonblock) ==
    LET q == c.q IN
        \/ q \notin Live /\ Removed(p)
        \/ q \in Live /\ queues[q].msgs = <<>> /\ CannotNow(p, c, nonblock)
        \/ /\ q \in Live /\ queues[q].msgs # <<>>
           /\ queues' = [queues EXCEPT ![q].msgs = Tail(@)]
           /\ \/ state' = Woken(Blocking("send", q))
              \/ BadBuffers /\ UNCHANGED state
           /\ Returns(p)
           /\ UNCHANGED <<name, ends, fd>>

do_mq_timedsend(p, prio, nonblock) ==
    /\ Idle(p) /\ fd[p] # 0
    /\ Send(p, [op |-> "send", q |-> ends[fd[p]], prio |-> prio, time |-> "later"], nonblock)

do_mq_timedreceive(p, nonblock) ==
    /\ Idle(p) /\ fd[p] # 0
    /\ Receive(p, [op |-> "receive", q |-> ends[fd[p]], time |-> "later"], nonblock)

\* After schedule(); O_NONBLOCK may have been set by another process meanwhile.
Resume(p, nonblock) ==
    /\ state[p] = "run"
    /\ \/ call[p].op = "send" /\ Send(p, call[p], nonblock)
       \/ call[p].op = "receive" /\ Receive(p, call[p], nonblock)

\* do_mq_notify: one registration, given up by the description that made it.
do_mq_notify(p, kind) ==
    /\ Idle(p) /\ fd[p] # 0 /\ ends[fd[p]] \in Live
    /\ LET q == ends[fd[p]] IN
       \/ /\ queues[q].notify.kind = "free" /\ kind # "free"
          /\ queues' = [queues EXCEPT ![q].notify =
                          [kind |-> kind, pid |-> p, owner |-> fd[p]]]
       \/ /\ kind = "free" /\ queues[q].notify.kind # "free"
          /\ queues[q].notify.owner = fd[p]
          /\ queues' = [queues EXCEPT ![q].notify = NoNotify]
    /\ UNCHANGED <<name, ends, fd, sleepers>>

-----------------------------------------------------------------------------
Init ==
    /\ name = 0
    /\ queues = [q \in Ids |-> Unused]
    /\ ends = [e \in Ends |-> 0]
    /\ fd = [p \in Procs |-> 0]
    /\ SleepersInit

Next == \E p \in Procs :
    \/ \E e \in Ends : do_mq_open(p, e)
    \/ Close(p) \/ terminate_process(p) \/ do_mq_unlink(p)
    \/ \E c \in Procs : fork(p, c)
    \/ \E nonblock \in BOOLEAN :
         \/ \E prio \in Prios : do_mq_timedsend(p, prio, nonblock)
         \/ do_mq_timedreceive(p, nonblock)
    \/ \E nonblock \in BOOLEAN : Resume(p, nonblock)
    \/ \E kind \in {"free", "signal", "none"} : do_mq_notify(p, kind)
    \/ (kill(p, {"send", "receive"}) \/ Tick(p)) /\ UNCHANGED <<name, queues, ends, fd>>

Spec == Init /\ [][Next]_vars

-----------------------------------------------------------------------------
\* Type correctness: a queue holds at most mq_maxmsg messages, counts stay in
\* their bounds.
TypeOK ==
    /\ name \in 0..MaxId
    /\ \A q \in Ids :
         /\ Len(queues[q].msgs) <= mq_maxmsg
         /\ \A i \in DOMAIN queues[q].msgs : queues[q].msgs[i].prio \in Prios
         /\ queues[q].open_count \in 0..Cardinality(Ends)
    /\ ends \in [Ends -> 0..MaxId] /\ fd \in [Procs -> Ends \cup {0}]
    /\ state \in [Procs -> {"run", "asleep", "dead"}]
    /\ caught \subseteq Procs

\* open_count counts the open descriptions of a queue, which exists as long as
\* it has a name or a description; a registration belongs to an open
\* description of its queue (mq_close, do_mq_unlink).
QueueLifetime == \A q \in Ids :
    /\ queues[q].open_count = Cardinality({e \in Ends : ends[e] = q})
    /\ q \in Live <=> (name = q \/ queues[q].open_count > 0)
    /\ (q \in Live /\ name # q) => queues[q].unlinked
    /\ queues[q].notify.kind # "free" => ends[queues[q].notify.owner] = q

\* No lost wakeup: a receive sleeps only on an empty queue and a send only on
\* a full one, until the deadline or a signal.
NoLostWakeup == \A p \in Procs : state[p] = "asleep" =>
    /\ p \notin caught /\ call[p].time # "past"
    /\ call[p].op = "receive" => queues[call[p].q].msgs = <<>>
    /\ call[p].op = "send" => Len(queues[call[p].q].msgs) = mq_maxmsg

\* A process sleeps in a queue only while the queue exists.
SleepersQueueLives == \A p \in Procs : state[p] = "asleep" => call[p].q \in Live

\* The messages of one priority, in the order they are in.
OfPrio(msgs, k) == SelectSeq(msgs, LAMBDA m : m.prio = k)

\* Delivery order: to its users a queue is one FIFO for each priority.  A step
\* leaves all of them alone, adds one message to the end of one of them, takes
\* the first message of the highest one that has any, or removes the queue.
PriorityFifo == \A q \in Ids :
    LET now(k) == OfPrio(queues[q].msgs, k)
        next(k) == OfPrio(queues'[q].msgs, k)
        SameBut(k) == \A j \in Prios \ {k} : next(j) = now(j)
    IN  \/ \A k \in Prios : next(k) = now(k)
        \/ \E k \in Prios, p \in Procs :
             next(k) = Append(now(k), [prio |-> k, from |-> p]) /\ SameBut(k)
        \/ \E k \in Prios :
             /\ now(k) # <<>> /\ next(k) = Tail(now(k)) /\ SameBut(k)
             /\ \A j \in Prios : j > k => now(j) = <<>>
        \/ ~queues'[q].exists
=============================================================================
