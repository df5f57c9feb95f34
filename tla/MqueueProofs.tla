---------------------------- MODULE MqueueProofs ----------------------------
(***************************************************************************)
(* POSIX message queues, for any processes, descriptions, queues, and      *)
(* priorities and any capacity: a queue lives exactly as long as a name or *)
(* a description of it does, messages stay in the order of their           *)
(* priorities, nobody sleeps in a queue that is gone, and, unless copyout  *)
(* fails, a receive sleeps only on an empty queue and a send only on a     *)
(* full one.  A call has no reference to its queue of its own: what the    *)
(* proof needs is that its caller's description stays open while it sleeps.*)
(***************************************************************************)
EXTENDS Mqueue, FiniteSetTheorems, TLAPS

\* The constants: 0 is no description and no queue, and a queue holds a message.
MqConstants ==
    /\ IsFiniteSet(Ends) /\ 0 \notin Ends
    /\ MaxId \in Nat /\ mq_maxmsg \in Nat \ {0} /\ Prios \subseteq Int /\ BadBuffers \in BOOLEAN

\* A message, a registration and a queue as the table holds them.
Message == [prio : Prios, from : Procs]
Registration == [kind : {"signal", "none"}, pid : Procs, owner : Ends]
Queue == [exists : BOOLEAN, msgs : Seq(Message), open_count : Nat, unlinked : BOOLEAN,
          notify : {NoNotify} \cup Registration]
\* What a process sleeps in.
SendCalls == [op : {"send"}, q : Ids, prio : Prios, time : {"later", "past"}]
ReceiveCalls == [op : {"receive"}, q : Ids, time : {"later", "past"}]

\* Types of the tables; a queue holds at most mq_maxmsg messages.
TableShape ==
    /\ name \in 0..MaxId
    /\ queues \in [Ids -> Queue]
    /\ ends \in [Ends -> 0..MaxId]
    /\ fd \in [Procs -> Ends \cup {0}]
    /\ \A q \in Ids : Len(queues[q].msgs) <= mq_maxmsg

\* Only a call sleeps.
SleepShape ==
    /\ state \in [Procs -> {"run", "asleep", "dead"}]
    /\ call \in [Procs -> {NoCall} \cup SendCalls \cup ReceiveCalls]
    /\ caught \subseteq Procs
    /\ \A p \in Procs : state[p] = "asleep" => call[p] # NoCall

\* The descriptions of a queue.
Holders(f, q) == {e \in Ends : f[e] = q}

\* The tables agree: a queue has a name or a description exactly while it
\* exists, and what is gone is empty.
TableBooks ==
    /\ \A q \in Ids : queues[q].open_count = Cardinality(Holders(ends, q))
    /\ \A q \in Ids : queues[q].exists <=> name = q \/ \E e \in Ends : ends[e] = q
    /\ \A q \in Ids : queues[q].exists => (queues[q].unlinked <=> name # q)
    /\ \A q \in Ids : ~queues[q].exists => queues[q] \in {Unused, Gone}
    /\ \A q \in Ids : queues[q].notify # NoNotify => ends[queues[q].notify.owner] = q
    /\ \A p \in Procs : fd[p] # 0 => ends[fd[p]] # 0

\* A call's queue is that of the caller's descriptor, which the caller cannot
\* close meanwhile.
CallsHeld == \A p \in Procs :
    call[p] # NoCall => fd[p] # 0 /\ ends[fd[p]] = call[p].q

\* Messages are in the order of their priorities.
PrioritySorted == \A q \in Ids : \A i, j \in DOMAIN queues[q].msgs :
    i < j => queues[q].msgs[i].prio >= queues[q].msgs[j].prio

\* A signal or a deadline ends a sleep.
Uninterrupted == \A p \in Procs :
    state[p] = "asleep" => p \notin caught /\ call[p].time # "past"

\* The inductive invariant.  A failed copyout may leave a sender asleep that has
\* room, and nothing else in disorder.
MqInv == /\ TableShape /\ SleepShape /\ TableBooks /\ CallsHeld /\ PrioritySorted
         /\ Uninterrupted /\ (~BadBuffers => NoLostWakeup)

\* A queue that was never made, one that is gone and one just made.
LEMMA QueueAtoms ==
    /\ NoNotify.kind = "free" /\ NoNotify \notin Registration
    /\ ~Unused.exists /\ Unused.msgs = <<>> /\ Unused.open_count = 0
    /\ ~Unused.unlinked /\ Unused.notify = NoNotify
    /\ ~Gone.exists /\ Gone.msgs = <<>> /\ Gone.open_count = 0 /\ Gone.notify = NoNotify
    /\ Fresh.exists /\ Fresh.msgs = <<>> /\ Fresh.open_count = 0
    /\ ~Fresh.unlinked /\ Fresh.notify = NoNotify
    /\ Unused \in Queue /\ Gone \in Queue /\ Fresh \in Queue
<1>1. NoNotify.kind = "free" /\ NoNotify \notin Registration
  BY DEF NoNotify, Registration
<1>2. /\ ~Unused.exists /\ Unused.msgs = <<>> /\ Unused.open_count = 0
      /\ ~Unused.unlinked /\ Unused.notify = NoNotify
  BY DEF Unused
<1>3. /\ ~Gone.exists /\ Gone.msgs = <<>> /\ Gone.open_count = 0 /\ Gone.notify = NoNotify
  BY DEF Gone, Unused
<1>4. /\ Fresh.exists /\ Fresh.msgs = <<>> /\ Fresh.open_count = 0
      /\ ~Fresh.unlinked /\ Fresh.notify = NoNotify
  BY DEF Fresh, Unused
<1>5. <<>> \in Seq(Message)
  OBVIOUS
<1>6. Unused \in Queue
  BY <1>5 DEF Unused, Queue
<1>7. Gone \in Queue
  BY <1>6, Zenon DEF Gone, Queue
<1>8. Fresh \in Queue
  BY <1>6, Zenon DEF Fresh, Queue
<1>9. QED
  BY <1>1, <1>2, <1>3, <1>4, <1>6, <1>7, <1>8, Zenon

\* A send is not a receive, and neither is no call.
LEMMA CallAtoms ==
    /\ NoCall \notin SendCalls \cup ReceiveCalls
    /\ \A c \in SendCalls : c.op = "send" /\ c \notin ReceiveCalls
    /\ \A c \in ReceiveCalls : c.op = "receive"
    /\ NoCall.op = "none"
BY DEF NoCall, SendCalls, ReceiveCalls

\* 0 is the name of no queue.
LEMMA IdFacts ==
    ASSUME MqConstants
    PROVE  Ids \subseteq 0..MaxId /\ 0 \notin Ids /\ \A n \in 0..MaxId : n # 0 => n \in Ids
BY DEF MqConstants, Ids

\* A description more, and one less.
LEMMA HolderAdded ==
    ASSUME MqConstants, NEW old, NEW new, NEW e \in Ends, NEW n, old[e] # n, new[e] = n,
           \A x \in Ends \ {e} : new[x] = old[x]
    PROVE  Cardinality(Holders(new, n)) = Cardinality(Holders(old, n)) + 1
<1> DEFINE S == Holders(old, n)
<1>1. Holders(new, n) = S \cup {e} /\ e \notin S
  BY DEF Holders
<1>2. IsFiniteSet(S)
  BY FS_Subset, Zenon DEF MqConstants, Holders
<1> HIDE DEF S
<1>3. Cardinality(S \cup {e}) = Cardinality(S) + 1
  BY <1>1, <1>2, FS_AddElement, Zenon
<1>4. QED
  BY <1>1, <1>3 DEF S

\* One description of a queue is closed.
LEMMA HolderRemoved ==
    ASSUME MqConstants, NEW old, NEW new, NEW e \in Ends, NEW n, old[e] = n, new[e] # n,
           \A x \in Ends \ {e} : new[x] = old[x]
    PROVE  Cardinality(Holders(new, n)) = Cardinality(Holders(old, n)) - 1
<1> DEFINE S == Holders(old, n)
<1>1. Holders(new, n) = S \ {e} /\ e \in S
  BY DEF Holders
<1>2. IsFiniteSet(S)
  BY FS_Subset, Zenon DEF MqConstants, Holders
<1> HIDE DEF S
<1>3. Cardinality(S \ {e}) = Cardinality(S) - 1
  BY <1>1, <1>2, FS_RemoveElement, Zenon
<1>4. QED
  BY <1>1, <1>3 DEF S

\* No description is left exactly when the count is 0.
LEMMA HolderCount ==
    ASSUME MqConstants, NEW f, NEW q
    PROVE  /\ Cardinality(Holders(f, q)) \in Nat
           /\ Cardinality(Holders(f, q)) = 0 <=> \A e \in Ends : f[e] # q
<1>1. IsFiniteSet(Holders(f, q))
  BY FS_Subset, Zenon DEF MqConstants, Holders
<1>2. Cardinality(Holders(f, q)) \in Nat /\ (Cardinality(Holders(f, q)) = 0 <=> Holders(f, q) = {})
  BY <1>1, FS_CardinalityType, FS_EmptySet, Zenon
<1>3. QED
  BY <1>2 DEF Holders

\* What the invariant says of the tables alone.
MqTables == TableShape /\ TableBooks /\ PrioritySorted

\* The parts of a queue.
LEMMA QueueParts ==
    ASSUME NEW Q \in Queue
    PROVE  /\ Q.exists \in BOOLEAN /\ Q.msgs \in Seq(Message) /\ Q.open_count \in Nat
           /\ Q.unlinked \in BOOLEAN /\ Q.notify \in {NoNotify} \cup Registration
BY DEF Queue

\* A queue with another count.
LEMMA QueueCounted ==
    ASSUME NEW Q \in Queue, NEW m \in Nat, NEW R, R = [Q EXCEPT !.open_count = m]
    PROVE  /\ R \in Queue /\ R.exists = Q.exists /\ R.msgs = Q.msgs /\ R.open_count = m
           /\ R.unlinked = Q.unlinked /\ R.notify = Q.notify
<1>1. R \in Queue
  BY DEF Queue
<1>2. R.msgs = Q.msgs /\ R.open_count = m /\ R.notify = Q.notify
  BY DEF Queue
<1>3. R.exists = Q.exists /\ R.unlinked = Q.unlinked
  BY DEF Queue
<1>4. QED
  BY <1>1, <1>2, <1>3, Zenon

\* mq_open makes the queue of the name, or counts one description more.
LEMMA OpenTables ==
    ASSUME MqConstants, MqTables, NEW p \in Procs, NEW e \in Ends, do_mq_open(p, e)
    PROVE  /\ MqTables'
           /\ \A q \in Ids : queues'[q].msgs = queues[q].msgs
           /\ \A o \in Procs : fd[o] # 0 => fd'[o] = fd[o] /\ ends'[fd[o]] = ends[fd[o]]
<1> DEFINE n == name'
           X == IF name = 0 THEN Fresh ELSE queues[n]
           Y == [X EXCEPT !.open_count = X.open_count + 1]
<1>1. TableShape /\ TableBooks /\ PrioritySorted
  BY Zenon DEF MqTables
<1>2. /\ n \in Ids /\ (name = 0 => queues[n] = Unused) /\ (name # 0 => n = name)
      /\ fd[p] = 0 /\ ends[e] = 0
      /\ ends' = [ends EXCEPT ![e] = n] /\ fd' = [fd EXCEPT ![p] = e]
  BY <1>1, IdFacts DEF do_mq_open, TableShape
<1>3. queues' = [queues EXCEPT ![n] = Y]
  <2>1. CASE name # 0
    <3>1. queues' = [queues EXCEPT ![name].open_count = queues[name].open_count + 1] /\ n = name
      BY <2>1, Zenon DEF do_mq_open
    <3>2. QED
      BY <2>1, <3>1
  <2>2. CASE name = 0
    <3>1. queues' = [queues EXCEPT ![n] = [Fresh EXCEPT !.open_count = 1]]
      BY <2>2, Zenon DEF do_mq_open
    <3>2. Fresh.open_count + 1 = 1
      BY QueueAtoms
    <3>3. QED
      BY <2>2, <3>1, <3>2, Zenon
  <2>3. QED
    BY <2>1, <2>2
<1>4. queues \in [Ids -> Queue] /\ X \in Queue
  BY <1>1, <1>2, QueueAtoms DEF TableShape
<1>5. /\ X.exists /\ X.msgs = queues[n].msgs /\ X.open_count = queues[n].open_count
      /\ ~X.unlinked
      /\ X.notify = queues[n].notify
      /\ name = 0 => ~queues[n].exists
  BY <1>1, <1>2, QueueAtoms DEF TableBooks
<1> HIDE DEF X
<1>6. /\ Y \in Queue /\ Y.exists /\ Y.msgs = X.msgs /\ Y.open_count = X.open_count + 1
      /\ Y.notify = X.notify /\ ~Y.unlinked
  <2>1. X.open_count + 1 \in Nat
    BY <1>4, QueueParts
  <2>2. QED
    BY <1>4, <1>5, <2>1, QueueCounted
<1> HIDE DEF Y
<1>7. /\ queues' \in [Ids -> Queue] /\ queues'[n] = Y
      /\ \A q \in Ids \ {n} : queues'[q] = queues[q]
  BY <1>2, <1>3, <1>4, <1>6
<1>8. /\ ends \in [Ends -> 0..MaxId] /\ fd \in [Procs -> Ends \cup {0}]
  BY <1>1 DEF TableShape
<1>9. /\ ends' \in [Ends -> 0..MaxId] /\ ends'[e] = n
      /\ \A x \in Ends \ {e} : ends'[x] = ends[x]
      /\ fd' \in [Procs -> Ends \cup {0}] /\ fd'[p] = e
      /\ \A o \in Procs \ {p} : fd'[o] = fd[o]
      /\ n \in 0..MaxId /\ n # 0
  BY <1>2, <1>8, IdFacts
<1>10. \A q \in Ids : queues'[q].msgs = queues[q].msgs
  BY <1>5, <1>6, <1>7
<1>11. /\ Cardinality(Holders(ends', n)) = Cardinality(Holders(ends, n)) + 1
       /\ \A q \in Ids \ {n} : Holders(ends', q) = Holders(ends, q)
  <2> HIDE DEF n
  <2>1. ends[e] # n /\ ends'[e] = n /\ \A x \in Ends \ {e} : ends'[x] = ends[x]
    BY <1>2, <1>9
  <2>2. \A q \in Ids \ {n} : Holders(ends', q) = Holders(ends, q)
    BY <1>2, <1>9, IdFacts DEF Holders
  <2>3. Cardinality(Holders(ends', n)) = Cardinality(Holders(ends, n)) + 1
    BY <2>1, HolderAdded, ZenonT(40)
  <2>4. QED
    BY <2>2, <2>3
<1>12. TableShape'
  BY <1>1, <1>7, <1>9, <1>10, Zenon DEF TableShape
<1>13. PrioritySorted'
  BY <1>1, <1>10 DEF PrioritySorted
<1>14. TableBooks'
  <2>1. \A q \in Ids : queues'[q].open_count = Cardinality(Holders(ends', q))
    BY <1>1, <1>5, <1>6, <1>7, <1>11 DEF TableBooks
  <2>2. \A q \in Ids : queues'[q].exists <=> n = q \/ \E x \in Ends : ends'[x] = q
    BY <1>1, <1>2, <1>6, <1>7, <1>9, IdFacts DEF TableBooks
  <2>3. \A q \in Ids : queues'[q].exists => (queues'[q].unlinked <=> n # q)
    BY <1>1, <1>2, <1>6, <1>7, IdFacts DEF TableBooks
  <2>4. \A q \in Ids : ~queues'[q].exists => queues'[q] \in {Unused, Gone}
    BY <1>1, <1>6, <1>7 DEF TableBooks
  <2>5. \A q \in Ids : queues'[q].notify # NoNotify => ends'[queues'[q].notify.owner] = q
    <3> TAKE q \in Ids
    <3>1. queues'[q].notify = queues[q].notify
      BY <1>5, <1>6, <1>7
    <3>2. queues[q].notify # NoNotify => queues[q].notify.owner \in Ends /\ ends[queues[q].notify.owner] = q
      BY <1>1, <1>4 DEF TableBooks, Queue, Registration
    <3>3. QED
      BY <1>2, <1>9, <3>1, <3>2, IdFacts
  <2>6. \A o \in Procs : fd'[o] # 0 => ends'[fd'[o]] # 0
    BY <1>1, <1>8, <1>9 DEF TableBooks
  <2>7. QED
    BY <2>1, <2>2, <2>3, <2>4, <2>5, <2>6 DEF TableBooks, Unused, Gone, NoNotify, Holders
<1>15. \A o \in Procs : fd[o] # 0 => fd'[o] = fd[o] /\ ends'[fd[o]] = ends[fd[o]]
  BY <1>1, <1>2, <1>8, <1>9 DEF TableBooks
<1>16. QED
  BY <1>10, <1>12, <1>13, <1>14, <1>15, Zenon DEF MqTables

\* A queue with one description less, without its registration if it was e's.
Less(Q, e) == [Q EXCEPT !.open_count = Q.open_count - 1,
                        !.notify = IF Q.notify.kind # "free" /\ Q.notify.owner = e
                                     THEN NoNotify ELSE Q.notify]

\* mq_close counts one description less and drops its registration.
LEMMA QueueClosed ==
    ASSUME NEW Q \in Queue, NEW e \in Ends, Q.open_count # 0
    PROVE  /\ Less(Q, e) \in Queue
           /\ Less(Q, e).exists <=> Q.exists
           /\ Less(Q, e).msgs = Q.msgs
           /\ Less(Q, e).open_count = Q.open_count - 1
           /\ Less(Q, e).unlinked <=> Q.unlinked
           /\ Less(Q, e).notify # NoNotify => Less(Q, e).notify = Q.notify /\ Q.notify.owner # e
<1> DEFINE R == Less(Q, e)
<1> DEFINE N == IF Q.notify.kind # "free" /\ Q.notify.owner = e THEN NoNotify ELSE Q.notify
<1>1. /\ N \in {NoNotify} \cup Registration
      /\ N # NoNotify => N = Q.notify /\ Q.notify.owner # e
  <2>1. CASE Q.notify = NoNotify
    BY <2>1, QueueAtoms
  <2>2. CASE Q.notify \in Registration
    <3>1. Q.notify.kind # "free" /\ Q.notify # NoNotify
      BY <2>2, QueueAtoms DEF Registration
    <3>2. QED
      BY <2>2, <3>1
  <2>3. QED
    BY <2>1, <2>2, QueueParts
<1>2. R = [Q EXCEPT !.open_count = Q.open_count - 1, !.notify = N]
  BY Zenon DEF Less
<1> HIDE DEF N, R
<1>3. R \in Queue
  <2>1. Q.open_count - 1 \in Nat
    BY QueueParts
  <2>2. QED
    BY <1>1, <1>2, <2>1, Zenon DEF Queue
<1>4. R.msgs = Q.msgs /\ R.open_count = Q.open_count - 1 /\ R.notify = N
  BY <1>2 DEF Queue
<1>5. (R.exists <=> Q.exists) /\ (R.unlinked <=> Q.unlinked)
  BY <1>2 DEF Queue
<1>6. QED
  BY <1>1, <1>3, <1>4, <1>5 DEF R

\* close: with its last description a queue without a name is gone.
LEMMA CloseTables ==
    ASSUME MqConstants, MqTables, NEW p \in Procs, CloseFd(p), name' = name
    PROVE  /\ MqTables'
           /\ \A q \in Ids : queues'[q].exists => queues'[q].msgs = queues[q].msgs
           /\ \A o \in Procs \ {p} : fd[o] # 0 => fd'[o] = fd[o] /\ ends'[fd[o]] = ends[fd[o]]
<1> DEFINE e == fd[p]
<1>1. TableShape /\ TableBooks /\ PrioritySorted
  BY Zenon DEF MqTables
<1>2. /\ ends \in [Ends -> 0..MaxId] /\ fd \in [Procs -> Ends \cup {0}] /\ queues \in [Ids -> Queue]
  BY <1>1 DEF TableShape
<1>3. /\ fd' \in [Procs -> Ends \cup {0}] /\ fd'[p] = 0
      /\ \A o \in Procs \ {p} : fd'[o] = fd[o]
  BY <1>2 DEF CloseFd
<1>4. CASE e = 0 \/ \E o \in Procs \ {p} : fd[o] = e
  <2>1. queues' = queues /\ ends' = ends
    BY <1>4, Zenon DEF CloseFd
  <2>2. TableShape'
    BY <1>1, <1>3, <2>1 DEF TableShape
  <2>3. TableBooks'
    BY <1>1, <1>2, <1>3, <2>1 DEF TableBooks, Holders
  <2>4. PrioritySorted'
    BY <1>1, <2>1 DEF PrioritySorted
  <2>5. QED
    BY <1>3, <2>1, <2>2, <2>3, <2>4, Zenon DEF MqTables
<1>5. CASE e # 0 /\ \A o \in Procs \ {p} : fd[o] # e
  <2> DEFINE n == ends[e]
             Q == queues[n]
             R == Less(Q, e)
             Y == IF R.open_count = 0 /\ R.unlinked THEN Gone ELSE R
  <2>1. queues' = [queues EXCEPT ![n] = Y] /\ ends' = [ends EXCEPT ![e] = 0]
    BY <1>5, Zenon DEF CloseFd, mq_close, Less
  <2>2. e \in Ends /\ n \in Ids /\ n # 0
    BY <1>1, <1>2, <1>5, IdFacts DEF TableBooks
  <2>3. /\ Q \in Queue /\ Q.exists /\ Q.open_count \in Nat /\ Q.open_count # 0
        /\ Q.unlinked <=> name # n
        /\ Q.open_count = Cardinality(Holders(ends, n))
    <3>1. Q \in Queue /\ Q.exists /\ (Q.unlinked <=> name # n) /\ Q.open_count = Cardinality(Holders(ends, n))
      BY <1>1, <1>2, <2>2 DEF TableBooks
    <3>2. Cardinality(Holders(ends, n)) \in Nat /\ Cardinality(Holders(ends, n)) # 0
      BY <2>2, HolderCount
    <3>3. QED
      BY <3>1, <3>2
  <2> HIDE DEF Q
  <2>4. /\ R \in Queue /\ R.exists /\ R.msgs = Q.msgs
        /\ R.open_count = Q.open_count - 1 /\ (R.unlinked <=> Q.unlinked)
        /\ R.notify # NoNotify => R.notify = Q.notify /\ Q.notify.owner # e
    BY <2>2, <2>3, QueueClosed, Zenon
  <2> HIDE DEF R
  <2>5. /\ Y \in Queue /\ Y.open_count = Q.open_count - 1
        /\ Y.exists <=> ~(R.open_count = 0 /\ R.unlinked)
        /\ Y.exists => Y.msgs = Q.msgs /\ (Y.unlinked <=> Q.unlinked)
        /\ ~Y.exists => Y = Gone
        /\ Y.notify # NoNotify => Y.notify = Q.notify /\ Q.notify.owner # e
    BY <2>4, QueueAtoms
  <2> HIDE DEF Y, e, n
  <2>6. /\ queues' \in [Ids -> Queue] /\ queues'[n] = Y
        /\ \A q \in Ids \ {n} : queues'[q] = queues[q]
    BY <1>2, <2>1, <2>2, <2>5
  <2>7. /\ ends' \in [Ends -> 0..MaxId] /\ ends'[e] = 0
        /\ \A x \in Ends \ {e} : ends'[x] = ends[x]
        /\ ends[e] = n
    BY <1>2, <2>1, <2>2, IdFacts DEF MqConstants, n
  <2>8. /\ \A q \in Ids \ {n} : Holders(ends', q) = Holders(ends, q)
        /\ Cardinality(Holders(ends', n)) = Cardinality(Holders(ends, n)) - 1
    <3>1. \A q \in Ids \ {n} : Holders(ends', q) = Holders(ends, q)
      BY <2>2, <2>7, IdFacts DEF Holders
    <3>2. ends[e] = n /\ ends'[e] # n
      BY <2>2, <2>7
    <3>3. e \in Ends /\ \A x \in Ends \ {e} : ends'[x] = ends[x]
      BY <2>2, <2>7
    <3>4. Cardinality(Holders(ends', n)) = Cardinality(Holders(ends, n)) - 1
      BY <3>2, <3>3, HolderRemoved, SMT
    <3>5. QED
      BY <3>1, <3>4
  <2>9. \A q \in Ids : queues'[q].exists => queues'[q].msgs = queues[q].msgs
    BY <2>5, <2>6 DEF Q
  <2>10. \A q \in Ids : Len(queues'[q].msgs) <= mq_maxmsg
    <3>1. Gone.msgs = <<>> /\ Len(<<>>) <= mq_maxmsg
      BY QueueAtoms DEF MqConstants
    <3>2. QED
      BY <1>1, <2>5, <2>6, <2>9, <3>1 DEF TableShape
  <2>11. TableShape'
    BY <1>1, <1>3, <2>6, <2>7, <2>10 DEF TableShape
  <2>12. PrioritySorted'
    <3>1. DOMAIN Gone.msgs = {}
      BY QueueAtoms
    <3>2. \A q \in Ids : queues'[q].msgs = queues[q].msgs \/ DOMAIN queues'[q].msgs = {}
      BY <2>5, <2>6, <2>9, <3>1
    <3>3. QED
      BY <1>1, <3>2 DEF PrioritySorted
  <2>13. TableBooks'
    <3>1. \A q \in Ids : queues'[q].open_count = Cardinality(Holders(ends', q))
      BY <1>1, <2>3, <2>5, <2>6, <2>8 DEF TableBooks
    <3>2. \A q \in Ids : queues'[q].exists <=> name = q \/ \E x \in Ends : ends'[x] = q
      <4> TAKE q \in Ids
      <4>1. CASE q = n
        <5>1. Y.open_count = Cardinality(Holders(ends', n))
          BY <2>3, <2>5, <2>8
        <5>2. Y.open_count = 0 <=> \A x \in Ends : ends'[x] # n
          BY <5>1, HolderCount, Zenon
        <5>3. R.open_count = Y.open_count /\ (R.unlinked <=> name # n)
          BY <2>3, <2>4, <2>5
        <5>4. QED
          BY <2>5, <2>6, <4>1, <5>2, <5>3
      <4>2. CASE q # n
        <5>1. queues'[q].exists <=> name = q \/ \E x \in Ends : ends[x] = q
          BY <1>1, <2>6, <4>2 DEF TableBooks
        <5>2. (\E x \in Ends : ends[x] = q) <=> \E x \in Ends : ends'[x] = q
          BY <2>2, <2>7, <4>2, IdFacts, SMTT(30)
        <5>3. QED
          BY <5>1, <5>2
      <4>3. QED
        BY <4>1, <4>2
    <3>3. \A q \in Ids : queues'[q].exists => (queues'[q].unlinked <=> name # q)
      BY <1>1, <2>3, <2>5, <2>6 DEF TableBooks
    <3>4. \A q \in Ids : ~queues'[q].exists => queues'[q] \in {Unused, Gone}
      BY <1>1, <2>5, <2>6 DEF TableBooks
    <3>5. \A q \in Ids : queues'[q].notify # NoNotify => ends'[queues'[q].notify.owner] = q
      <4> TAKE q \in Ids
      <4>1. queues[q].notify # NoNotify => queues[q].notify.owner \in Ends /\ ends[queues[q].notify.owner] = q
        BY <1>1, <1>2 DEF TableBooks, Queue, Registration
      <4>2. queues'[q].notify # NoNotify =>
              queues'[q].notify = queues[q].notify /\ (q = n => queues[q].notify.owner # e)
        BY <2>5, <2>6 DEF Q
      <4>3. QED
        BY <2>7, <4>1, <4>2
    <3>6. \A o \in Procs : fd'[o] # 0 => ends'[fd'[o]] # 0
      BY <1>1, <1>2, <1>3, <1>5, <2>7 DEF TableBooks, e
    <3>7. QED
      BY <3>1, <3>2, <3>3, <3>4, <3>5, <3>6, Zenon DEF TableBooks, Unused, Gone, NoNotify, Holders
  <2>14. \A o \in Procs \ {p} : fd[o] # 0 => fd'[o] = fd[o] /\ ends'[fd[o]] = ends[fd[o]]
    BY <1>2, <1>3, <1>5, <2>7 DEF e
  <2>15. QED
    BY <2>9, <2>11, <2>12, <2>13, <2>14, Zenon DEF MqTables
<1>6. QED
  BY <1>4, <1>5, Zenon

\* fork: one descriptor more for a description.
LEMMA ForkTables ==
    ASSUME MqTables, NEW p \in Procs, NEW c \in Procs, fork(p, c)
    PROVE  /\ MqTables' /\ queues' = queues
           /\ \A o \in Procs : fd[o] # 0 => fd'[o] = fd[o] /\ ends'[fd[o]] = ends[fd[o]]
<1>1. TableShape /\ TableBooks /\ PrioritySorted
  BY Zenon DEF MqTables
<1>2. /\ fd[p] # 0 /\ fd[c] = 0 /\ fd' = [fd EXCEPT ![c] = fd[p]]
      /\ UNCHANGED <<name, queues, ends>>
  BY DEF fork
<1>3. fd \in [Procs -> Ends \cup {0}]
  BY <1>1 DEF TableShape
<1>4. /\ fd' \in [Procs -> Ends \cup {0}] /\ fd'[c] = fd[p]
      /\ \A o \in Procs \ {c} : fd'[o] = fd[o]
  BY <1>2, <1>3
<1>5. TableShape'
  BY <1>1, <1>2, <1>4 DEF TableShape
<1>6. TableBooks'
  BY <1>1, <1>2, <1>4 DEF TableBooks, Holders
<1>7. PrioritySorted'
  BY <1>1, <1>2 DEF PrioritySorted
<1>8. QED
  BY <1>2, <1>4, <1>5, <1>6, <1>7 DEF MqTables

\* mq_unlink: the name goes, and the queue with it if nobody has it open.
LEMMA UnlinkTables ==
    ASSUME MqConstants, MqTables, NEW p \in Procs, do_mq_unlink(p)
    PROVE  /\ MqTables'
           /\ \A q \in Ids : queues'[q].exists => queues'[q].msgs = queues[q].msgs
<1> DEFINE n == name
           Q == queues[n]
           Y == IF Q.open_count = 0 THEN Gone ELSE [Q EXCEPT !.unlinked = TRUE]
<1>1. TableShape /\ TableBooks /\ PrioritySorted
  BY Zenon DEF MqTables
<1>2. /\ n # 0 /\ name' = 0 /\ queues' = [queues EXCEPT ![n] = Y] /\ UNCHANGED <<ends, fd>>
  BY DEF do_mq_unlink
<1>3. queues \in [Ids -> Queue] /\ n \in Ids
  BY <1>1, <1>2, IdFacts DEF TableShape
<1>4. Q \in Queue /\ Q.exists /\ Q.open_count \in Nat /\ Q.open_count = Cardinality(Holders(ends, n))
  BY <1>1, <1>3, QueueParts DEF TableBooks
<1> HIDE DEF Q
<1>5. /\ Y \in Queue /\ Y.open_count = Q.open_count
      /\ Y.exists <=> Q.open_count # 0
      /\ Y.exists => Y.msgs = Q.msgs /\ Y.unlinked
      /\ ~Y.exists => Y = Gone
      /\ Y.notify # NoNotify => Y.notify = Q.notify
  <2>1. CASE Q.open_count = 0
    BY <2>1, QueueAtoms
  <2>2. CASE Q.open_count # 0
    <3> DEFINE R == [Q EXCEPT !.unlinked = TRUE]
    <3>1. R \in Queue /\ R.open_count = Q.open_count /\ R.msgs = Q.msgs /\ R.notify = Q.notify
      BY <1>4, Zenon DEF Queue
    <3>2. R.exists /\ R.unlinked
      BY <1>4 DEF Queue
    <3>3. Y = R
      BY <2>2
    <3> HIDE DEF R, Y
    <3>4. QED
      BY <2>2, <3>1, <3>2, <3>3
  <2>3. QED
    BY <2>1, <2>2, Zenon
<1> HIDE DEF Y
<1>6. /\ queues' \in [Ids -> Queue] /\ queues'[n] = Y
      /\ \A q \in Ids \ {n} : queues'[q] = queues[q]
  BY <1>2, <1>3, <1>5
<1>7. \A q \in Ids : queues'[q].exists => queues'[q].msgs = queues[q].msgs
  BY <1>5, <1>6 DEF Q
<1>8. Gone.msgs = <<>> /\ DOMAIN Gone.msgs = {} /\ Len(Gone.msgs) <= mq_maxmsg
  BY QueueAtoms DEF MqConstants
<1>9. TableShape'
  <2>1. \A q \in Ids : Len(queues'[q].msgs) <= mq_maxmsg
    BY <1>1, <1>5, <1>6, <1>7, <1>8 DEF TableShape
  <2>2. 0 \in 0..MaxId
    BY DEF MqConstants
  <2>3. QED
    BY <1>1, <1>2, <1>6, <2>1, <2>2 DEF TableShape
<1>10. PrioritySorted'
  <2>1. \A q \in Ids : queues'[q].msgs = queues[q].msgs \/ DOMAIN queues'[q].msgs = {}
    BY <1>5, <1>6, <1>7, <1>8
  <2>2. QED
    BY <1>1, <2>1 DEF PrioritySorted
<1>11. TableBooks'
  <2>1. \A q \in Ids : queues'[q].open_count = Cardinality(Holders(ends, q))
    BY <1>1, <1>4, <1>5, <1>6 DEF TableBooks
  <2>2. \A q \in Ids : queues'[q].exists <=> \E x \in Ends : ends[x] = q
    <3>1. Q.open_count # 0 <=> \E x \in Ends : ends[x] = n
      BY <1>4, HolderCount, ZenonT(40)
    <3>2. QED
      BY <1>1, <1>5, <1>6, <3>1 DEF TableBooks
  <2>3. \A q \in Ids : queues'[q].exists => queues'[q].unlinked
    BY <1>1, <1>5, <1>6 DEF TableBooks
  <2>4. \A q \in Ids : ~queues'[q].exists => queues'[q] \in {Unused, Gone}
    BY <1>1, <1>5, <1>6 DEF TableBooks
  <2>5. \A q \in Ids : queues'[q].notify # NoNotify => ends[queues'[q].notify.owner] = q
    BY <1>1, <1>5, <1>6 DEF TableBooks, Q
  <2>6. \A q \in Ids : q # 0
    BY IdFacts
  <2>7. /\ \A q \in Ids : queues'[q].open_count = Cardinality(Holders(ends', q))
        /\ \A q \in Ids : queues'[q].exists <=> name' = q \/ \E x \in Ends : ends'[x] = q
        /\ \A q \in Ids : queues'[q].exists => (queues'[q].unlinked <=> name' # q)
    BY <1>2, <2>1, <2>2, <2>3, <2>6, SMTT(30)
  <2>8. /\ \A q \in Ids : queues'[q].notify # NoNotify => ends'[queues'[q].notify.owner] = q
        /\ \A o \in Procs : fd'[o] # 0 => ends'[fd'[o]] # 0
    BY <1>1, <1>2, <2>5 DEF TableBooks
  <2>9. QED
    BY <2>4, <2>7, <2>8, Zenon DEF TableBooks
<1>12. QED
  BY <1>7, <1>9, <1>10, <1>11, Zenon DEF MqTables

\* A step that changes the messages or the registration of a queue that exists.
LEMMA ChangedTables ==
    ASSUME MqTables, NEW n \in Ids, NEW Y \in Queue, queues' = [queues EXCEPT ![n] = Y],
           UNCHANGED <<name, ends, fd>>, queues[n].exists, Y.exists,
           Y.unlinked <=> queues[n].unlinked, Y.open_count = queues[n].open_count,
           Len(Y.msgs) <= mq_maxmsg,
           \A i, j \in DOMAIN Y.msgs : i < j => Y.msgs[i].prio >= Y.msgs[j].prio,
           Y.notify # NoNotify => ends[Y.notify.owner] = n
    PROVE  /\ MqTables' /\ queues'[n] = Y
           /\ \A q \in Ids \ {n} : queues'[q] = queues[q]
<1>1. TableShape /\ TableBooks /\ PrioritySorted
  BY Zenon DEF MqTables
<1>2. queues \in [Ids -> Queue]
  BY <1>1 DEF TableShape
<1>3. /\ queues' \in [Ids -> Queue] /\ queues'[n] = Y
      /\ \A q \in Ids \ {n} : queues'[q] = queues[q]
  BY <1>2
<1>4. TableShape'
  BY <1>1, <1>3 DEF TableShape
<1>5. PrioritySorted'
  BY <1>1, <1>3 DEF PrioritySorted
<1>6. TableBooks'
  BY <1>1, <1>3 DEF TableBooks, Holders, Unused, Gone, NoNotify
<1>7. QED
  BY <1>3, <1>4, <1>5, <1>6, Zenon DEF MqTables

\* A set of naturals that is not empty has a least one.
LEMMA LeastNat ==
    ASSUME NEW T \in SUBSET Nat, T # {}
    PROVE  \E x \in T : \A y \in T : x <= y
<1> DEFINE R == {ss \in Nat \X Nat : ss[1] < ss[2]}
<1>1. IsWellFoundedOn(R, Nat)
  BY NatLessThanWellFounded DEF OpToRel
<1> HIDE DEF R
<1>2. PICK x \in T : \A y \in T : <<y, x>> \notin R
  BY <1>1, WFMin, Zenon
<1>3. \A y \in T : ~(y < x)
  BY <1>2, Zenon DEF R
<1>4. QED
  BY <1>3

\* One sequence after another.
LEMMA Joined ==
    ASSUME NEW M, NEW x \in Seq(M), NEW y \in Seq(M)
    PROVE  /\ x \o y \in Seq(M) /\ Len(x \o y) = Len(x) + Len(y)
           /\ \A i \in 1..(Len(x) + Len(y)) :
                (x \o y)[i] = IF i <= Len(x) THEN x[i] ELSE y[i - Len(x)]
OBVIOUS

\* A message goes before those of a lower priority and after all others.
LEMMA InsertFacts ==
    ASSUME Prios \subseteq Int, NEW s \in Seq(Message), NEW m \in Message
    PROVE  LET t == insert_by_priority(s, m) IN
           /\ t \in Seq(Message) /\ Len(t) = Len(s) + 1
           /\ (\A i, j \in DOMAIN s : i < j => s[i].prio >= s[j].prio)
                => \A i, j \in DOMAIN t : i < j => t[i].prio >= t[j].prio
<1> DEFINE n == Len(s)
           later == {i \in DOMAIN s : s[i].prio < m.prio}
           T == later \cup {n + 1}
           pos == CHOOSE i \in T : \A j \in T : i <= j
           t == SubSeq(s, 1, pos - 1) \o <<m>> \o SubSeq(s, pos, n)
<1>1. insert_by_priority(s, m) = t
  BY DEF insert_by_priority
<1>2. n \in Nat /\ DOMAIN s = 1..n /\ T \in SUBSET Nat /\ n + 1 \in T
  OBVIOUS
<1>3. \E i \in T : \A j \in T : i <= j
  <2> HIDE DEF T
  <2>1. QED
    BY <1>2, LeastNat, SMTT(30)
<1>4. pos \in T /\ \A j \in T : pos <= j
  BY <1>3, Zenon
<1> HIDE DEF pos, n
<1>5. /\ pos \in 1..(n + 1)
      /\ \A i \in 1..n : i < pos => ~(s[i].prio < m.prio)
      /\ pos # n + 1 => s[pos].prio < m.prio
  BY <1>2, <1>4
<1> HIDE DEF later, T
<1> DEFINE a == SubSeq(s, 1, pos - 1)
           b == SubSeq(s, pos, n)
<1>6. /\ a \in Seq(Message) /\ Len(a) = pos - 1 /\ \A i \in 1..(pos - 1) : a[i] = s[i]
      /\ b \in Seq(Message) /\ Len(b) = n + 1 - pos /\ \A i \in 1..(n + 1 - pos) : b[i] = s[pos + i - 1]
  <2>1. /\ pos \in Int /\ n \in Int /\ n = Len(s)
        /\ \A i \in 1..(pos - 1) : i \in 1..n
        /\ \A i \in pos..n : i \in 1..n
        /\ \A i \in 1..n : s[i] \in Message
    BY <1>2, <1>5 DEF n
  <2>2. a \in Seq(Message) /\ Len(a) = pos - 1 /\ \A i \in 1..(pos - 1) : a[i] = s[i]
    BY <2>1, <1>5, <1>2
  <2>3. b \in Seq(Message) /\ Len(b) = n + 1 - pos /\ \A i \in 1..(n + 1 - pos) : b[i] = s[pos + i - 1]
    BY <2>1, <1>5, <1>2
  <2>4. QED
    BY <2>2, <2>3, Zenon
<1> HIDE DEF a, b
<1>7. <<m>> \in Seq(Message) /\ Len(<<m>>) = 1 /\ <<m>>[1] = m
  OBVIOUS
<1> DEFINE c == a \o <<m>>
<1>8. /\ c \in Seq(Message) /\ Len(c) = pos /\ c[pos] = m /\ \A i \in 1..(pos - 1) : c[i] = s[i]
  <2> HIDE DEF t
  <2>1. /\ a \o <<m>> \in Seq(Message) /\ Len(a \o <<m>>) = Len(a) + Len(<<m>>)
        /\ \A i \in 1..(Len(a) + Len(<<m>>)) :
             (a \o <<m>>)[i] = IF i <= Len(a) THEN a[i] ELSE <<m>>[i - Len(a)]
    BY <1>6, <1>7, Joined, Zenon
  <2>2. Len(a) + Len(<<m>>) = pos /\ Len(a) = pos - 1 /\ pos \in 1..(n + 1) /\ n \in Nat
    BY <1>2, <1>5, <1>6, <1>7
  <2>3. \A i \in 1..pos : c[i] = IF i <= pos - 1 THEN a[i] ELSE <<m>>[i - (pos - 1)]
    BY <2>1, <2>2
  <2>4. \A i \in 1..(pos - 1) : i \in 1..pos /\ i <= pos - 1
    BY <2>2
  <2>5. pos \in 1..pos /\ ~(pos <= pos - 1) /\ pos - (pos - 1) = 1
    BY <2>2
  <2>6. c[pos] = m
    BY <2>3, <2>5, <1>7, Zenon
  <2>7. \A i \in 1..(pos - 1) : c[i] = s[i]
    BY <2>3, <2>4, <1>6
  <2>8. QED
    BY <2>1, <2>2, <2>6, <2>7
<1> HIDE DEF c
<1>9. t = c \o b
  BY DEF a, b, c
<1>10. /\ t \in Seq(Message) /\ Len(t) = n + 1
       /\ \A i \in 1..pos : t[i] = c[i]
       /\ \A i \in (pos + 1)..(n + 1) : t[i] = b[i - pos]
  <2>1. /\ c \o b \in Seq(Message) /\ Len(c \o b) = Len(c) + Len(b)
        /\ \A i \in 1..(Len(c) + Len(b)) : (c \o b)[i] = IF i <= Len(c) THEN c[i] ELSE b[i - Len(c)]
    BY <1>6, <1>8, Joined, ZenonT(40)
  <2> HIDE DEF t
  <2>2. Len(c) + Len(b) = n + 1 /\ Len(c) = pos
    BY <1>2, <1>5, <1>6, <1>8
  <2>3. \A i \in 1..(n + 1) : t[i] = IF i <= pos THEN c[i] ELSE b[i - pos]
    BY <1>9, <2>1, <2>2
  <2>4. QED
    BY <1>2, <1>5, <1>9, <2>1, <2>2, <2>3, SMTT(30)
<1> HIDE DEF t
<1>11. /\ DOMAIN t = 1..(n + 1) /\ t[pos] = m
       /\ \A i \in 1..(pos - 1) : t[i] = s[i]
       /\ \A i \in (pos + 1)..(n + 1) : i - 1 \in 1..n /\ t[i] = s[i - 1]
  BY <1>2, <1>5, <1>6, <1>8, <1>10
<1>12. ASSUME \A i, j \in DOMAIN s : i < j => s[i].prio >= s[j].prio,
              NEW i \in DOMAIN t, NEW j \in DOMAIN t, i < j
       PROVE  t[i].prio >= t[j].prio
  <2>1. m.prio \in Int /\ \A k \in 1..n : s[k].prio \in Int
    <3>1. \A k \in 1..n : s[k] \in Message
      BY <1>2 DEF n
    <3>2. \A x \in Message : x.prio \in Int
      BY Zenon DEF Message
    <3>3. QED
      BY <3>1, <3>2
  <2>2. i \in 1..(n + 1) /\ j \in 1..(n + 1) /\ i \in Int /\ j \in Int /\ pos \in Int
    BY <1>2, <1>5, <1>11
  <2>3. \A k, l \in 1..n : k <= l => s[k].prio >= s[l].prio
    <3> TAKE k, l \in 1..n
    <3>1. CASE k < l
      BY <3>1, <1>2, <1>12
    <3>2. CASE k = l
      BY <3>2, <2>1
    <3>3. QED
      BY <3>1, <3>2, <1>2
  <2>4. CASE j < pos
    <3>1. i \in 1..(pos - 1) /\ j \in 1..(pos - 1) /\ i \in 1..n /\ j \in 1..n
      BY <1>2, <1>5, <1>12, <2>2, <2>4
    <3>2. QED
      BY <1>11, <1>12, <2>2, <2>3, <3>1
  <2>5. CASE j = pos
    <3>1. i \in 1..(pos - 1) /\ i \in 1..n /\ i < pos
      BY <1>2, <1>5, <1>12, <2>2, <2>5
    <3>2. t[i] = s[i] /\ t[j] = m /\ ~(s[i].prio < m.prio)
      BY <1>5, <1>11, <2>5, <3>1
    <3>3. QED
      BY <2>1, <3>1, <3>2
  <2>6. CASE j > pos
    <3>1. j \in (pos + 1)..(n + 1)
      BY <1>2, <1>5, <2>2, <2>6
    <3>2. j - 1 \in 1..n /\ t[j] = s[j - 1]
      BY <1>11, <3>1
    <3>3. CASE i < pos
      <4>1. i \in 1..(pos - 1) /\ i \in 1..n /\ i <= j - 1
        BY <1>2, <1>5, <2>2, <2>6, <3>3
      <4>2. t[i] = s[i] /\ s[i].prio >= s[j - 1].prio
        BY <1>11, <2>3, <3>2, <4>1
      <4>3. QED
        BY <3>2, <4>2
    <3>4. CASE i = pos
      <4>1. pos \in 1..n /\ pos <= j - 1 /\ pos # n + 1
        BY <1>2, <1>5, <2>2, <2>6
      <4>2. t[i] = m /\ s[pos].prio < m.prio /\ s[pos].prio >= s[j - 1].prio
        BY <1>5, <1>11, <2>3, <3>2, <3>4, <4>1
      <4>3. QED
        BY <2>1, <3>2, <4>1, <4>2
    <3>5. CASE i > pos
      <4>1. i \in (pos + 1)..(n + 1) /\ i - 1 <= j - 1
        BY <1>2, <1>5, <1>12, <2>2, <3>5
      <4>2. i - 1 \in 1..n /\ t[i] = s[i - 1]
        BY <1>11, <4>1
      <4>3. QED
        BY <2>3, <3>2, <4>1, <4>2
    <3>6. QED
      BY <2>2, <3>3, <3>4, <3>5
  <2>7. QED
    BY <2>2, <2>4, <2>5, <2>6
<1>13. QED
  BY <1>1, <1>10, <1>12 DEF n

-----------------------------------------------------------------------------
\* A call is known by its op, and what sleeps has a queue that exists.
LEMMA CallParts ==
    ASSUME SleepShape
    PROVE  \A p \in Procs :
             /\ call[p].op = "send" <=> call[p] \in SendCalls
             /\ call[p].op = "receive" <=> call[p] \in ReceiveCalls
             /\ call[p] # NoCall => call[p].q \in Ids /\ call[p].time \in {"later", "past"}
             /\ call[p] # NoCall => call[p].op \in {"send", "receive"}
BY CallAtoms DEF SleepShape, SendCalls, ReceiveCalls

\* A step that wakes some sleepers, and changes no messages.
LEMMA CalmMq ==
    ASSUME MqConstants, MqInv, MqTables', SleepShape', CallsHeld',
           \A q \in Ids : queues'[q].exists => queues'[q].msgs = queues[q].msgs,
           \A o \in Procs : state'[o] = "asleep" =>
               state[o] = "asleep" /\ call'[o] = call[o] /\ o \notin caught'
    PROVE  MqInv'
<1>1. TableShape' /\ TableBooks' /\ PrioritySorted'
  BY Zenon DEF MqTables
<1>2. ASSUME ~BadBuffers PROVE NoLostWakeup'
  <2> SUFFICES ASSUME NEW o \in Procs, state'[o] = "asleep"
               PROVE  /\ o \notin caught' /\ call'[o].time # "past"
                      /\ call'[o].op = "receive" => queues'[call'[o].q].msgs = <<>>
                      /\ call'[o].op = "send" => Len(queues'[call'[o].q].msgs) = mq_maxmsg
    BY Zenon DEF NoLostWakeup
  <2>1. state[o] = "asleep" /\ call'[o] = call[o] /\ o \notin caught'
    OBVIOUS
  <2>2. /\ call[o].time # "past"
        /\ call[o].op = "receive" => queues[call[o].q].msgs = <<>>
        /\ call[o].op = "send" => Len(queues[call[o].q].msgs) = mq_maxmsg
    BY <1>2, <2>1, Zenon DEF MqInv, NoLostWakeup
  <2>3. call[o] # NoCall /\ call[o].q \in Ids
    BY <2>1, CallParts DEF MqInv, SleepShape
  <2>4. fd'[o] # 0 /\ ends'[fd'[o]] = call[o].q
    BY <2>1, <2>3, Zenon DEF CallsHeld
  <2>5. fd'[o] \in Ends
    BY <1>1, <2>4, SMTT(30) DEF TableShape
  <2>6. queues'[call[o].q].exists
    BY <1>1, <2>3, <2>4, <2>5, SMTT(30) DEF TableBooks
  <2>7. queues'[call[o].q].msgs = queues[call[o].q].msgs
    BY <2>3, <2>6
  <2>8. QED
    BY <2>1, <2>2, <2>7
<1>3. Uninterrupted'
  BY DEF MqInv, Uninterrupted
<1>4. QED
  BY <1>1, <1>2, <1>3, Zenon DEF MqInv

\* A step of mq_open, close, fork or mq_unlink, none of which sleeps.
LEMMA TablesOnly ==
    ASSUME MqConstants, MqInv, MqTables', UNCHANGED sleepers,
           \A q \in Ids : queues'[q].exists => queues'[q].msgs = queues[q].msgs,
           \A o \in Procs : call[o] # NoCall /\ fd[o] # 0 =>
               fd'[o] = fd[o] /\ ends'[fd[o]] = ends[fd[o]]
    PROVE  MqInv'
<1>1. state' = state /\ call' = call /\ caught' = caught
  BY DEF sleepers
<1>2. SleepShape'
  BY <1>1 DEF MqInv, SleepShape
<1>3. CallsHeld'
  BY <1>1 DEF MqInv, CallsHeld
<1>4. \A o \in Procs : state'[o] = "asleep" =>
        state[o] = "asleep" /\ call'[o] = call[o] /\ o \notin caught'
  BY <1>1 DEF MqInv, Uninterrupted
<1>5. QED
  BY <1>2, <1>3, <1>4, CalmMq, Zenon

\* A step that leaves the tables alone and makes p's call return, puts it on
\* or wakes p from it.
LEMMA SleepersOnly ==
    ASSUME MqConstants, MqInv, UNCHANGED <<name, queues, ends, fd>>,
           NEW p \in Procs, NEW d,
           d = NoCall \/ (d \in SendCalls \cup ReceiveCalls /\ call[p] # NoCall /\ d.q = call[p].q),
           call' = [call EXCEPT ![p] = d],
           caught' \subseteq caught \cup {p},
           state' \in [Procs -> {"run", "asleep", "dead"}],
           \A o \in Procs : state'[o] = "asleep" => state[o] = "asleep" /\ o # p
    PROVE  MqInv'
<1>1. TableShape /\ SleepShape /\ TableBooks /\ CallsHeld /\ PrioritySorted /\ Uninterrupted
  BY Zenon DEF MqInv
<1>2. MqTables'
  <2>1. TableShape'
    BY <1>1 DEF TableShape
  <2>2. TableBooks'
    BY <1>1 DEF TableBooks, Holders
  <2>3. PrioritySorted'
    BY <1>1 DEF PrioritySorted
  <2>4. QED
    BY <2>1, <2>2, <2>3, Zenon DEF MqTables
<1>3. /\ call' \in [Procs -> {NoCall} \cup SendCalls \cup ReceiveCalls]
      /\ call'[p] = d /\ \A o \in Procs \ {p} : call'[o] = call[o]
  BY <1>1 DEF SleepShape
<1>4. SleepShape'
  BY <1>1, <1>3 DEF SleepShape
<1>5. CallsHeld'
  BY <1>1, <1>3 DEF CallsHeld
<1>6. \A o \in Procs : state'[o] = "asleep" =>
        state[o] = "asleep" /\ call'[o] = call[o] /\ o \notin caught'
  BY <1>1, <1>3 DEF Uninterrupted
<1>7. \A q \in Ids : queues'[q].exists => queues'[q].msgs = queues[q].msgs
  OBVIOUS
<1>8. QED
  BY <1>2, <1>4, <1>5, <1>6, <1>7, CalmMq, Zenon

\* Whom Woken wakes.
LEMMA WokenMq ==
    ASSUME NEW S, state \in [Procs -> {"run", "asleep", "dead"}]
    PROVE  /\ Woken(S) \in [Procs -> {"run", "asleep", "dead"}]
           /\ \A o \in Procs : Woken(S)[o] = "asleep" <=> state[o] = "asleep" /\ o \notin S
           /\ \A o \in Procs : state[o] # "asleep" => Woken(S)[o] = state[o]
BY DEF Woken

\* mq_open keeps the invariant, with and without O_CREAT.
LEMMA OpenMq ==
    ASSUME MqConstants, MqInv, NEW p \in Procs, NEW e \in Ends, do_mq_open(p, e)
    PROVE  MqInv'
<1>1. MqTables
  BY Zenon DEF MqInv, MqTables
<1>2. /\ MqTables'
      /\ \A q \in Ids : queues'[q].msgs = queues[q].msgs
      /\ \A o \in Procs : fd[o] # 0 => fd'[o] = fd[o] /\ ends'[fd[o]] = ends[fd[o]]
  BY <1>1, OpenTables, Zenon
<1>3. UNCHANGED sleepers
  BY DEF do_mq_open
<1>4. QED
  BY <1>2, <1>3, TablesOnly, Zenon

\* So does close, of the last descriptor or of another.
LEMMA CloseMq ==
    ASSUME MqConstants, MqInv, NEW p \in Procs, Close(p)
    PROVE  MqInv'
<1>1. MqTables
  BY Zenon DEF MqInv, MqTables
<1>2. CloseFd(p) /\ name' = name /\ UNCHANGED sleepers /\ call[p] = NoCall
  BY DEF Close, Idle
<1>3. /\ MqTables'
      /\ \A q \in Ids : queues'[q].exists => queues'[q].msgs = queues[q].msgs
      /\ \A o \in Procs \ {p} : fd[o] # 0 => fd'[o] = fd[o] /\ ends'[fd[o]] = ends[fd[o]]
  BY <1>1, <1>2, CloseTables, Zenon
<1>4. \A o \in Procs : call[o] # NoCall /\ fd[o] # 0 =>
        fd'[o] = fd[o] /\ ends'[fd[o]] = ends[fd[o]]
  BY <1>2, <1>3, Zenon
<1>5. QED
  BY <1>2, <1>3, <1>4, TablesOnly, Zenon

\* So does fork, which makes no description.
LEMMA ForkMq ==
    ASSUME MqConstants, MqInv, NEW p \in Procs, NEW c \in Procs, fork(p, c)
    PROVE  MqInv'
<1>1. MqTables
  BY Zenon DEF MqInv, MqTables
<1>2. /\ MqTables' /\ queues' = queues
      /\ \A o \in Procs : fd[o] # 0 => fd'[o] = fd[o] /\ ends'[fd[o]] = ends[fd[o]]
  BY <1>1, ForkTables, Zenon
<1>3. UNCHANGED sleepers
  BY DEF fork
<1>4. \A q \in Ids : queues'[q].exists => queues'[q].msgs = queues[q].msgs
  BY <1>2, Zenon
<1>5. QED
  BY <1>2, <1>3, <1>4, TablesOnly, Zenon

\* So does mq_unlink, whether descriptions are open or not.
LEMMA UnlinkMq ==
    ASSUME MqConstants, MqInv, NEW p \in Procs, do_mq_unlink(p)
    PROVE  MqInv'
<1>1. MqTables
  BY Zenon DEF MqInv, MqTables
<1>2. /\ MqTables'
      /\ \A q \in Ids : queues'[q].exists => queues'[q].msgs = queues[q].msgs
  BY <1>1, UnlinkTables, Zenon
<1>3. UNCHANGED sleepers /\ UNCHANGED <<ends, fd>>
  BY DEF do_mq_unlink
<1>4. QED
  BY <1>2, <1>3, TablesOnly

\* A process killed inside a call leaves the queue to the others.
LEMMA ExitMq ==
    ASSUME MqConstants, MqInv, NEW p \in Procs, terminate_process(p)
    PROVE  MqInv'
<1>1. MqTables /\ SleepShape /\ CallsHeld /\ Uninterrupted
  BY Zenon DEF MqInv, MqTables
<1>2. /\ CloseFd(p) /\ name' = name
      /\ state' = [state EXCEPT ![p] = "dead"]
      /\ call' = [call EXCEPT ![p] = NoCall] /\ caught' = caught \ {p}
  BY DEF terminate_process, Returns
<1>3. /\ MqTables'
      /\ \A q \in Ids : queues'[q].exists => queues'[q].msgs = queues[q].msgs
      /\ \A o \in Procs \ {p} : fd[o] # 0 => fd'[o] = fd[o] /\ ends'[fd[o]] = ends[fd[o]]
  BY <1>1, <1>2, CloseTables, Zenon
<1>4. /\ state' \in [Procs -> {"run", "asleep", "dead"}] /\ state'[p] = "dead"
      /\ call' \in [Procs -> {NoCall} \cup SendCalls \cup ReceiveCalls] /\ call'[p] = NoCall
      /\ \A o \in Procs \ {p} : state'[o] = state[o] /\ call'[o] = call[o]
  BY <1>1, <1>2 DEF SleepShape
<1>5. SleepShape'
  BY <1>1, <1>2, <1>4, SMTT(30) DEF SleepShape
<1>6. CallsHeld'
  BY <1>1, <1>3, <1>4 DEF CallsHeld
<1>7. \A o \in Procs : state'[o] = "asleep" =>
        state[o] = "asleep" /\ call'[o] = call[o] /\ o \notin caught'
  BY <1>1, <1>2, <1>4 DEF Uninterrupted
<1>8. QED
  BY <1>3, <1>5, <1>6, <1>7, CalmMq, Zenon

\* A registration belongs to the description it was made through.
LEMMA NotifyMq ==
    ASSUME MqConstants, MqInv, NEW p \in Procs, NEW kind \in {"free", "signal", "none"},
           do_mq_notify(p, kind)
    PROVE  MqInv'
<1> DEFINE n == ends[fd[p]]
           r == IF kind = "free" THEN NoNotify ELSE [kind |-> kind, pid |-> p, owner |-> fd[p]]
           Y == [queues[n] EXCEPT !.notify = r]
<1>1. MqTables /\ TableShape /\ TableBooks /\ PrioritySorted
  BY Zenon DEF MqInv, MqTables
<1>2. /\ queues' = [queues EXCEPT ![n].notify = r]
      /\ fd[p] # 0 /\ n \in Ids /\ queues[n].exists
      /\ UNCHANGED <<name, ends, fd>> /\ UNCHANGED sleepers
  BY DEF do_mq_notify, Live
<1>3. queues[n] \in Queue /\ fd[p] \in Ends
  BY <1>1, <1>2 DEF TableShape
<1>4. r \in {NoNotify} \cup Registration /\ (r # NoNotify => r.owner = fd[p])
  BY <1>3 DEF Registration
<1>5. queues' = [queues EXCEPT ![n] = Y]
  BY <1>2
<1> HIDE DEF r, n
<1>6. /\ Y \in Queue /\ Y.exists /\ (Y.unlinked <=> queues[n].unlinked)
      /\ Y.open_count = queues[n].open_count /\ Y.msgs = queues[n].msgs /\ Y.notify = r
  BY <1>2, <1>3, <1>4 DEF Queue
<1>7. Len(Y.msgs) <= mq_maxmsg
  BY <1>1, <1>2, <1>6 DEF TableShape
<1>8. \A i, j \in DOMAIN Y.msgs : i < j => Y.msgs[i].prio >= Y.msgs[j].prio
  BY <1>1, <1>2, <1>6, Zenon DEF PrioritySorted
<1>9. Y.notify # NoNotify => ends[Y.notify.owner] = n
  BY <1>4, <1>6 DEF n
<1> HIDE DEF Y
<1>10. /\ MqTables' /\ queues'[n] = Y
       /\ \A q \in Ids \ {n} : queues'[q] = queues[q]
  BY <1>1, <1>2, <1>5, <1>6, <1>7, <1>8, <1>9, ChangedTables, Zenon
<1>11. \A q \in Ids : queues'[q].exists => queues'[q].msgs = queues[q].msgs
  BY <1>6, <1>10, Zenon
<1>12. QED
  BY <1>2, <1>10, <1>11, TablesOnly

\* What a pass of a call knows of its caller.
Caller(p, c) ==
    /\ p \in Procs /\ state[p] = "run"
    /\ fd[p] # 0 /\ ends[fd[p]] = c.q /\ c.q \in Ids

\* A call that returns at once changes no table.
LEMMA RemovedMq ==
    ASSUME MqConstants, MqInv, NEW p \in Procs, state[p] = "run", Removed(p)
    PROVE  MqInv'
<1>1. SleepShape
  BY Zenon DEF MqInv
<1>2. /\ call' = [call EXCEPT ![p] = NoCall] /\ caught' \subseteq caught \cup {p}
      /\ state' = state /\ UNCHANGED <<name, queues, ends, fd>>
  BY DEF Removed, Returns
<1>3. /\ state' \in [Procs -> {"run", "asleep", "dead"}]
      /\ \A o \in Procs : state'[o] = "asleep" => state[o] = "asleep" /\ o # p
  BY <1>1, <1>2 DEF SleepShape
<1>4. QED
  BY <1>2, <1>3, SleepersOnly, Zenon

\* A signal or a deadline wakes the call it is for.
LEMMA KillMq ==
    ASSUME MqConstants, MqInv, NEW p \in Procs, UNCHANGED <<name, queues, ends, fd>>,
           kill(p, {"send", "receive"}) \/ Tick(p)
    PROVE  MqInv'
<1> DEFINE d == IF Tick(p) THEN [call[p] EXCEPT !.time = "past"] ELSE call[p]
<1>1. SleepShape
  BY Zenon DEF MqInv
<1>2. call \in [Procs -> {NoCall} \cup SendCalls \cup ReceiveCalls] /\ call[p] # NoCall
  BY <1>1, CallAtoms DEF SleepShape, kill, Tick
<1>3. state' = Woken({p}) /\ caught' \subseteq caught \cup {p}
  BY DEF kill, Tick
<1>4. call' = [call EXCEPT ![p] = d]
  <2>1. CASE Tick(p)
    BY <2>1 DEF Tick
  <2>2. CASE ~Tick(p)
    <3>1. call' = call
      BY <2>2 DEF kill
    <3>2. QED
      BY <1>2, <2>2, <3>1
  <2>3. QED
    BY <2>1, <2>2
<1>5. d \in SendCalls \cup ReceiveCalls /\ d.q = call[p].q
  BY <1>2 DEF SendCalls, ReceiveCalls
<1>6. /\ state' \in [Procs -> {"run", "asleep", "dead"}]
      /\ \A o \in Procs : state'[o] = "asleep" => state[o] = "asleep" /\ o # p
  BY <1>1, <1>3, WokenMq DEF SleepShape
<1> HIDE DEF d
<1>7. QED
  BY <1>2, <1>3, <1>4, <1>5, <1>6, SleepersOnly, Zenon

\* A call goes to sleep only in a queue that makes it wait.
LEMMA CannotNowMq ==
    ASSUME MqConstants, MqInv, NEW p, NEW c \in SendCalls \cup ReceiveCalls, NEW nonblock,
           Caller(p, c), CannotNow(p, c, nonblock),
           c.op = "receive" => queues[c.q].msgs = <<>>,
           c.op = "send" => Len(queues[c.q].msgs) >= mq_maxmsg
    PROVE  MqInv'
<1>1. TableShape /\ SleepShape /\ TableBooks /\ CallsHeld /\ PrioritySorted /\ Uninterrupted
  BY Zenon DEF MqInv
<1>2. /\ p \in Procs /\ state[p] = "run" /\ fd[p] # 0 /\ ends[fd[p]] = c.q /\ c.q \in Ids
      /\ UNCHANGED <<name, queues, ends, fd>>
  BY DEF Caller, CannotNow
<1>3. CASE Returns(p) /\ UNCHANGED state
  BY <1>2, <1>3, RemovedMq DEF Removed
<1>4. CASE c.time # "past" /\ p \notin caught /\ SleepsIn(p, c)
  <2>1. /\ state' = [state EXCEPT ![p] = "asleep"] /\ call' = [call EXCEPT ![p] = c]
        /\ caught' = caught
    BY <1>4, SMTT(30) DEF SleepsIn
  <2>2. /\ state' \in [Procs -> {"run", "asleep", "dead"}] /\ state'[p] = "asleep"
        /\ call' \in [Procs -> {NoCall} \cup SendCalls \cup ReceiveCalls] /\ call'[p] = c
        /\ \A o \in Procs \ {p} : state'[o] = state[o] /\ call'[o] = call[o]
    BY <1>1, <1>2, <2>1, SMTT(30) DEF SleepShape
  <2>3. TableShape'
    BY <1>1, <1>2, SMTT(30) DEF TableShape
  <2>4. TableBooks'
    BY <1>1, <1>2, SMTT(30) DEF TableBooks, Holders
  <2>5. PrioritySorted'
    BY <1>1, <1>2, SMTT(30) DEF PrioritySorted
  <2>6. SleepShape'
    BY <1>1, <2>1, <2>2, CallAtoms, SMTT(30) DEF SleepShape
  <2>7. CallsHeld'
    BY <1>1, <1>2, <2>2 DEF CallsHeld
  <2>8. c.op = "send" => Len(queues[c.q].msgs) = mq_maxmsg
    <3>1. /\ Len(queues[c.q].msgs) <= mq_maxmsg /\ queues[c.q].msgs \in Seq(Message)
          /\ mq_maxmsg \in Int
      BY <1>1, <1>2, SMTT(30) DEF TableShape, Queue, MqConstants
    <3>2. QED
      BY <3>1
  <2>9. NoLostWakeup => NoLostWakeup'
    BY <1>1, <1>2, <1>4, <2>1, <2>2, <2>8, SMTT(30) DEF NoLostWakeup
  <2>10. Uninterrupted'
    BY <1>1, <1>4, <2>1, <2>2 DEF Uninterrupted
  <2>11. QED
    BY <2>3, <2>4, <2>5, <2>6, <2>7, <2>9, <2>10, Zenon DEF MqInv
<1>5. QED
  BY <1>3, <1>4, Zenon DEF CannotNow

\* A pass that puts in or takes out a message: it wakes those who waited for it.
LEMMA PassedMq ==
    ASSUME MqConstants, MqInv, NEW p, NEW c, Caller(p, c), NEW S, NEW G,
           MqTables', UNCHANGED <<name, ends, fd>>,
           \A q \in Ids \ {c.q} : queues'[q] = queues[q],
           state' = Woken(S), call' = [call EXCEPT ![p] = NoCall],
           caught' = (caught \cup G) \ {p}, G \subseteq S \cap Procs,
           ~BadBuffers => \A o \in Procs : state[o] = "asleep" /\ call[o].q = c.q => o \in S
    PROVE  MqInv'
<1>1. TableShape /\ SleepShape /\ TableBooks /\ CallsHeld /\ PrioritySorted /\ Uninterrupted
  BY Zenon DEF MqInv
<1>2. /\ p \in Procs /\ state[p] = "run"
  BY DEF Caller
<1>3. /\ state' \in [Procs -> {"run", "asleep", "dead"}]
      /\ \A o \in Procs : state'[o] = "asleep" => state[o] = "asleep" /\ o \notin S
  BY <1>1, WokenMq, Zenon DEF SleepShape
<1>4. /\ call' \in [Procs -> {NoCall} \cup SendCalls \cup ReceiveCalls] /\ call'[p] = NoCall
      /\ \A o \in Procs \ {p} : call'[o] = call[o]
  BY <1>1, <1>2, SMTT(30) DEF SleepShape
<1>5. SleepShape'
  BY <1>1, <1>2, <1>3, <1>4, SMTT(30) DEF SleepShape
<1>6. CallsHeld'
  BY <1>1, <1>4, SMTT(30) DEF CallsHeld
<1>7. Uninterrupted'
  <2> SUFFICES ASSUME NEW o \in Procs, state'[o] = "asleep"
               PROVE  o \notin caught' /\ call'[o].time # "past"
    BY Zenon DEF Uninterrupted
  <2>1. state[o] = "asleep" /\ o \notin S /\ o # p
    BY <1>2, <1>3, SMTT(30)
  <2>2. call'[o] = call[o]
    BY <1>4, <2>1, SMTT(30)
  <2>3. QED
    BY <1>1, <2>1, <2>2 DEF Uninterrupted
<1>8. ASSUME ~BadBuffers PROVE NoLostWakeup'
  <2>1. NoLostWakeup
    BY <1>8, Zenon DEF MqInv
  <2> SUFFICES ASSUME NEW o \in Procs, state'[o] = "asleep"
               PROVE  /\ o \notin caught' /\ call'[o].time # "past"
                      /\ call'[o].op = "receive" => queues'[call'[o].q].msgs = <<>>
                      /\ call'[o].op = "send" => Len(queues'[call'[o].q].msgs) = mq_maxmsg
    BY Zenon DEF NoLostWakeup
  <2>2. state[o] = "asleep" /\ o \notin S /\ o # p
    BY <1>2, <1>3
  <2>3. call'[o] = call[o] /\ call[o] # NoCall /\ call[o].q \in Ids \ {c.q}
    BY <1>1, <1>4, <1>8, <2>2, CallParts, SMTT(30) DEF SleepShape
  <2>4. queues'[call[o].q] = queues[call[o].q]
    BY <2>3
  <2>5. o \notin caught' /\ call'[o].time # "past"
    BY <1>7, SMTT(30) DEF Uninterrupted
  <2>6. QED
    BY <2>1, <2>2, <2>3, <2>4, <2>5, SMTT(30) DEF NoLostWakeup
<1>9. QED
  BY <1>5, <1>6, <1>7, <1>8, Zenon DEF MqInv, MqTables

\* The pass of a send that puts its message in.
LEMMA SendMq ==
    ASSUME MqConstants, MqInv, NEW p, NEW c \in SendCalls, NEW nonblock,
           Caller(p, c), Send(p, c, nonblock)
    PROVE  MqInv'
<1> DEFINE n == c.q
           R == Blocking("receive", n)
           fired == fires(n, R)
           G == IF fired THEN Notified(queues[n].notify.pid, p) ELSE {}
           m == [prio |-> c.prio, from |-> p]
           u == insert_by_priority(queues[n].msgs, m)
           w == IF fired THEN NoNotify ELSE queues[n].notify
           Y == [queues[n] EXCEPT !.msgs = u, !.notify = w]
<1>1. MqTables /\ TableShape /\ SleepShape /\ TableBooks /\ PrioritySorted
  BY Zenon DEF MqInv, MqTables
<1>2. /\ p \in Procs /\ state[p] = "run" /\ n \in Ids /\ queues[n] \in Queue
  BY <1>1 DEF Caller, TableShape
<1>3. CASE Removed(p)
  BY <1>2, <1>3, RemovedMq, Zenon
<1>4. CASE Len(queues[n].msgs) >= mq_maxmsg /\ CannotNow(p, c, nonblock)
  <2>1. c.op = "send" /\ c.op # "receive"
    BY DEF SendCalls
  <2>2. QED
    BY <1>4, <2>1, CannotNowMq, Zenon
<1>5. CASE /\ queues[n].exists /\ Len(queues[n].msgs) < mq_maxmsg
           /\ queues' = [queues EXCEPT ![n].msgs = u, ![n].notify = w]
           /\ state' = Woken(R \cup G)
           /\ call' = [call EXCEPT ![p] = NoCall]
           /\ caught' = (caught \cup G) \ {p}
           /\ UNCHANGED <<name, ends, fd>>
  <2>1. m \in Message
    BY <1>2, SMTT(30) DEF Message, SendCalls
  <2>2. /\ queues[n].msgs \in Seq(Message) /\ queues[n].notify \in {NoNotify} \cup Registration
        /\ \A i, j \in DOMAIN queues[n].msgs : i < j => queues[n].msgs[i].prio >= queues[n].msgs[j].prio
    BY <1>1, <1>2, SMTT(30) DEF PrioritySorted, Queue
  <2> HIDE DEF m
  <2>3. /\ u \in Seq(Message) /\ Len(u) = Len(queues[n].msgs) + 1
        /\ \A i, j \in DOMAIN u : i < j => u[i].prio >= u[j].prio
    BY <2>1, <2>2, InsertFacts, Zenon DEF MqConstants
  <2>4. w \in {NoNotify} \cup Registration /\ (w # NoNotify => w = queues[n].notify)
    BY <2>2
  <2>5. queues' = [queues EXCEPT ![n] = Y]
    <3> HIDE DEF u, w
    <3>1. QED
      BY <1>1, <1>2, <1>5, Zenon DEF TableShape
  <2> HIDE DEF u, w
  <2>6. /\ Y \in Queue /\ (Y.exists <=> queues[n].exists) /\ (Y.unlinked <=> queues[n].unlinked)
        /\ Y.open_count = queues[n].open_count /\ Y.msgs = u /\ Y.notify = w
    BY <1>2, <2>3, <2>4, Zenon DEF Queue
  <2>7. Len(Y.msgs) <= mq_maxmsg
    <3>1. Len(queues[n].msgs) \in Nat /\ mq_maxmsg \in Nat
      BY <2>2 DEF MqConstants
    <3> HIDE DEF Y, n
    <3>2. QED
      BY <1>5, <2>3, <2>6, <3>1
  <2>8. Y.notify # NoNotify => ends[Y.notify.owner] = n
    <3>1. queues[n].notify # NoNotify => ends[queues[n].notify.owner] = n
      BY <1>1, <1>2 DEF TableBooks
    <3> HIDE DEF Y, n
    <3>2. QED
      BY <2>4, <2>6, <3>1, SMTT(30)
  <2>9. \A i, j \in DOMAIN Y.msgs : i < j => Y.msgs[i].prio >= Y.msgs[j].prio
    BY <2>3, <2>6, Zenon
  <2> HIDE DEF Y
  <2>10. MqTables' /\ \A q \in Ids \ {n} : queues'[q] = queues[q]
    BY <1>1, <1>2, <1>5, <2>5, <2>6, <2>7, <2>8, <2>9, ChangedTables, ZenonT(40)
  <2>11. G \subseteq Procs
    <3>1. fired => queues[n].notify.pid \in Procs
      BY <2>2, QueueAtoms, SMTT(30) DEF fires, Registration
    <3>2. QED
      BY <3>1, SMTT(30) DEF Notified
  <2>12. ASSUME ~BadBuffers, NEW o \in Procs, state[o] = "asleep", call[o].q = c.q
         PROVE  o \in R \cup G
    <3>1. call[o] # NoCall /\ call[o].op \in {"send", "receive"}
      BY <1>1, <2>12, CallParts, SMTT(30) DEF SleepShape
    <3>2. call[o].op # "send"
      <4>1. NoLostWakeup
        BY <2>12, Zenon DEF MqInv
      <4>2. QED
        BY <4>1, <1>5, <2>2, <2>12 DEF NoLostWakeup, MqConstants
    <3>3. QED
      BY <2>12, <3>1, <3>2, SMTT(30) DEF Blocking, Asleep
  <2> DEFINE S == R \cup G
  <2>13. state' = Woken(S) /\ G \subseteq S \cap Procs
    BY <1>5, <2>11, SMTT(30)
  <2>14. ~BadBuffers => \A o \in Procs : state[o] = "asleep" /\ call[o].q = c.q => o \in S
    BY <2>12
  <2> HIDE DEF S, G, R
  <2>15. QED
    BY <1>5, <2>10, <2>13, <2>14, PassedMq, Zenon
<1>6. QED
  BY <1>3, <1>4, <1>5 DEF Send, Live

\* A pass of a receive; a copyout that fails wakes nobody.
LEMMA ReceiveMq ==
    ASSUME MqConstants, MqInv, NEW p, NEW c \in ReceiveCalls, NEW nonblock,
           Caller(p, c), Receive(p, c, nonblock)
    PROVE  MqInv'
<1> DEFINE n == c.q
           u == Tail(queues[n].msgs)
           Y == [queues[n] EXCEPT !.msgs = u]
           S == IF BadBuffers /\ state' = state THEN {} ELSE Blocking("send", n)
<1>1. MqTables /\ TableShape /\ SleepShape /\ TableBooks /\ PrioritySorted
  BY Zenon DEF MqInv, MqTables
<1>2. /\ p \in Procs /\ state[p] = "run" /\ n \in Ids /\ queues[n] \in Queue
  BY <1>1 DEF Caller, TableShape
<1>3. CASE Removed(p)
  BY <1>2, <1>3, RemovedMq, Zenon
<1>4. CASE queues[n].msgs = <<>> /\ CannotNow(p, c, nonblock)
  <2>1. c.op = "receive" /\ c.op # "send"
    BY DEF ReceiveCalls
  <2>2. QED
    BY <1>4, <2>1, CannotNowMq, Zenon
<1>5. CASE /\ queues[n].exists /\ queues[n].msgs # <<>>
           /\ queues' = [queues EXCEPT ![n].msgs = u]
           /\ state' = Woken(Blocking("send", n)) \/ (BadBuffers /\ state' = state)
           /\ Returns(p)
           /\ UNCHANGED <<name, ends, fd>>
  <2>1. /\ queues[n].msgs \in Seq(Message)
        /\ \A i, j \in DOMAIN queues[n].msgs : i < j => queues[n].msgs[i].prio >= queues[n].msgs[j].prio
        /\ Len(queues[n].msgs) <= mq_maxmsg
    BY <1>1, <1>2 DEF PrioritySorted, Queue, TableShape
  <2>2. u \in Seq(Message) /\ Len(u) = Len(queues[n].msgs) - 1
    BY <1>5, <2>1
  <2>3. \A i, j \in DOMAIN u : i < j => u[i].prio >= u[j].prio
    <3>1. \A i \in DOMAIN u : i \in Int /\ i + 1 \in DOMAIN queues[n].msgs /\ u[i] = queues[n].msgs[i + 1]
      BY <1>5, <2>1, <2>2
    <3> HIDE DEF u
    <3>2. SUFFICES ASSUME NEW i \in DOMAIN u, NEW j \in DOMAIN u, i < j
                   PROVE  u[i].prio >= u[j].prio
      OBVIOUS
    <3>3. i + 1 < j + 1
      BY <3>1, <3>2
    <3>4. queues[n].msgs[i + 1].prio >= queues[n].msgs[j + 1].prio
      BY <2>1, <3>1, <3>3, Zenon
    <3>5. QED
      BY <3>1, <3>4, Zenon
  <2>4. queues' = [queues EXCEPT ![n] = Y]
    BY <1>5
  <2> HIDE DEF u
  <2>5. /\ Y \in Queue /\ (Y.exists <=> queues[n].exists) /\ (Y.unlinked <=> queues[n].unlinked)
        /\ Y.open_count = queues[n].open_count /\ Y.msgs = u /\ Y.notify = queues[n].notify
    BY <1>2, <2>2 DEF Queue
  <2>6. Len(Y.msgs) <= mq_maxmsg
    BY <2>1, <2>2, <2>5 DEF MqConstants
  <2>7. Y.notify # NoNotify => ends[Y.notify.owner] = n
    BY <1>1, <1>2, <2>5, Zenon DEF TableBooks
  <2>8. \A i, j \in DOMAIN Y.msgs : i < j => Y.msgs[i].prio >= Y.msgs[j].prio
    BY <2>3, <2>5, Zenon
  <2> HIDE DEF Y
  <2>9. MqTables' /\ \A q \in Ids \ {n} : queues'[q] = queues[q]
    BY <1>1, <1>2, <1>5, <2>4, <2>5, <2>6, <2>7, <2>8, ChangedTables, ZenonT(40)
  <2>10. ASSUME ~BadBuffers, state' = Woken(Blocking("send", n)), NEW o \in Procs, state[o] = "asleep", call[o].q = c.q
         PROVE  o \in Blocking("send", n)
    <3>1. call[o] # NoCall /\ call[o].op \in {"send", "receive"}
      BY <1>1, <2>10, CallParts DEF SleepShape
    <3>2. call[o].op # "receive"
      <4>1. NoLostWakeup
        BY <2>10, Zenon DEF MqInv
      <4>2. QED
        BY <4>1, <1>5, <2>10 DEF NoLostWakeup
    <3>3. QED
      BY <2>10, <3>1, <3>2, SMTT(30) DEF Blocking, Asleep
  <2> DEFINE G == {}
  <2>11. /\ call' = [call EXCEPT ![p] = NoCall] /\ caught' = (caught \cup G) \ {p}
         /\ G \subseteq S \cap Procs
    BY <1>5 DEF Returns
  <2>12. state' = Woken(S)
    <3>1. Woken({}) = state
      BY <1>1 DEF Woken, SleepShape
    <3>2. QED
      BY <1>5, <3>1
  <2>13. ~BadBuffers => \A o \in Procs : state[o] = "asleep" /\ call[o].q = c.q => o \in S
    BY <1>5, <2>10
  <2> HIDE DEF S, G
  <2>14. QED
    BY <1>5, <2>9, <2>11, <2>12, <2>13, PassedMq, ZenonT(40)
<1>6. QED
  BY <1>3, <1>4, <1>5, SMTT(30) DEF Receive, Live

\* A pass is made for a call by the process whose descriptor it came through.
LEMMA CallsMq ==
    ASSUME MqConstants, MqInv, NEW p \in Procs, NEW nonblock,
           \/ \E prio \in Prios : do_mq_timedsend(p, prio, nonblock)
           \/ do_mq_timedreceive(p, nonblock)
           \/ Resume(p, nonblock)
    PROVE  MqInv'
<1>1. TableShape /\ SleepShape /\ TableBooks /\ CallsHeld
  BY Zenon DEF MqInv
<1>2. fd[p] # 0 => ends[fd[p]] \in Ids
  BY <1>1, IdFacts DEF TableShape, TableBooks
<1>3. ASSUME NEW prio \in Prios, do_mq_timedsend(p, prio, nonblock) PROVE MqInv'
  <2> DEFINE c == [op |-> "send", q |-> ends[fd[p]], prio |-> prio, time |-> "later"]
  <2>1. Send(p, c, nonblock) /\ state[p] = "run" /\ fd[p] # 0
    BY <1>3, SMTT(30) DEF do_mq_timedsend, Idle
  <2>2. c \in SendCalls /\ Caller(p, c)
    BY <1>2, <2>1 DEF SendCalls, Caller
  <2> HIDE DEF c
  <2>3. QED
    BY <2>1, <2>2, SendMq, ZenonT(40)
<1>4. ASSUME do_mq_timedreceive(p, nonblock) PROVE MqInv'
  <2> DEFINE c == [op |-> "receive", q |-> ends[fd[p]], time |-> "later"]
  <2>1. Receive(p, c, nonblock) /\ state[p] = "run" /\ fd[p] # 0
    BY <1>4, SMTT(30) DEF do_mq_timedreceive, Idle
  <2>2. c \in ReceiveCalls /\ Caller(p, c)
    BY <1>2, <2>1 DEF ReceiveCalls, Caller
  <2> HIDE DEF c
  <2>3. QED
    BY <2>1, <2>2, ReceiveMq, Zenon
<1>5. ASSUME Resume(p, nonblock) PROVE MqInv'
  <2>1. state[p] = "run" /\ call[p].op \in {"send", "receive"}
    BY <1>5, SMTT(30) DEF Resume
  <2>2. call[p] # NoCall
    BY <2>1, CallAtoms, SMTT(30)
  <2>3. Caller(p, call[p])
    BY <1>1, <1>2, <2>1, <2>2 DEF CallsHeld, Caller
  <2>4. call[p].op = "send" => call[p] \in SendCalls
    BY <1>1, CallParts, Zenon
  <2>5. call[p].op = "receive" => call[p] \in ReceiveCalls
    BY <1>1, CallParts, Zenon
  <2>6. \/ call[p].op = "send" /\ Send(p, call[p], nonblock)
        \/ call[p].op = "receive" /\ Receive(p, call[p], nonblock)
    BY <1>5, Zenon DEF Resume
  <2>7. QED
    BY <2>3, <2>4, <2>5, <2>6, SendMq, ReceiveMq, ZenonT(40)
<1>6. QED
  BY <1>3, <1>4, <1>5, Zenon

\* Every step of a message queue keeps the invariant.
LEMMA MqStep ==
    ASSUME MqConstants, MqInv, [Next]_vars
    PROVE  MqInv'
<1>1. CASE UNCHANGED vars
  <2>1. MqTables
    BY Zenon DEF MqInv, MqTables
  <2>2. UNCHANGED sleepers /\ UNCHANGED <<name, queues, ends, fd>>
    BY <1>1, SMTT(30) DEF vars
  <2>3. MqTables'
    BY <2>1, <2>2 DEF MqTables, TableShape, TableBooks, Holders, PrioritySorted
  <2>4. QED
    BY <2>2, <2>3, TablesOnly
<1>2. ASSUME Next PROVE MqInv'
  <2>1. PICK p \in Procs :
          \/ \E e \in Ends : do_mq_open(p, e)
          \/ Close(p) \/ terminate_process(p) \/ do_mq_unlink(p)
          \/ \E c \in Procs : fork(p, c)
          \/ \E nonblock \in BOOLEAN :
               \/ \E prio \in Prios : do_mq_timedsend(p, prio, nonblock)
               \/ do_mq_timedreceive(p, nonblock)
          \/ \E nonblock \in BOOLEAN : Resume(p, nonblock)
          \/ \E kind \in {"free", "signal", "none"} : do_mq_notify(p, kind)
          \/ (kill(p, {"send", "receive"}) \/ Tick(p)) /\ UNCHANGED <<name, queues, ends, fd>>
    BY <1>2 DEF Next
  <2>2. ASSUME NEW e \in Ends, do_mq_open(p, e) PROVE MqInv'
    BY <2>2, OpenMq, Zenon
  <2>3. ASSUME Close(p) PROVE MqInv'
    BY <2>3, CloseMq, Zenon
  <2>4. ASSUME terminate_process(p) PROVE MqInv'
    BY <2>4, ExitMq, Zenon
  <2>5. ASSUME do_mq_unlink(p) PROVE MqInv'
    BY <2>5, UnlinkMq, Zenon
  <2>6. ASSUME NEW c \in Procs, fork(p, c) PROVE MqInv'
    BY <2>6, ForkMq, Zenon
  <2>7. ASSUME NEW nonblock, 
               \/ \E prio \in Prios : do_mq_timedsend(p, prio, nonblock)
               \/ do_mq_timedreceive(p, nonblock)
               \/ Resume(p, nonblock)
        PROVE  MqInv'
    BY <2>7, CallsMq, Zenon
  <2>8. ASSUME NEW kind \in {"free", "signal", "none"}, do_mq_notify(p, kind) PROVE MqInv'
    BY <2>8, NotifyMq, Zenon
  <2>9. ASSUME UNCHANGED <<name, queues, ends, fd>>,
               kill(p, {"send", "receive"}) \/ Tick(p)
        PROVE  MqInv'
    BY <2>9, KillMq, Zenon
  <2>10. QED
    BY <2>1, <2>2, <2>3, <2>4, <2>5, <2>6, <2>7, <2>8, <2>9, ZenonT(40)
<1>3. QED
  BY <1>1, <1>2

\* No queue, no description and nobody asleep: the invariant holds at first.
LEMMA MqStart ==
    ASSUME MqConstants, Init
    PROVE  MqInv
<1>1. TableShape
  <2>1. \A q \in Ids : queues[q] = Unused /\ Len(queues[q].msgs) = 0
    BY QueueAtoms DEF Init
  <2>2. queues \in [Ids -> Queue]
    BY QueueAtoms DEF Init
  <2>3. QED
    BY <2>1, <2>2, SMTT(30) DEF Init, TableShape, MqConstants
<1>2. SleepShape /\ CallsHeld /\ Uninterrupted /\ NoLostWakeup
  BY DEF Init, SleepersInit, SleepShape, CallsHeld, Uninterrupted, NoLostWakeup
<1>3. PrioritySorted
  BY QueueAtoms, SMTT(30) DEF Init, PrioritySorted
<1>4. TableBooks
  <2>1. \A q \in Ids : Holders(ends, q) = {} /\ q # 0
    BY IdFacts DEF Init, Holders
  <2>2. Cardinality({}) = 0
    BY FS_EmptySet
  <2>3. QED
    BY <2>1, <2>2, QueueAtoms, Zenon DEF Init, TableBooks, Holders
<1>5. QED
  BY <1>1, <1>2, <1>3, <1>4, Zenon DEF MqInv

\* The invariant of sys/fs/mqueue.rs, for any number of processes, descriptions,
\* queues, priorities and any capacity.
THEOREM MqInvAlways == ASSUME MqConstants PROVE Spec => []MqInv
<1>1. Init => MqInv
  BY MqStart
<1>2. MqInv /\ [Next]_vars => MqInv'
  BY MqStep
<1>3. QED
  BY <1>1, <1>2, PTL DEF Spec

\* While copyout does not fail, a receive sleeps only on an empty queue and a
\* send only on a full one: do_mq_timedsend and do_mq_timedreceive wake everyone
\* whom their message lets go on.
THEOREM NoLostWakeupAlways == ASSUME MqConstants, ~BadBuffers PROVE Spec => []NoLostWakeup
<1>1. MqInv => NoLostWakeup
  BY DEF MqInv
<1>2. QED
  BY <1>1, MqInvAlways, PTL

\* insert_by_priority keeps every queue in the order of priorities, so the front
\* that do_mq_timedreceive takes has the highest.
THEOREM PrioritySortedAlways == ASSUME MqConstants PROVE Spec => []PrioritySorted
<1>1. MqInv => PrioritySorted
  BY DEF MqInv
<1>2. QED
  BY <1>1, MqInvAlways, PTL

\* Nobody sleeps in a queue that is gone: the sleeper's own description keeps it
\* through any mq_unlink, close and exit of the others.
THEOREM SleepersQueueLivesAlways == ASSUME MqConstants PROVE Spec => []SleepersQueueLives
<1>1. MqInv => SleepersQueueLives
  <2> SUFFICES ASSUME MqInv, NEW p \in Procs, state[p] = "asleep"
               PROVE  call[p].q \in Live
    BY DEF SleepersQueueLives
  <2>1. TableShape /\ SleepShape /\ TableBooks /\ CallsHeld
    BY Zenon DEF MqInv
  <2>2. call[p] # NoCall /\ call[p].q \in Ids
    BY <2>1, CallParts DEF SleepShape
  <2>3. fd[p] \in Ends /\ ends[fd[p]] = call[p].q
    BY <2>1, <2>2 DEF CallsHeld, TableShape
  <2>4. QED
    BY <2>1, <2>2, <2>3, SMTT(30) DEF TableBooks, Live
<1>2. QED
  BY <1>1, MqInvAlways, PTL

\* open_count is the number of open descriptions, a queue exists exactly while it
\* has a name or a description, and a registration belongs to an open description
\* (do_mq_open, mq_close, do_mq_unlink, do_mq_notify).
THEOREM QueueLifetimeAlways == ASSUME MqConstants PROVE Spec => []QueueLifetime
<1>1. MqInv => QueueLifetime
  <2> SUFFICES ASSUME MqInv, NEW q \in Ids
               PROVE  /\ queues[q].open_count = Cardinality({e \in Ends : ends[e] = q})
                      /\ q \in Live <=> (name = q \/ queues[q].open_count > 0)
                      /\ (q \in Live /\ name # q) => queues[q].unlinked
                      /\ queues[q].notify.kind # "free" => ends[queues[q].notify.owner] = q
    BY Zenon DEF QueueLifetime
  <2>1. TableShape /\ TableBooks
    BY Zenon DEF MqInv
  <2>2. queues[q].open_count = Cardinality(Holders(ends, q))
    BY <2>1 DEF TableBooks
  <2>3. IsFiniteSet(Holders(ends, q))
    BY FS_Subset, Zenon DEF MqConstants, Holders
  <2>4. queues[q].open_count > 0 <=> \E e \in Ends : ends[e] = q
    <3>1. Cardinality(Holders(ends, q)) \in Nat /\ (Cardinality(Holders(ends, q)) = 0 <=> Holders(ends, q) = {})
      BY <2>3, FS_CardinalityType, FS_EmptySet
    <3>2. QED
      BY <2>2, <3>1 DEF Holders
  <2>5. q \in Live <=> queues[q].exists
    BY DEF Live
  <2>6. queues[q].exists <=> name = q \/ \E e \in Ends : ends[e] = q
    BY <2>1, SMTT(30) DEF TableBooks
  <2>7. queues[q].exists => (queues[q].unlinked <=> name # q)
    BY <2>1, SMTT(30) DEF TableBooks
  <2>8. queues[q].notify.kind # "free" => ends[queues[q].notify.owner] = q
    BY <2>1, QueueAtoms, SMTT(30) DEF TableBooks
  <2>9. QED
    BY <2>2, <2>4, <2>5, <2>6, <2>7, <2>8, Zenon DEF Holders
<1>2. QED
  BY <1>1, MqInvAlways, PTL

\* Type correctness of the queues, descriptions and processes.
THEOREM MqTypeAlways == ASSUME MqConstants PROVE Spec => []TypeOK
<1>1. MqInv => TypeOK
  <2> SUFFICES ASSUME MqInv PROVE TypeOK
    OBVIOUS
  <2>1. TableShape /\ SleepShape /\ TableBooks
    BY Zenon DEF MqInv
  <2>2. ASSUME NEW q \in Ids
        PROVE  /\ Len(queues[q].msgs) <= mq_maxmsg
               /\ \A i \in DOMAIN queues[q].msgs : queues[q].msgs[i].prio \in Prios
               /\ queues[q].open_count \in 0..Cardinality(Ends)
    <3>1. queues[q].msgs \in Seq(Message) /\ Len(queues[q].msgs) <= mq_maxmsg
      BY <2>1 DEF TableShape, Queue
    <3>2. \A i \in DOMAIN queues[q].msgs : queues[q].msgs[i] \in Message
      BY <3>1
    <3>3. Holders(ends, q) \subseteq Ends
      BY DEF Holders
    <3>4. /\ Cardinality(Holders(ends, q)) \in Nat /\ Cardinality(Ends) \in Nat
          /\ Cardinality(Holders(ends, q)) <= Cardinality(Ends)
      BY <3>3, FS_Subset, FS_CardinalityType, SMTT(30) DEF MqConstants
    <3>5. queues[q].open_count = Cardinality(Holders(ends, q))
      BY <2>1 DEF TableBooks
    <3>6. \A i \in DOMAIN queues[q].msgs : queues[q].msgs[i].prio \in Prios
      BY <3>2 DEF Message
    <3>7. QED
      BY <3>1, <3>4, <3>5, <3>6
  <2>3. QED
    BY <2>1, <2>2 DEF TypeOK, TableShape, SleepShape
<1>2. QED
  BY <1>1, MqInvAlways, PTL
=============================================================================
