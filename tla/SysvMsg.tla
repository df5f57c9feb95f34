------------------------------- MODULE SysvMsg ------------------------------
(***************************************************************************)
(* System V message queues (sys/fs/sysv_msg.rs): queues found by a key,    *)
(* bounded by the bytes they hold, from which a receiver takes a message   *)
(* by its type.  Sends and receives sleep until they can proceed or the    *)
(* queue is removed; neither has a deadline, and signals do not wake them. *)
(* One key is modelled; owners and permissions are left out.               *)
(***************************************************************************)
EXTENDS Sleepers, Sequences, SequencesExt

CONSTANTS
    MaxId,              \* bound: queues ever made
    Types, Lens,        \* message types, from 1 on, and lengths
    Selectors,          \* msgtyp and MSG_EXCEPT of the receives
    DEFAULT_QBYTES,
    NewQbytes           \* what IPC_SET may set qbytes to

Ids == 1..MaxId
Absent == [exists |-> FALSE, qbytes |-> 0, messages |-> <<>>]

VARIABLES
    key,        \* KEYS: the queue of the key, 0 for none
    queues,     \* QUEUES
    made        \* NEXT_MSQID - 1

vars == <<key, queues, made, sleepers>>

Live == {i \in Ids : queues[i].exists}
cbytes(messages) == FoldLeft(LAMBDA n, m : n + m.len, 0, messages)

wake_blocked(op, id) == {p \in Asleep(op) : call[p].id = id}

-----------------------------------------------------------------------------
Position(S) == IF S = {} THEN 0 ELSE CHOOSE i \in S : \A j \in S : i <= j

\* The message a receive takes: the oldest one, the oldest of a type or not of
\* it, or the oldest of the lowest type up to a limit; 0 if there is none.
find_matching_index(messages, sel) ==
    LET types == {messages[i].mtype : i \in DOMAIN messages}
    IN Position({i \in DOMAIN messages :
        \/ sel.typ = 0
        \/ sel.typ > 0 /\ (messages[i].mtype = sel.typ) # sel.except
        \/ /\ sel.typ < 0 /\ messages[i].mtype <= - sel.typ
           /\ \A t \in types : messages[i].mtype <= t})

\* One pass of do_msgsnd's loop; a queue that is gone (EIDRM) or too small for
\* the message (EINVAL) ends the call.
Fits(q, len) == cbytes(q.messages) + len <= q.qbytes

Msgsnd(p, c, nowait) ==
    LET q == queues[c.id] IN
    /\ \/ /\ c.id \notin Live \/ c.msg.len > q.qbytes
          /\ Returns(p)
          /\ UNCHANGED <<queues, state>>
       \/ /\ c.id \in Live /\ c.msg.len <= q.qbytes /\ Fits(q, c.msg.len)
          /\ queues' = [queues EXCEPT ![c.id].messages = Append(@, c.msg)]
          /\ state' = Woken(wake_blocked("msgrcv", c.id))
          /\ Returns(p)
       \/ /\ c.id \in Live /\ c.msg.len <= q.qbytes /\ ~Fits(q, c.msg.len)
          /\ IF nowait THEN Returns(p) /\ UNCHANGED state ELSE SleepsIn(p, c)
          /\ UNCHANGED queues
    /\ UNCHANGED <<key, made>>

\* One pass of do_msgrcv's loop.  A message longer than the buffer (E2BIG)
\* stays; one that copyout cannot deliver is lost, and senders are woken.
woken_senders(id) == wake_blocked("msgsnd", id)

Msgrcv(p, c, nowait) ==
    LET msgs == queues[c.id].messages
        i == find_matching_index(msgs, c.sel)
    IN
    /\ \/ /\ \/ c.id \notin Live
             \/ i # 0 /\ msgs[i].len > c.room
          /\ Returns(p)
          /\ UNCHANGED <<queues, state>>
       \/ /\ c.id \in Live /\ i # 0 /\ msgs[i].len <= c.room
          /\ queues' = [queues EXCEPT ![c.id].messages = RemoveAt(@, i)]
          /\ state' = Woken(woken_senders(c.id))
          /\ Returns(p)
       \/ /\ c.id \in Live /\ i = 0
          /\ IF nowait THEN Returns(p) /\ UNCHANGED state ELSE SleepsIn(p, c)
          /\ UNCHANGED queues
    /\ UNCHANGED <<key, made>>

do_msgsnd(p, id, mtype, len, nowait) ==
    /\ Idle(p) /\ id <= made
    /\ Msgsnd(p, [op |-> "msgsnd", id |-> id,
                  msg |-> [mtype |-> mtype, len |-> len, from |-> p]], nowait)

\* MSG_NOERROR is a receive with room for every message.
do_msgrcv(p, id, sel, room, nowait) ==
    /\ Idle(p) /\ id <= made
    /\ Msgrcv(p, [op |-> "msgrcv", id |-> id, sel |-> sel, room |-> room], nowait)

Resume(p) ==
    /\ state[p] = "run"
    /\ \/ call[p].op = "msgsnd" /\ Msgsnd(p, call[p], FALSE)
       \/ call[p].op = "msgrcv" /\ Msgrcv(p, call[p], FALSE)

-----------------------------------------------------------------------------
do_msgget(p) ==
    /\ Idle(p) /\ made < MaxId /\ key = 0
    /\ made' = made + 1
    /\ key' = made + 1
    /\ queues' = [queues EXCEPT ![made + 1] =
                    [exists |-> TRUE, qbytes |-> DEFAULT_QBYTES, messages |-> <<>>]]
    /\ UNCHANGED sleepers

msgctl_SET(p, id, qbytes) ==
    /\ Idle(p) /\ id \in Live
    /\ queues' = [queues EXCEPT ![id].qbytes = qbytes]
    /\ UNCHANGED <<key, made, sleepers>>

removes == {"msgsnd", "msgrcv"}

msgctl_RMID(p, id) ==
    /\ Idle(p) /\ id \in Live
    /\ queues' = [queues EXCEPT ![id] = Absent]
    /\ key' = 0
    /\ state' = Woken(UNION {wake_blocked(op, id) : op \in removes})
    /\ UNCHANGED <<made, call, caught>>

\* A process killed in a call; any other exit changes nothing here.
terminate_process(p) ==
    /\ state[p] # "dead" /\ call[p] # NoCall
    /\ state' = [state EXCEPT ![p] = "dead"]
    /\ Returns(p)
    /\ UNCHANGED <<key, queues, made>>

Init ==
    /\ key = 0 /\ made = 0
    /\ queues = [i \in Ids |-> Absent]
    /\ SleepersInit

Next == \E p \in Procs :
    \/ do_msgget(p)
    \/ \E id \in Ids, nowait \in BOOLEAN :
         \/ \E t \in Types, len \in Lens : do_msgsnd(p, id, t, len, nowait)
         \/ \E sel \in Selectors, room \in Lens : do_msgrcv(p, id, sel, room, nowait)
    \/ \E id \in Ids : msgctl_RMID(p, id) \/ \E n \in NewQbytes : msgctl_SET(p, id, n)
    \/ Resume(p) \/ terminate_process(p)

Spec == Init /\ [][Next]_vars

-----------------------------------------------------------------------------
\* Type correctness, and the key names the one live queue (the expect in
\* do_msgget).
TypeOK ==
    /\ key \in 0..MaxId /\ Live = (IF key = 0 THEN {} ELSE {key})
    /\ \A i \in Ids : cbytes(queues[i].messages) <= DEFAULT_QBYTES
    /\ state \in [Procs -> {"run", "asleep", "dead"}]

\* The messages a selector admits.
Qualifies(m, sel) ==
    \/ sel.typ = 0
    \/ sel.typ > 0 /\ (m.mtype = sel.typ) # sel.except
    \/ sel.typ < 0 /\ m.mtype <= - sel.typ

\* No lost wakeup: a send sleeps only while its message does not fit, a receive
\* only while no message qualifies, and neither once the queue is gone.
NoLostWakeup == \A p \in Procs : state[p] = "asleep" =>
    LET q == queues[call[p].id] IN
    /\ q.exists
    /\ call[p].op = "msgsnd" => ~Fits(q, call[p].msg.len) /\ q.messages # <<>>
    /\ call[p].op = "msgrcv" => \A i \in DOMAIN q.messages : ~Qualifies(q.messages[i], call[p].sel)

\* Selection, told by what becomes of the queue: messages are added at the end,
\* and the one a step takes is the oldest of its type, whichever receiver takes
\* it; the receiver's msgtyp admits it and, of those it admits, there is none of
\* a lower type where msgtyp is a limit, and none older where it is not.
Receives(p, id, sel) ==
    \/ \E room \in Lens, nowait \in BOOLEAN : do_msgrcv(p, id, sel, room, nowait)
    \/ call[p].op = "msgrcv" /\ call[p].id = id /\ call[p].sel = sel /\ Resume(p)

SelectionExact == \A id \in Live : queues'[id].exists =>
    LET old == queues[id].messages
        new == queues'[id].messages
    IN  \/ new = old
        \/ Len(new) = Len(old) + 1 /\ old = Front(new)
        \/ \E k \in DOMAIN old :
             /\ new = RemoveAt(old, k)
             /\ \A i \in 1..(k - 1) : old[i].mtype # old[k].mtype
             /\ \A p \in Procs, sel \in Selectors : Receives(p, id, sel) =>
                  /\ Qualifies(old[k], sel)
                  /\ IF sel.typ < 0 THEN \A i \in DOMAIN old : old[k].mtype <= old[i].mtype
                     ELSE \A i \in 1..(k - 1) : ~Qualifies(old[i], sel)
=============================================================================
