------------------------------- MODULE SysvSem ------------------------------
(***************************************************************************)
(* System V semaphores (sys/fs/sysv_sem.rs): sets found by a key, arrays   *)
(* of operations applied all at once or not at all, callers that sleep     *)
(* until the first operation that cannot proceed might, and the            *)
(* adjustments that SEM_UNDO gives back when a process ends.  Every set    *)
(* has the same semaphores; owners and permissions are left out.           *)
(***************************************************************************)
EXTENDS Sleepers, Sequences, SequencesExt

CONSTANTS
    Keys, Sems,
    MaxId,      \* bound: sets ever made
    MaxVal,     \* bound: values and adjustments, which semop does not limit
    SEMVMX,
    OpArrays,   \* the arrays of sembufs [num, op, undo, nowait] calls are made with
    Undoable    \* semaphores that programs use soundly: see Sound

Ids == 1..MaxId
Absent == [key |-> "absent", val |-> [s \in Sems |-> 0]]
IPC_PRIVATE == "private"

VARIABLES
    keys,       \* KEYS: the set of each key, 0 for none
    sets,       \* SETS: the sets' keys and values
    made,       \* NEXT_SEMID - 1
    undo        \* Process.sysv_sem_undo, for each process, set and semaphore

vars == <<keys, sets, made, undo, sleepers>>

Live == {i \in Ids : sets[i] # Absent}
NoUndo == [i \in Ids |-> [s \in Sems |-> 0]]

-----------------------------------------------------------------------------
\* Wakes the sleepers whose first blocking operation is on a touched semaphore.
wake_blocked_semop_MUT(id, touched) ==
    {p \in Asleep("semop") : call[p].id = id /\ call[p].num \in touched /\ ~call[p].zero}
wake_blocked_semop(id, touched) ==
    {p \in Asleep("semop") : call[p].id = id /\ call[p].num \in touched}

wake_blocked_semop_all(id) == {p \in Asleep("semop") : call[p].id = id}

\* One operation on the scratch values: the values after it, and whether it
\* has to wait.
Blocks(op, val) == IF op.op = 0 THEN val[op.num] # 0 ELSE val[op.num] + op.op < 0

Scratch(val, ops, n) ==
    FoldLeft(LAMBDA v, op : [v EXCEPT ![op.num] = @ + op.op], val, SubSeq(ops, 1, n))

\* The operations that would block, each after the ones before it.
Blocking(val, ops) == {i \in DOMAIN ops : Blocks(ops[i], Scratch(val, ops, i - 1))}
CanProceed(val, ops) == Blocking(val, ops) = {}
FirstBlocking(val, ops) ==
    ops[CHOOSE i \in Blocking(val, ops) : \A j \in Blocking(val, ops) : i <= j]

Touched(ops) == {ops[i].num : i \in {j \in DOMAIN ops : ops[j].op # 0}}

\* record_undo for every SEM_UNDO operation of the array.
Undone(adj, ops) ==
    FoldLeft(LAMBDA a, op : IF op.undo THEN [a EXCEPT ![op.num] = @ - op.op] ELSE a, adj, ops)

\* One pass of do_semop_impl's loop.
commit(val, ops) == Scratch(val, ops, Len(ops))

Semop(p, c) ==
    LET val == sets[c.id].val
        op == FirstBlocking(val, c.ops)
    IN  \/ /\ c.id \notin Live                                  \* EIDRM
           /\ Returns(p)
           /\ UNCHANGED <<keys, sets, made, undo, state>>
        \/ /\ c.id \in Live /\ ~CanProceed(val, c.ops)
           /\ \/ /\ op.nowait \/ c.time = "past"                \* EAGAIN, ETIMEDOUT
                 /\ Returns(p)
                 /\ UNCHANGED state
              \/ /\ ~op.nowait /\ c.time # "past"
                 /\ SleepsIn(p, [c EXCEPT !.num = op.num, !.zero = (op.op = 0)])
           /\ UNCHANGED <<keys, sets, made, undo>>
        \/ /\ c.id \in Live /\ CanProceed(val, c.ops)
           /\ \A s \in Sems : /\ commit(val, c.ops)[s] <= MaxVal
                              /\ Undone(undo[p][c.id], c.ops)[s] <= MaxVal
           /\ sets' = [sets EXCEPT ![c.id].val = commit(val, c.ops)]
           /\ undo' = [undo EXCEPT ![p][c.id] = Undone(@, c.ops)]
           /\ state' = Woken(wake_blocked_semop(c.id, Touched(c.ops)))
           /\ Returns(p)
           /\ UNCHANGED <<keys, made>>

\* Sound use of a semaphore as a lock: every operation on it has SEM_UNDO, a
\* process lowers it only by what it has raised it, and semctl leaves it alone.
Sound(p, id, ops) == \A s \in Undoable :
    /\ \A i \in DOMAIN ops : ops[i].num = s /\ ops[i].op # 0 => ops[i].undo
    /\ Undone(undo[p][id], ops)[s] <= 0

do_semop(p, id, ops) ==
    /\ Idle(p) /\ id <= made /\ Sound(p, id, ops)
    /\ Semop(p, [op |-> "semop", id |-> id, ops |-> ops, num |-> ops[1].num,
                 zero |-> FALSE, time |-> "later"])

Resume(p) == state[p] = "run" /\ call[p].op = "semop" /\ Semop(p, call[p])

-----------------------------------------------------------------------------
\* do_semget of a key that has no set, or of IPC_PRIVATE.
do_semget(p, key) ==
    /\ Idle(p) /\ made < MaxId
    /\ key \in Keys => keys[key] = 0
    /\ made' = made + 1
    /\ sets' = [sets EXCEPT ![made + 1] = [Absent EXCEPT !.key = key]]
    /\ keys' = IF key \in Keys THEN [keys EXCEPT ![key] = made + 1] ELSE keys
    /\ UNCHANGED <<undo, sleepers>>

without(key) == [k \in Keys |-> IF k = key THEN 0 ELSE keys[k]]

semctl_RMID(p, id) ==
    /\ Idle(p) /\ id \in Live
    /\ sets' = [sets EXCEPT ![id] = Absent]
    /\ keys' = without(sets[id].key)
    /\ state' = Woken(wake_blocked_semop_all(id))
    /\ UNCHANGED <<made, undo, call, caught>>

\* SETVAL of one semaphore and SETALL: other processes' adjustments stay.
semctl_SET(p, id, S, v) ==
    /\ Idle(p) /\ id \in Live /\ v <= SEMVMX /\ S \cap Undoable = {}
    /\ sets' = [sets EXCEPT ![id].val = [s \in Sems |-> IF s \in S THEN v ELSE @[s]]]
    /\ state' = Woken(wake_blocked_semop(id, S))
    /\ UNCHANGED <<keys, made, undo, call, caught>>

clamp(v) == IF v < 0 THEN 0 ELSE IF v > SEMVMX THEN SEMVMX ELSE v

\* apply_undo_for_exit skips the sets that are gone.  An exit outside a call
\* with nothing to undo changes nothing here, and is left out, and so is the
\* wake-up for an adjustment that has come back to 0, after which the sleepers
\* sleep again.
adjusted_MUT(p, id) == {s \in Sems : undo[p][id][s] > 0}
adjusted(p, id) == {s \in Sems : undo[p][id][s] # 0}

terminate_process(p) ==
    /\ state[p] # "dead" /\ (call[p] # NoCall \/ undo[p] # NoUndo)
    /\ sets' = [id \in Ids |-> IF id \notin Live THEN Absent ELSE
                 [sets[id] EXCEPT !.val = [s \in Sems |->
                    IF s \in adjusted(p, id) THEN clamp(@[s] + undo[p][id][s]) ELSE @[s]]]]
    /\ undo' = [undo EXCEPT ![p] = NoUndo]
    /\ state' = [Woken(UNION {wake_blocked_semop(id, adjusted(p, id)) : id \in Live})
                   EXCEPT ![p] = "dead"]
    /\ Returns(p)
    /\ UNCHANGED <<keys, made>>

\* A caught signal does not end a semop: nothing wakes the sleeper for it, and
\* the loop does not look.
Init ==
    /\ keys = [k \in Keys |-> 0]
    /\ sets = [i \in Ids |-> Absent]
    /\ made = 0
    /\ undo = [p \in Procs |-> NoUndo]
    /\ SleepersInit

Next == \E p \in Procs :
    \/ \E key \in Keys \cup {IPC_PRIVATE} : do_semget(p, key)
    \/ \E id \in Ids :
         \/ \E ops \in OpArrays : do_semop(p, id, ops)
         \/ semctl_RMID(p, id)
         \/ \E S \in {{s} : s \in Sems} \cup {Sems}, v \in 0..MaxVal : semctl_SET(p, id, S, v)
    \/ Resume(p) \/ terminate_process(p)
    \/ Tick(p) /\ UNCHANGED <<keys, sets, made, undo>>

Spec == Init /\ [][Next]_vars

-----------------------------------------------------------------------------
\* Type correctness: no semaphore goes below zero.
TypeOK ==
    /\ keys \in [Keys -> 0..MaxId] /\ made \in 0..MaxId
    /\ \A i \in Ids : sets[i].val \in [Sems -> 0..MaxVal]
    /\ \A p \in Procs, i \in Ids, s \in Sems : undo[p][i][s] \in Int
    /\ state \in [Procs -> {"run", "asleep", "dead"}]

\* KEYS names live sets only (the expect in do_semget), each under its own key;
\* a set that has a key is found by it until it is removed.
KeysExact ==
    /\ \A k \in Keys : keys[k] # 0 => keys[k] \in Live /\ sets[keys[k]].key = k
    /\ \A i \in Live : sets[i].key \in Keys => keys[sets[i].key] = i

\* No lost wakeup: a semop sleeps only while its array cannot proceed, although
\* only changes of the semaphore it sleeps at wake it, and others may have
\* changed the semaphores of the operations before.
NoLostWakeup == \A p \in Procs : state[p] = "asleep" =>
    /\ call[p].time # "past"
    /\ call[p].id \in Live
    /\ ~CanProceed(sets[call[p].id].val, call[p].ops)

\* Operations with SEM_UNDO are whole and are undone: the value of a semaphore
\* used soundly is what its live users have added to it, so a lock is free once
\* the processes that hold it have ended, however they ended.
UndoBalances == \A i \in Live, s \in Undoable :
    sets[i].val[s] = - MapThenSumSet(LAMBDA p : undo[p][i][s], Procs)
=============================================================================
