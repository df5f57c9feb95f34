------------------------------ MODULE Sleepers ------------------------------
(***************************************************************************)
(* Processes and the system calls they sleep in, as the kernel's message   *)
(* queues, semaphores and futexes see them.  A step is what a call does    *)
(* between two calls of schedule().  A sleeping process keeps on its stack *)
(* what its call still needs; the BlockReason that its wakers look at is   *)
(* part of that record.  A call that fails at once and changes nothing is  *)
(* a stuttering step.                                                      *)
(***************************************************************************)
EXTENDS Integers, FiniteSets

CONSTANT Procs

VARIABLES
    state,      \* "run" (Ready or Running), "asleep" (Blocked), "dead"
    call,       \* the call each process is inside, NoCall in user mode
    caught      \* the processes with a caught signal pending

sleepers == <<state, call, caught>>

NoCall == [op |-> "none"]

Idle(p) == state[p] = "run" /\ call[p] = NoCall
Asleep(op) == {p \in Procs : state[p] = "asleep" /\ call[p].op = op}

Woken(S) == [p \in Procs |-> IF p \in S /\ state[p] = "asleep" THEN "run" ELSE state[p]]

\* The call of p returns to user mode, where a caught signal's handler runs.
Returns(p) ==
    /\ call' = [call EXCEPT ![p] = NoCall]
    /\ caught' = caught \ {p}

SleepsIn(p, c) ==
    /\ state' = [state EXCEPT ![p] = "asleep"]
    /\ call' = [call EXCEPT ![p] = c]
    /\ UNCHANGED caught

\* kill or the like makes a caught signal pending for p, and its wake_if_
\* functions wake p from the calls in ops; outside the kernel the handler runs
\* at once.
kill(p, ops) ==
    /\ state[p] # "dead" /\ call[p].op \in ops /\ p \notin caught
    /\ caught' = caught \cup {p}
    /\ state' = Woken({p})
    /\ UNCHANGED call

\* The timer interrupt passes the deadline of p's call, and wakes p if it
\* still sleeps.  The deadline of a call without a timeout never comes.
Tick(p) ==
    /\ state[p] # "dead" /\ call[p] # NoCall /\ call[p].time = "later"
    /\ call' = [call EXCEPT ![p].time = "past"]
    /\ state' = Woken({p})
    /\ UNCHANGED caught

SleepersInit ==
    /\ state = [p \in Procs |-> "run"]
    /\ call = [p \in Procs |-> NoCall]
    /\ caught = {}
=============================================================================
