-------------------------------- MODULE Futex -------------------------------
(***************************************************************************)
(* Futexes (do_futex, do_futex_requeue and wake_futex of                   *)
(* sys/process/limits.rs; the wake of terminate_process) under the clients *)
(* they are made for: a thread changes a word and then wakes those who     *)
(* sleep for its old value.  The threads of a group share its words, and   *)
(* every group shares the shared ones; a waiter's key is what futex_key    *)
(* makes of the word.  The word Tid is the one a thread clears as it dies, *)
(* for one joiner to wait on.                                              *)
(***************************************************************************)
EXTENDS Sleepers

CONSTANTS
    tgid,           \* the thread group of each process
    Words,          \* the private words of a group
    Shared,         \* the words in pages every group maps
    Tid,            \* the word of clear_child_tid, one per group
    Timeouts        \* whether waits have deadlines

VARIABLE
    word        \* the value, 0 or 1, of each key's word

vars == <<word, sleepers>>

\* futex_key: where a word is for process p, the same in every group for a
\* shared one.
futex_key(p, w) == IF w \in Shared THEN <<0, w>> ELSE <<tgid[p], w>>

AllWords == Words \cup Shared \cup {Tid}
FutexKeys == {futex_key(p, w) : p \in Procs, w \in AllWords}

WaitersOn(k) == {p \in Asleep("wait") : call[p].key = k}

\* wake_futex: up to max of the sleepers, in the order of their pids.
LowestOf(S, max) == {p \in S : Cardinality({q \in S : q < p}) < max}
wake_futex(k, max) == LowestOf(WaitersOn(k), max)

-----------------------------------------------------------------------------
\* FUTEX_WAIT: the word is compared and the process put to sleep with nothing
\* in between.
do_futex_WAIT(p, w, val) ==
    /\ Idle(p) /\ p \notin caught
    /\ word[futex_key(p, w)] = val
    /\ w = Tid => \A q \in Asleep("wait") : call[q].key # futex_key(p, w)
    /\ SleepsIn(p, [op |-> "wait", key |-> futex_key(p, w), val |-> val,
                    time |-> IF Timeouts THEN "later" ELSE "never"])
    /\ UNCHANGED word

\* The wait ends, woken, interrupted or timed out: it does not look at the word.
Resume(p) ==
    /\ state[p] = "run" /\ call[p].op = "wait"
    /\ Returns(p)
    /\ UNCHANGED <<word, state>>

\* The client: a store to the word, then FUTEX_WAKE for all who wait for it.
Store(p, w) ==
    /\ Idle(p) /\ w # Tid
    /\ word' = [word EXCEPT ![futex_key(p, w)] = 1 - @]
    /\ call' = [call EXCEPT ![p] = [op |-> "stored", word |-> w, time |-> "never"]]
    /\ UNCHANGED <<state, caught>>

do_futex_WAKE(p) ==
    /\ state[p] = "run" /\ call[p].op = "stored"
    /\ state' = Woken(wake_futex(futex_key(p, call[p].word), Cardinality(Procs)))
    /\ Returns(p)
    /\ UNCHANGED word

\* do_futex_requeue: wake some of the waiters of one private word and move some
\* of the rest to another, as a condition variable does with its mutex.
do_futex_requeue(p, w, w2, nr_wake, nr_requeue) ==
    LET k == <<tgid[p], w>>
        woken == wake_futex(k, nr_wake)
        moved == LowestOf(WaitersOn(k) \ woken, nr_requeue)
    IN  /\ Idle(p)
        /\ state' = Woken(woken)
        /\ call' = [q \in Procs |-> IF q \in moved
                        THEN [call[q] EXCEPT !.key = <<tgid[p], w2>>, !.val = word[<<tgid[p], w2>>]]
                        ELSE call[q]]
        /\ UNCHANGED <<word, caught>>

\* terminate_process: the dying thread clears its Tid word and wakes one waiter;
\* a process killed in a wait leaves nothing behind.
terminate_process(p) ==
    LET k == futex_key(p, Tid) IN
    /\ state[p] # "dead" /\ call[p].op \in {"none", "wait"}
    /\ word' = [word EXCEPT ![k] = 0]
    /\ state' = [Woken(wake_futex(k, 1) \ {p}) EXCEPT ![p] = "dead"]
    /\ call' = [call EXCEPT ![p] = NoCall]
    /\ caught' = caught \ {p}

Signal(p) == kill(p, {"wait"}) /\ UNCHANGED word
Expire(p) == Tick(p) /\ UNCHANGED word

Init ==
    /\ SleepersInit
    /\ word = [k \in FutexKeys |-> IF k[2] = Tid THEN 1 ELSE 0]

Next ==
    \E p \in Procs :
        \/ \E w \in AllWords, val \in {0, 1} : do_futex_WAIT(p, w, val)
        \/ Resume(p) \/ do_futex_WAKE(p) \/ terminate_process(p)
        \/ \E w \in Words \cup Shared : Store(p, w)
        \/ \E w, w2 \in Words, nr_wake \in {0, 1}, nr_requeue \in {1, 2} :
             w # w2 /\ do_futex_requeue(p, w, w2, nr_wake, nr_requeue)
        \/ Signal(p) \/ Expire(p)

Spec == Init /\ [][Next]_vars

-----------------------------------------------------------------------------
\* Type correctness.
TypeOK ==
    /\ word \in [FutexKeys -> {0, 1}]
    /\ \A p \in Procs :
         /\ state[p] \in {"run", "asleep", "dead"}
         /\ call[p].op \in {"none", "wait", "stored"}
         /\ call[p].op = "wait" => call[p].key \in FutexKeys

\* Nobody sleeps for a value its word no longer has, unless the one who changed
\* the word is about to wake it: the comparison and the sleep are one step, and
\* wake_futex, do_futex_requeue and terminate_process find the sleeper under
\* the key it has then.
NoStaleSleeper == \A p \in Asleep("wait") :
    word[call[p].key] # call[p].val =>
        \E q \in Procs : /\ state[q] = "run" /\ call[q].op = "stored"
                         /\ futex_key(q, call[q].word) = call[p].key
=============================================================================
