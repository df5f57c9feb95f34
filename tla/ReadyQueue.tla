----------------------------- MODULE ReadyQueue -----------------------------
(***************************************************************************)
(* Which thread runs: the priorities of sys/process/sched_4bsd.rs, the     *)
(* READY_QUEUE of sys/process/scheduler.rs and the timer that charges,     *)
(* decays and preempts.  A time-sharing thread's priority worsens with its *)
(* estcpu, charged for each tick and decayed once a second; real-time      *)
(* threads and kernel threads have fixed keys below every such priority.   *)
(*                                                                         *)
(* current keeps naming the last thread while the processor is idle.       *)
(* Kernel threads run with interrupts masked, so no tick falls in one.     *)
(***************************************************************************)
EXTENDS Integers, Sequences, FiniteSets

CONSTANTS
    Threads, First,             \* every thread, and the one that runs first
    Kernel,                     \* the kernel threads
    RtOf,                       \* sched_priority, 0 for a time-sharing thread
    Nices,                      \* the nice values setpriority(2) gives
    Loads,                      \* the one-minute load averages, times FSCALE
    TIMER_HZ, PREEMPT_QUANTUM_TICKS,
    PRIO_MIN, PRIO_MAX, INVERSE_ESTCPU_WEIGHT, RQ_PPQ, FSCALE

PRI_MIN_TIMESHARE == 120
PRI_MAX_TIMESHARE == 223
REALTIME_KEYS == 100
PRI_KERN == REALTIME_KEYS
NICE_WEIGHT == 1
ESTCPU_LIMIT ==
    INVERSE_ESTCPU_WEIGHT * (NICE_WEIGHT * (PRIO_MAX - PRIO_MIN) - RQ_PPQ)
      + INVERSE_ESTCPU_WEIGHT - 1

VARIABLES
    ready,      \* READY_QUEUE
    current,    \* CURRENT_PID
    idle,       \* the processor is halted in wait_for_ready
    estcpu,
    nice,
    quantum,    \* quantum_ticks_left of current
    phase,      \* TICKS % TIMER_HZ
    mid         \* current is in the few instructions of the fault trampoline

vars == <<ready, current, idle, estcpu, nice, quantum, phase, mid>>

Least(m, n) == IF m < n THEN m ELSE n
Queued(t) == \E i \in DOMAIN ready : ready[i] = t
Runs(t) == t = current /\ ~idle
Asleep(t) == ~Queued(t) /\ ~Runs(t)

-----------------------------------------------------------------------------
(* Priorities.  est and nc are the estcpu and nice of every thread.        *)

usrpri(t, est, nc) ==
    Least(PRI_MIN_TIMESHARE + est[t] \div INVERSE_ESTCPU_WEIGHT
            + NICE_WEIGHT * (nc[t] - PRIO_MIN),
          PRI_MAX_TIMESHARE)

key(t, est, nc) ==
    IF t \in Kernel THEN PRI_KERN
    ELSE IF RtOf[t] > 0 THEN REALTIME_KEYS - RtOf[t]
    ELSE usrpri(t, est, nc)

queue_of(k) ==
    IF k < REALTIME_KEYS THEN k ELSE REALTIME_KEYS + (k - REALTIME_KEYS) \div RQ_PPQ

charge_tick(e) == Least(e + 1, ESTCPU_LIMIT)

schedcpu(e, load) ==
    IF load = 0 THEN e \div 2 ELSE (e * 2 * load) \div (2 * load + FSCALE)

\* ready_queue_has_better_than, for a queue q and the key k of the running thread.
has_better_than_MUT(q, k, est) ==
    q # <<>> /\ queue_of(key(q[1], est, nice)) < queue_of(k)
has_better_than(q, k, est) ==
    \E i \in DOMAIN q : queue_of(key(q[i], est, nice)) < queue_of(k)

\* dequeue_highest_priority: the place in q of the first of the best keys.
best(q, est) ==
    CHOOSE i \in DOMAIN q : \A j \in DOMAIN q :
      \/ key(q[i], est, nice) < key(q[j], est, nice)
      \/ key(q[i], est, nice) = key(q[j], est, nice) /\ i <= j

-----------------------------------------------------------------------------
\* wait_for_ready with the queue q: its best thread runs, or the processor halts.
Switch(q, est) ==
    IF q = <<>>
      THEN idle' = TRUE /\ ready' = q /\ UNCHANGED <<current, quantum>>
      ELSE LET b == best(q, est)
           IN /\ current' = q[b]
              /\ ready' = SubSeq(q, 1, b - 1) \o SubSeq(q, b + 1, Len(q))
              /\ idle' = FALSE
              /\ quantum' = PREEMPT_QUANTUM_TICKS

\* What a tick charges, whoever was running; and, each second, the decay.
Charged == [estcpu EXCEPT ![current] = charge_tick(@)]
Accounted(load) ==
    IF phase + 1 = TIMER_HZ THEN [t \in Threads |-> schedcpu(Charged[t], load)] ELSE Charged

\* A tick in the fault trampoline (mid_fault_trampoline) neither takes from the
\* quantum nor preempts: the thread's rax is in a cell its siblings share.
timer_interrupt_handler(load) ==
    LET est == Accounted(load)
        expired == quantum <= 1
    IN /\ estcpu' = est
       /\ phase' = (phase + 1) % TIMER_HZ
       /\ UNCHANGED <<nice, mid>>
       /\ \/ /\ idle \/ mid
             /\ UNCHANGED <<ready, current, idle, quantum>>
          \/ /\ ~idle /\ ~mid /\ current \notin Kernel
             /\ has_better_than(ready, key(current, est, nice), est) \/ expired
             /\ Switch(Append(ready, current), est)
          \/ /\ ~idle /\ ~mid /\ current \notin Kernel
             /\ ~has_better_than(ready, key(current, est, nice), est) /\ ~expired
             /\ quantum' = quantum - 1
             /\ UNCHANGED <<ready, current, idle>>

\* With no second boundary in this tick the load average is not looked at.
Tick ==
    \/ phase + 1 < TIMER_HZ /\ timer_interrupt_handler(0)
    \/ phase + 1 = TIMER_HZ /\ \E load \in Loads : timer_interrupt_handler(load)

\* The current thread faults into the trampoline, or gets out of it.
fault_trampoline ==
    /\ ~idle /\ current \notin Kernel
    /\ mid' = ~mid
    /\ UNCHANGED <<ready, current, idle, estcpu, nice, quantum, phase>>

\* The current thread blocks, or gives the processor to another.
Block == ~idle /\ ~mid /\ Switch(ready, estcpu) /\ UNCHANGED <<estcpu, nice, phase, mid>>

Yield ==
    /\ ~idle /\ ~mid
    /\ Switch(Append(ready, current), estcpu)
    /\ UNCHANGED <<estcpu, nice, phase, mid>>

\* An interrupt or a system call wakes t; an idle processor then takes it.
enqueue_ready(t) ==
    /\ Asleep(t)
    /\ IF idle THEN Switch(Append(ready, t), estcpu)
               ELSE ready' = Append(ready, t) /\ UNCHANGED <<current, idle, quantum>>
    /\ UNCHANGED <<estcpu, nice, phase, mid>>

do_setpriority(t, n) ==
    /\ ~idle /\ ~mid /\ t \notin Kernel
    /\ nice[t] # n
    /\ nice' = [nice EXCEPT ![t] = n]
    /\ UNCHANGED <<ready, current, idle, estcpu, quantum, phase, mid>>

Init ==
    /\ ready = <<>> /\ current = First /\ idle = FALSE
    /\ estcpu = [t \in Threads |-> 0] /\ nice = [t \in Threads |-> 0]
    /\ quantum = PREEMPT_QUANTUM_TICKS /\ phase = 0 /\ mid = FALSE

Next ==
    \/ Tick \/ fault_trampoline \/ Block \/ Yield
    \/ \E t \in Threads : enqueue_ready(t) \/ \E n \in Nices : do_setpriority(t, n)

Spec == Init /\ [][Next]_vars

-----------------------------------------------------------------------------
(* Properties.                                                             *)

\* Type correctness: a thread is queued at most once, and estcpu is limited.
TypeOK ==
    /\ ready \in Seq(Threads) /\ Len(ready) <= Cardinality(Threads)
    /\ current \in Threads /\ idle \in BOOLEAN
    /\ estcpu \in [Threads -> 0..ESTCPU_LIMIT]
    /\ nice \in [Threads -> Nices]
    /\ quantum \in 1..PREEMPT_QUANTUM_TICKS /\ phase \in 0..(TIMER_HZ - 1)
    /\ mid \in BOOLEAN

\* Real-time threads come before kernel threads and those before every
\* time-sharing one, in keys and in run queues, and the best and the worst
\* time-sharing priority are told apart however they were reached: the clamp at
\* PRI_MAX_TIMESHARE never makes two of them equal.
KeyBands ==
    \A t \in Threads :
      LET k == key(t, estcpu, nice)
      IN IF t \notin Kernel /\ RtOf[t] = 0
           THEN /\ PRI_MIN_TIMESHARE <= k /\ k < PRI_MAX_TIMESHARE
                /\ queue_of(k) > queue_of(PRI_KERN)
           ELSE queue_of(k) <= queue_of(PRI_KERN)

\* "takes the CPU within a tick": after a tick no thread waits in a better run
\* queue than that of the thread that runs, wherever it is in READY_QUEUE and
\* whatever the tick did to the priorities; of the ticks that fall outside the
\* fault trampoline, the only ones that preempt.
PreemptedWithinTick ==
    [][phase' # phase /\ ~mid /\ ~idle' =>
         \A i \in DOMAIN ready' :
           queue_of(key(ready'[i], estcpu', nice'))
             >= queue_of(key(current', estcpu', nice'))]_vars
=============================================================================
