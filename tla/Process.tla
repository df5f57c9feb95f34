------------------------------ MODULE Process ------------------------------
(***************************************************************************)
(* Process life cycle and job control: fork, vfork, clone, exec, exit,     *)
(* exit_group, wait4 (sys/process/lifecycle.rs) and the kill family with   *)
(* its stop, continue and terminate dispositions (sys/process/signals.rs), *)
(* over the scheduler of module Scheduler.                                 *)
(*                                                                         *)
(* Signals are abstracted to what they do to a process: "KILL" stands for  *)
(* every signal whose action is to terminate, "STOP" to stop, "CONT" for   *)
(* SIGCONT.  A signal with a handler only wakes a sleeper: Wakeup.  The    *)
(* filesystem lock is free (fslock::busy is false; see FsLock), pid 1 is   *)
(* supervised and does not exit, and no process here is the leader of a    *)
(* session with a terminal to hang up.                                     *)
(***************************************************************************)
EXTENDS Scheduler

CONSTANTS
    Workload,       \* the calls and events of this instance
    Signals,        \* the signals sent in it
    Options         \* the wait4 options used in it

Calls == {"fork", "vfork", "clone", "execve", "exit", "exit_group", "wait4",
          "sleep", "io", "sigaction", "kill", "killpg", "keyboard"}

ASSUME ProcessAssumption ==
    /\ Workload \subseteq Calls
    /\ Signals \subseteq {"KILL", "STOP", "CONT"}
    /\ Options \subseteq SUBSET {"WUNTRACED", "WCONTINUED", "WNOHANG"}

VARIABLES
    nextPid,        \* NEXT_PID
    tgid, parent,
    children,       \* Process::children, per thread
    vforkParent,    \* Process::vfork_parent
    stopNote,       \* the pids with stop_notify_pending
    contNote,       \* the pids with cont_notify_pending
    pending,        \* the undelivered KILL and STOP of each thread
    noCldWait,      \* the thread groups with SA_NOCLDWAIT on SIGCHLD
    sigwork         \* the rest of signal_foreground_group's loop

treeVars == <<nextPid, tgid, parent, children, vforkParent>>
noteVars == <<stopNote, contNote, pending, noCldWait>>
vars == <<schedVars, treeVars, noteVars, sigwork>>

Wait4(target, options) == [op |-> "wait4", target |-> target, options |-> options]
Vfork(c) == [op |-> "vfork", child |-> c]
NoWork == [sig |-> "STOP", targets |-> {}, from |-> "run"]

-----------------------------------------------------------------------------
(* Wakes.  Each operator is the set of threads one call makes Ready.       *)

WaitingForChild(q, c) ==
    state[q] = "Blocked" /\ pc[q].op = "wait4" /\ pc[q].target \in {NoPid, c}

wake_parent_if_waiting_MUT(c) == {q \in Pids : q = parent[c] /\ WaitingForChild(q, c) /\ pc[q].target = NoPid}
wake_parent_if_waiting(c) == {q \in Pids : q = parent[c] /\ WaitingForChild(q, c)}

Interrupted(q) == state[q] = "Blocked" /\ pc[q] = Sleep

notify_parent_sigchld(c) == {q \in Pids : q = parent[c] /\ Interrupted(q)}

vfork_release(K) ==
    {q \in Pids : \E c \in K : /\ vforkParent[c] = q
                               /\ state[q] = "Blocked"
                               /\ pc[q] = Vfork(c)}

\* clear_child_tid: an exiting thread may wake one futex waiter of its group.
FutexWakes(t) ==
    {{}} \cup {{w} : w \in {x \in Pids : tgid[x] = tgid[t] /\ Interrupted(x)}}

-----------------------------------------------------------------------------
(* Termination.  K are the threads terminate_process is called for, all of *)
(* one group; f is the one that is the last of its group (NoPid if another *)
(* thread lives on) and W the futex waiters that outlive the call.         *)

Orphans(K) == UNION {children[p] : p \in K}

\* What INIT's children gain, and whether it is woken for one of them.
Adopted_MUT(K) == {}
Adopted(K) == Orphans(K)

reparent_orphans(K) ==
    IF \E c \in Orphans(K) : /\ state[c] = "Zombie"
                             /\ WaitingForChild(INIT, c) \/ Interrupted(INIT)
    THEN {INIT} ELSE {}

auto_reap(f) == f # NoPid /\ \E q \in Pids : q = parent[f] /\ Exists(q) /\ tgid[q] \in noCldWait

terminate_process(K, f, W) ==
    LET notified == IF f = NoPid THEN {}
                    ELSE wake_parent_if_waiting(f) \cup notify_parent_sigchld(f)
        auto == auto_reap(f)
        now == f # NoPid /\ f # current
    IN /\ Move(W \cup vfork_release(K) \cup reparent_orphans(K) \cup notified,
               K, {}, IF auto /\ now THEN {f} ELSE {})
       /\ space' = IF now THEN space \ {f} ELSE space
       /\ reaps' = reaps
            \cup {<<p, "RemoveEntry">> : p \in K \ {f}}
            \cup IF f = current
                 THEN {<<f, IF auto THEN "RemoveEntry" ELSE "TeardownOnly">>} ELSE {}
       /\ vforkParent' = [p \in Pids |-> IF p \in K THEN NoPid ELSE vforkParent[p]]
       /\ parent' = [p \in Pids |-> IF p \in Orphans(K) /\ Exists(p) THEN INIT ELSE parent[p]]
       /\ children' = [p \in Pids |->
            (CASE p \in K -> {}
               [] p = INIT -> children[p] \cup Adopted(K)
               [] OTHER -> children[p])
            \ (IF auto /\ p = parent[f] THEN {f} ELSE {})]

\* terminate_thread_group: every live thread, the leader last; if the leader
\* is gone already the thread it was called for is the last.
LiveGroup(t) == {p \in Pids : tgid[p] = tgid[t] /\ Alive(p)}
LastOf(t) == IF Alive(tgid[t]) THEN tgid[t] ELSE t

terminate_thread_group(t) == terminate_process(LiveGroup(t), LastOf(t), {})

-----------------------------------------------------------------------------
(* Creation, exec and exit.                                                *)

\* do_clone (a thread of t's group) and fork_impl (a new group) share the
\* table entry they build; group and up are the new entry's tgid and parent.
NewEntry(c, group, up) ==
    /\ nextPid <= MaxPid
    /\ nextPid' = nextPid + 1
    /\ tgid' = [tgid EXCEPT ![c] = group]
    /\ parent' = [parent EXCEPT ![c] = up]
    /\ space' = space \cup {c}
    /\ UNCHANGED <<reaps, current, stopNote, contNote, pending, sigwork>>

do_clone(t) ==
    /\ InUser(t)
    /\ tgid[t] # INIT
    /\ NewEntry(nextPid, tgid[t], parent[t])
    /\ enqueue_ready(nextPid)
    /\ UNCHANGED <<pc, cpu, children, vforkParent, noCldWait>>

ForkEntry(t) ==
    /\ InUser(t)
    /\ NewEntry(nextPid, nextPid, t)
    /\ children' = [children EXCEPT ![t] = @ \cup {nextPid}]
    /\ noCldWait' = IF tgid[t] \in noCldWait THEN noCldWait \cup {nextPid} ELSE noCldWait

do_fork(t) ==
    /\ ForkEntry(t)
    /\ enqueue_ready(nextPid)
    /\ UNCHANGED <<pc, cpu, vforkParent>>

do_vfork(t) ==
    /\ ForkEntry(t)
    /\ vforkParent' = [vforkParent EXCEPT ![nextPid] = t]
    /\ state' = [state EXCEPT ![nextPid] = "Ready", ![t] = "Blocked"]
    /\ queue' = [queue EXCEPT ![nextPid] = @ + 1]
    /\ pc' = [pc EXCEPT ![t] = Vfork(nextPid)]
    /\ cpu' = "schedule"

\* The loop a vfork caller sleeps in, once it runs again.
vfork_released_MUT(t) == TRUE
vfork_released(t) == ~(Exists(pc[t].child) /\ vforkParent[pc[t].child] = t)

ResumeVfork(t) ==
    /\ cpu = "run" /\ current = t /\ pc[t].op = "vfork"
    /\ \/ vfork_released(t) /\ Return(t) /\ UNCHANGED <<state, queue, cpu>>
       \/ ~vfork_released(t) /\ Block(t, pc[t])
    /\ UNCHANGED <<space, reaps, current, treeVars, noteVars, sigwork>>

\* exec_image, as far as other processes see it: a borrowed address space is
\* given back.
do_execve(t) ==
    /\ InUser(t)
    /\ Move(vfork_release({t}), {}, {}, {})
    /\ vforkParent' = [vforkParent EXCEPT ![t] = NoPid]
    /\ UNCHANGED <<pc, space, reaps, current, cpu>>
    /\ UNCHANGED <<nextPid, tgid, parent, children, noteVars, sigwork>>

Exiting(t) ==
    /\ cpu' = "schedule"
    /\ UNCHANGED <<pc, current, nextPid, tgid, noteVars, sigwork>>

do_exit(t) ==
    /\ InUser(t)
    /\ tgid[t] # INIT
    /\ \E W \in FutexWakes(t) :
         terminate_process({t}, IF LiveGroup(t) \subseteq {t} THEN t ELSE NoPid, W)
    /\ Exiting(t)

do_exit_group(t) ==
    /\ InUser(t)
    /\ tgid[t] # INIT
    /\ terminate_thread_group(t)
    /\ Exiting(t)

-----------------------------------------------------------------------------
(* wait4.  WaitPass is one pass of its loop, from the top to the return or *)
(* to the sleep.                                                           *)

Matching(t, call) == {c \in children[t] : call.target \in {NoPid, c}}

Zombies(M) == {c \in M : state[c] = "Zombie"}
StopReports(M, options) == {c \in M \cap stopNote : "WUNTRACED" \in options /\ Exists(c)}
ContReports(M, options) == {c \in M \cap contNote : "WCONTINUED" \in options /\ Exists(c)}

ReapChild(t, c) ==
    /\ Move({}, {}, {}, {c})
    /\ space' = space \ {c}
    /\ children' = [children EXCEPT ![t] = @ \ {c}]
    /\ UNCHANGED <<stopNote, contNote>>

Report(stops, conts) ==
    /\ stopNote' = stopNote \ stops
    /\ contNote' = contNote \ conts
    /\ UNCHANGED <<state, queue, space, children>>

WaitReturns(t, call, M) ==
    \/ M = {} /\ Report({}, {})
    \/ \E c \in Zombies(M) : ReapChild(t, c)
    \/ /\ Zombies(M) = {}
       /\ \/ \E c \in StopReports(M, call.options) : Report({c}, {})
          \/ /\ StopReports(M, call.options) = {}
             /\ \E c \in ContReports(M, call.options) : Report({}, {c})

NothingToReport(call, M) ==
    /\ M # {}
    /\ Zombies(M) = {}
    /\ StopReports(M, call.options) = {}
    /\ ContReports(M, call.options) = {}

WaitPass(t, call) ==
    LET M == Matching(t, call)
    IN /\ \/ WaitReturns(t, call, M) /\ Return(t) /\ UNCHANGED cpu
          \/ /\ NothingToReport(call, M)
             /\ "WNOHANG" \in call.options
             /\ Report({}, {}) /\ Return(t) /\ UNCHANGED cpu
          \/ /\ NothingToReport(call, M)
             /\ "WNOHANG" \notin call.options
             /\ Block(t, call)
             /\ UNCHANGED <<space, children, stopNote, contNote>>
       /\ UNCHANGED <<reaps, current, nextPid, tgid, parent, vforkParent>>
       /\ UNCHANGED <<pending, noCldWait, sigwork>>

do_wait4(t, target, options) == InUser(t) /\ WaitPass(t, Wait4(target, options))

ResumeWait4(t) ==
    cpu = "run" /\ current = t /\ pc[t].op = "wait4" /\ WaitPass(t, pc[t])

-----------------------------------------------------------------------------
(* Signals.                                                                *)

\* What stopping r does in do_kill, signal_foreground_group and do_stop_self.
StopWakes(r) == wake_parent_if_waiting(r) \cup notify_parent_sigchld(r)

Stop(r) ==
    /\ Move(StopWakes(r), {}, {r}, {})
    /\ stopNote' = stopNote \cup {r}

\* SIGCONT for the threads R, of which only the stopped ones resume.
Resumed(R) == {p \in R : state[p] = "Stopped"}

\* A continued thread's stop is no longer reported.
StopsAfter_MUT(C) == stopNote
StopsAfter(C) == stopNote \ C

Continue(R) ==
    LET C == Resumed(R)
    IN /\ Move(C \cup UNION {notify_parent_sigchld(p) : p \in C}, {}, {}, {})
       /\ contNote' = contNote \cup C
       /\ stopNote' = StopsAfter(C)
       /\ pending' = [p \in Pids |-> IF p \in C THEN pending[p] \ {"STOP"} ELSE pending[p]]

\* route_signal_target: a signal for a group's leader goes to some live thread
\* of the group, one for any other thread to that thread.
route_signal_target(target) ==
    IF tgid[target] = target /\ LiveGroup(target) # {} THEN LiveGroup(target) ELSE {target}

\* init::discards: pid 1 has no handler for a signal that would end or stop it.
discards(p) == tgid[p] = INIT

\* A signal for a thread of the caller's own group is left for that thread to
\* take on its way to user mode, and wakes it if it sleeps.
KillOwnThread(r, sig) ==
    /\ pending' = [pending EXCEPT ![r] = @ \cup {sig}]
    /\ Move(IF Interrupted(r) THEN {r} ELSE {}, {}, {}, {})
    /\ UNCHANGED <<space, reaps, treeVars, stopNote, contNote>>

KillOther(r, sig) ==
    \/ /\ sig = "KILL"
       /\ terminate_thread_group(r)
       /\ UNCHANGED <<nextPid, tgid, stopNote, contNote, pending>>
    \/ /\ sig = "STOP"
       /\ Stop(r)
       /\ UNCHANGED <<space, reaps, treeVars, contNote, pending>>
    \/ /\ sig = "CONT"
       /\ Continue({r})
       /\ UNCHANGED <<space, reaps, treeVars>>

\* Signalling a zombie succeeds and does nothing.
Signalled_MUT(r) == Exists(r)
Signalled(r) == Alive(r)

\* kill(target, sig) with target > 0.
do_kill(t, target, sig) ==
    /\ InUser(t)
    /\ \E r \in route_signal_target(target) :
         /\ Signalled(r) /\ ~discards(r)
         /\ \/ tgid[r] = tgid[t] /\ sig # "CONT" /\ KillOwnThread(r, sig)
            \/ tgid[r] # tgid[t] /\ KillOther(r, sig)
    /\ UNCHANGED <<pc, current, cpu, noCldWait, sigwork>>

\* The targets of signal_foreground_group, and its loop over them in pid order.
\* setpgid puts any process in any group, so a group G is any set of threads.
Groups == SUBSET {p \in Pids : Alive(p)}

GroupTargets(G) == {p \in G : Alive(p)}

signal_foreground_group(G, sig, from) ==
    /\ sigwork' = [sig |-> sig, targets |-> {p \in GroupTargets(G) : ~discards(p)}, from |-> from]
    /\ cpu' = "signal"
    /\ UNCHANGED <<state, pc, space, queue, reaps, current, treeVars, noteVars>>

SignalNext ==
    /\ cpu = "signal"
    /\ \E r \in sigwork.targets :
         /\ \A q \in sigwork.targets : r <= q
         /\ sigwork' = [sigwork EXCEPT !.targets = @ \ {r}]
         /\ \/ Alive(r) /\ KillOther(r, sigwork.sig)
            \/ ~Alive(r) /\ UNCHANGED <<state, queue, space, reaps, treeVars, stopNote, contNote, pending>>
    /\ UNCHANGED <<pc, current, cpu, noCldWait>>

\* The loop is done.  The handler of the PS/2 keyboard leaves user code that it
\* stopped or killed through schedule(), and so does the tick that polled a USB
\* keyboard.  In the idle loop, after kill() and after the serial line nothing
\* does: the thread goes on, and a later tick (Preempt) takes the CPU from it.
must_reschedule_MUT == FALSE
must_reschedule == sigwork.from = "keyboard" /\ state[current] # "Running"

SignalDone ==
    /\ cpu = "signal"
    /\ sigwork.targets = {}
    /\ cpu' = IF must_reschedule THEN "schedule"
              ELSE IF sigwork.from = "idle" THEN "idle" ELSE "run"
    /\ sigwork' = NoWork
    /\ UNCHANGED <<state, pc, space, queue, reaps, current, treeVars, noteVars>>

\* Ctrl+C or Ctrl+Z for the foreground group G.
keyboard_interrupt_handler(G, sig) ==
    /\ Interruptible
    /\ signal_foreground_group(G, sig, IF cpu = "idle" THEN "idle" ELSE "keyboard")

\* The same from the serial console, whose handler has no frame: it only asks the
\* next tick to reschedule (request_reschedule).  A USB key polled in a tick that
\* interrupted the fault trampoline is the same: the request waits for the next.
serial_interrupt(G, sig) ==
    /\ Interruptible
    /\ signal_foreground_group(G, sig, IF cpu = "idle" THEN "idle" ELSE "serial")

\* kill(-G, sig), for a group none of the caller's threads is in.
OwnGroup(t, G) == \E p \in GroupTargets(G) : tgid[p] = tgid[t]

do_kill_group(t, G, sig) ==
    /\ InUser(t)
    /\ sig # "CONT"
    /\ ~OwnGroup(t, G)
    /\ signal_foreground_group(G, sig, "kill")

\* SIGCONT resumes every stopped member before anything else is done.
do_kill_group_cont(t, G) ==
    /\ InUser(t)
    /\ Continue(GroupTargets(G))
    /\ UNCHANGED <<pc, space, reaps, current, cpu, treeVars, noCldWait, sigwork>>

\* kill(0, sig): the caller's own group.
do_kill_own_group(t, G, sig) ==
    /\ InUser(t)
    /\ sig # "CONT"
    /\ OwnGroup(t, G)
    /\ signal_foreground_group(G, sig, "kill")

\* deliver_pending_signal, on the way back to user mode or from the timer's
\* trampoline.  A new thread, or one inside a handler, may make more calls
\* before it gets there.
DeliverSignal(t) ==
    /\ InUser(t)
    /\ \/ /\ "KILL" \in pending[t]
          /\ terminate_thread_group(t)
          /\ UNCHANGED <<nextPid, tgid, stopNote, pending>>
       \/ /\ "STOP" \in pending[t]
          /\ Stop(t)
          /\ pending' = [pending EXCEPT ![t] = @ \ {"STOP"}]
          /\ UNCHANGED <<space, reaps, treeVars>>
    /\ cpu' = "schedule"
    /\ UNCHANGED <<pc, current, contNote, noCldWait, sigwork>>

-----------------------------------------------------------------------------
(* The rest: sleeps and their wake-ups, preemption, attributes.            *)

BlockIn(t, call) ==
    /\ InUser(t)
    /\ Block(t, call)
    /\ UNCHANGED <<space, reaps, current, treeVars, noteVars, sigwork>>

\* A woken sleeper either has what it waited for or sleeps again.
ResumeSleep(t) ==
    /\ cpu = "run" /\ current = t /\ pc[t] \in {Sleep, Io}
    /\ \/ Return(t) /\ UNCHANGED <<state, queue, cpu>>
       \/ Block(t, pc[t])
    /\ UNCHANGED <<space, reaps, current, treeVars, noteVars, sigwork>>

\* A sleeper's event: an interrupt handler, or a call of the running thread.
Wakeup(p) ==
    /\ Interruptible
    /\ state[p] = "Blocked" /\ pc[p] \in {Sleep, Io}
    /\ enqueue_ready(p)
    /\ UNCHANGED <<pc, space, reaps, current, cpu, treeVars, noteVars, sigwork>>

\* The timer's quantum, or a voluntary yield.
Preempt(t) ==
    /\ InUser(t)
    /\ cpu' = "schedule"
    /\ UNCHANGED <<state, pc, space, queue, reaps, current, treeVars, noteVars, sigwork>>

\* sigaction(SIGCHLD) sets or clears SA_NOCLDWAIT.
do_sigaction(t) ==
    /\ InUser(t)
    /\ noCldWait' = IF tgid[t] \in noCldWait THEN noCldWait \ {tgid[t]}
                                            ELSE noCldWait \cup {tgid[t]}
    /\ UNCHANGED <<schedVars, treeVars, stopNote, contNote, pending, sigwork>>

-----------------------------------------------------------------------------
Init ==
    /\ state = [p \in Pids |-> IF p = INIT THEN "Running" ELSE "Absent"]
    /\ pc = [p \in Pids |-> User]
    /\ space = {INIT}
    /\ queue = [p \in Pids |-> 0]
    /\ reaps = {}
    /\ current = INIT
    /\ cpu = "run"
    /\ nextPid = INIT + 1
    /\ tgid = [p \in Pids |-> p]
    /\ parent = [p \in Pids |-> NoPid]
    /\ children = [p \in Pids |-> {}]
    /\ vforkParent = [p \in Pids |-> NoPid]
    /\ stopNote = {} /\ contNote = {}
    /\ pending = [p \in Pids |-> {}]
    /\ noCldWait = {}
    /\ sigwork = NoWork

Schedule == (schedule_inner \/ \E n \in Pids : Dispatch(n)) /\ UNCHANGED <<treeVars, noteVars, sigwork>>

Calling(t) ==
    \/ "fork" \in Workload /\ do_fork(t)
    \/ "vfork" \in Workload /\ do_vfork(t)
    \/ "clone" \in Workload /\ do_clone(t)
    \/ "execve" \in Workload /\ do_execve(t)
    \/ "exit" \in Workload /\ do_exit(t)
    \/ "exit_group" \in Workload /\ do_exit_group(t)
    \/ /\ "wait4" \in Workload
       /\ \E target \in Pids \cup {NoPid}, options \in Options : do_wait4(t, target, options)
    \/ "sleep" \in Workload /\ BlockIn(t, Sleep)
    \/ "io" \in Workload /\ BlockIn(t, Io)
    \/ "sigaction" \in Workload /\ do_sigaction(t)
    \/ Preempt(t)

Resuming(t) == ResumeVfork(t) \/ ResumeWait4(t) \/ ResumeSleep(t)

Killing(t) ==
    \/ /\ "kill" \in Workload
       /\ \E target \in Pids, sig \in Signals : Exists(target) /\ do_kill(t, target, sig)
    \/ /\ "killpg" \in Workload
       /\ \E G \in Groups :
            \/ \E sig \in Signals : do_kill_group(t, G, sig)
            \/ "CONT" \in Signals /\ do_kill_group_cont(t, G)
    \/ DeliverSignal(t)

Interrupt ==
    \/ \E p \in Pids : Wakeup(p)
    \/ /\ "keyboard" \in Workload
       /\ \E G \in Groups, sig \in Signals \ {"CONT"} : keyboard_interrupt_handler(G, sig)

Next ==
    \/ Schedule
    \/ \E t \in Pids : Calling(t) \/ Resuming(t) \/ Killing(t)
    \/ Interrupt
    \/ SignalNext \/ SignalDone

Spec == Init /\ [][Next]_vars

-----------------------------------------------------------------------------
(* The whole system: next to Next, the two kinds of step after which a     *)
(* thread that was killed or stopped can go on executing: a signal         *)
(* character from the serial console, and a program that signals its own   *)
(* process group, kill(0, sig).  Nothing on the way back to user mode, and *)
(* no call, looks at the thread's state again (InUser), so it may fork,    *)
(* sleep or wait as a zombie.  What the rest of the system keeps, it keeps *)
(* as long as neither happens: SpecAll /\ [][~RunsOn]_vars is the system   *)
(* of Spec.                                                                *)

RunsOn ==
    \E G \in Groups, sig \in Signals \ {"CONT"} :
        \/ serial_interrupt(G, sig)
        \/ \E t \in Pids : do_kill_own_group(t, G, sig)

NextAll == Next \/ RunsOn

SpecAll == Init /\ [][NextAll]_vars

-----------------------------------------------------------------------------
(* Properties.                                                             *)

Call ==
    [op : {"user", "sleep", "io"}]
    \cup [op : {"vfork"}, child : Pids]
    \cup [op : {"wait4"}, target : Pids \cup {NoPid}, options : Options]

\* Type correctness of the process table and of the scheduler's state.
TypeOK ==
    /\ state \in [Pids -> States]
    /\ pc \in [Pids -> Call]
    /\ space \subseteq Pids
    /\ queue \in [Pids -> Nat]
    /\ reaps \subseteq Pids \X ReapKinds
    /\ current \in Pids
    /\ cpu \in {"run", "signal", "schedule", "idle"}
    /\ nextPid \in 2..(MaxPid + 1)
    /\ tgid \in [Pids -> Pids]
    /\ parent \in [Pids -> Pids \cup {NoPid}]
    /\ children \in [Pids -> SUBSET Pids]
    /\ vforkParent \in [Pids -> Pids \cup {NoPid}]
    /\ stopNote \subseteq Pids /\ contNote \subseteq Pids /\ noCldWait \subseteq Pids
    /\ pending \in [Pids -> SUBSET {"KILL", "STOP"}]
    /\ sigwork \in [sig : {"KILL", "STOP"}, targets : SUBSET Pids,
                   from : {"run", "idle", "keyboard", "serial", "kill"}]

\* READY_QUEUE holds every Ready thread once and nothing else (schedule_inner's
\* comment): a stale entry would switch to a dead or sleeping thread, a second
\* one would run a thread that has gone back to sleep, a missing one would
\* leave it Ready for ever.  No wake, kill, stop or continue breaks it.
ReadyQueueExact ==
    \A p \in Pids : queue[p] = IF state[p] = "Ready" THEN 1 ELSE 0

\* The thread whose kernel stack is in use keeps its table entry until another
\* one runs, and a thread that can still run keeps its address space: what
\* schedule() and activate_and_prepare unwrap is there, whatever was killed or
\* reaped while the thread was off the CPU or the CPU idle.
NothingFreedInUse ==
    /\ Exists(current)
    /\ \A p \in Pids : Alive(p) => p \in space

\* User code runs only as the thread that is Running, and no other thread is:
\* a killed or stopped thread does not go on executing.  (Not so once RunsOn.)
OnlyRunningRuns ==
    /\ cpu = "run" => state[current] = "Running"
    /\ \A p \in Pids : state[p] = "Running" => p = current /\ cpu # "idle"

\* The inductive invariant behind the three: what is queued for reaping is dead,
\* a pid not handed out yet is not in the table, a group's leader is in the
\* group, and while a signal loop runs the interrupted thread is still Running
\* or is one of the loop's victims.
SchedInv ==
    /\ TypeOK
    /\ ReadyQueueExact
    /\ NothingFreedInUse
    /\ OnlyRunningRuns
    /\ \A r \in reaps : ~Alive(r[1]) /\ r[1] < nextPid
    /\ \A p \in Pids : p >= nextPid => state[p] = "Absent" /\ tgid[p] = p
    /\ \A p \in Pids : p < nextPid => tgid[p] < nextPid
    /\ \A p \in Pids : tgid[tgid[p]] = tgid[p]
    /\ cpu = "schedule" => state[current] # "Ready"
    /\ cpu = "signal" =>
        /\ sigwork.from \notin {"run", "serial"}
        /\ sigwork.from = "keyboard" => state[current] \in {"Running", "Stopped", "Zombie"}
        /\ sigwork.from = "idle" => state[current] # "Running"
        /\ sigwork.from = "kill" =>
             /\ state[current] = "Running"
             /\ \A p \in sigwork.targets : tgid[p] # tgid[current]

\* The unreachable! of wait4's WUNTRACED branch: a child with a stop left to
\* report is stopped, or dead and then reported as such.
StopNoteIsStopped ==
    \A p \in stopNote : Alive(p) => state[p] = "Stopped"

\* No lost wakeup in wait4: a sleeping caller has a child to wait for, and none
\* of those is a zombie or, with WUNTRACED, stopped and not yet reported.  The
\* child may exit, be killed, stopped, reparented or reaped automatically at
\* any time.  (An entry queued for removal is no longer a child to report.
\* reparent_orphans looks for zombies only: pid 1 is not woken when it adopts a
\* child that is stopped, so the clause on stops leaves it out.)
WaitNotLost ==
    \A t \in Pids : state[t] = "Blocked" /\ pc[t].op = "wait4" =>
        LET M == Matching(t, pc[t])
        IN /\ M # {}
           /\ \A c \in Zombies(M) : <<c, "RemoveEntry">> \in reaps
           /\ t # INIT => StopReports(M, pc[t].options) = {}

\* A vfork caller never runs while its child borrows its address space, even
\* when it is stopped and continued in between, and it sleeps only while there
\* is a living child whose exec or exit will wake it.
VforkBorrows ==
    /\ \A c, q \in Pids : Alive(c) /\ vforkParent[c] = q /\ Alive(q) => pc[q] = Vfork(c)
    /\ \A q \in Pids : state[q] = "Blocked" /\ pc[q].op = "vfork" =>
            Alive(pc[q].child) /\ vforkParent[pc[q].child] = q

\* A process that has ended is waiting to be reaped by a parent that lives: no
\* zombie leader is forgotten when its parent dies first or at the same time.
ZombieHasParent ==
    \A c \in Pids : state[c] = "Zombie" /\ tgid[c] = c /\ <<c, "RemoveEntry">> \notin reaps =>
        \E q \in Pids : Alive(q) /\ parent[c] = q /\ c \in children[q]

\* What the process tree keeps, next to SchedInv.  Pid 1 is never ended; a pid
\* not handed out yet is nobody's child; a child is a process of its own, with
\* the parent that lists it; and every process in the table but pid 1, unless it
\* is about to be removed, is listed by a parent that lives.
TreeInv ==
    /\ Alive(INIT) /\ tgid[INIT] = INIT
    /\ \A p \in Pids : tgid[p] = INIT => pending[p] = {} /\ p \notin sigwork.targets
    /\ \A p \in Pids : p >= nextPid => p \notin stopNote /\ children[p] = {} /\ vforkParent[p] = NoPid
    /\ \A p \in Pids : vforkParent[p] < nextPid
    /\ \A p \in Pids : state[p] = "Zombie" => vforkParent[p] = NoPid
    /\ \A p \in Pids : \A c \in children[p] :
         /\ c < nextPid /\ c # INIT /\ tgid[c] = c /\ tgid[p] # c
         /\ Exists(c) => parent[c] = p
    /\ \A c \in Pids \ {INIT} : Exists(c) /\ tgid[c] = c /\ <<c, "RemoveEntry">> \notin reaps =>
         \E q \in Pids : Alive(q) /\ parent[c] = q /\ c \in children[q]

\* A dead thread stays dead: it never runs, blocks or stops again.
DeadForGood ==
    [][\A p \in Pids : state[p] = "Zombie" => state'[p] \in {"Zombie", "Absent"}]_vars

\* terminate_process: "only the whole thread group ever generates a
\* wait4-visible zombie".  So when all the threads of every process a wait4
\* caller waits for have ended, the caller is not left asleep.
GroupDeathSeen ==
    \A t \in Pids : state[t] = "Blocked" /\ pc[t].op = "wait4" =>
        \E c \in Matching(t, pc[t]), p \in Pids : tgid[p] = c /\ Alive(p)
=============================================================================
